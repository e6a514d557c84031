----------------------------- MODULE AccessProofs -----------------------------
(***************************************************************************)
(* Proofs about Access, for any number of people, organizations, projects, *)
(* keys, codes and overlapping requests, and for every mix of operations.  *)
(***************************************************************************)
EXTENDS Access, FiniteSetTheorems, TLAPS

Exchange == {"presented", "consumed", "mint"}

Operations ==
    {"welcome", "ready", "create_org", "delete_org", "join", "project", "update",
     "delete_project", "key", "drop", "issue"} \cup Exchange \cup Waiting

(* What an operation is about.                                             *)
Ons ==
    {None} \cup Orgs \cup Codes \cup ProjectIds
        \cup (Orgs \X (Roles \ {"OWNER"})) \cup (Orgs \X Names) \cup (ProjectIds \X Names)
        \cup (Orgs \X {"never", "running"} \X (Keys \cup {None}))
        \cup (Keys \X {"revoked", "gone"}) \cup (ProjectIds \X Codes)

WhatFits(op, on) ==
    /\ op \in Waiting \cup {"welcome", "ready"} => on = None
    /\ op \in {"create_org", "delete_org"} => on \in Orgs
    /\ op = "join" => on \in Orgs \X (Roles \ {"OWNER"})
    /\ op = "project" => on \in Orgs \X Names
    /\ op = "update" => on \in ProjectIds \X Names
    /\ op = "delete_project" => on \in ProjectIds
    /\ op = "key" => on \in Orgs \X {"never", "running"} \X (Keys \cup {None})
    /\ op = "drop" => on \in Keys \X {"revoked", "gone"}
    /\ op = "issue" => on \in ProjectIds \X Codes
    /\ op \in Exchange => on \in Codes

Request ==
    [op : Operations, user : People \cup {None}, new : BOOLEAN,
     jit : Orgs \cup {None}, on : Ons]

(* Who may have sent a request: only a key or a code comes without a user, *)
(* and nobody has been signed up while the row is waited for.              *)
WhoFits(q) ==
    /\ q.op \notin Exchange \cup {"project"} => q.user \in People
    /\ q.user = None => ~q.new /\ q.jit = None
    /\ q.op \in Waiting => ~q.new /\ q.jit = None

KeyRows ==
    [state : {"active", "revoked", "gone"}, org : Orgs, by : People,
     life : {"never", "running", "over"}]

CodeRows == [state : {"live", "expired", "gone"}, by : People, project : ProjectIds]

(* The tables and the requests are well typed.                             *)
TypeOK ==
    /\ users \subseteq People
    /\ welcomes \in [People -> Nat]
    /\ aborted \in [People -> Nat]
    /\ founder \in [Orgs -> People \cup {None}]
    /\ live \subseteq Orgs
    /\ role \in [People -> [Orgs -> Roles \cup {"NONE"}]]
    /\ project \in [ProjectIds -> Names \cup {"free", "gone"}]
    /\ key \in [Keys -> {NoKey} \cup KeyRows]
    /\ code \in [Codes -> {NoCode} \cup CodeRows]
    /\ minted \in [Codes -> Nat]
    /\ req \in [Requests -> {Idle} \cup Request]

(* A request knows what its operation needs, and the key or the code it    *)
(* has found has a row.                                                    *)
RequestsFit ==
    \A r \in InFlight :
        /\ WhatFits(req[r].op, req[r].on)
        /\ WhoFits(req[r])
        /\ req[r].op = "drop" => key[req[r].on[1]] # NoKey
        /\ req[r].op \in Exchange => code[req[r].on] # NoCode

TypeInv == TypeOK /\ RequestsFit

(* A request is idle or one of Request, never both.                        *)
LEMMA IdleApart ==
    /\ Idle \notin Request
    /\ Idle.op \notin Operations
    /\ NoKey \notin KeyRows
    /\ NoCode \notin CodeRows
<1>1. \A q \in Request : q.op # "idle"
  BY DEF Request, Operations, Exchange, Waiting
<1>2. \A q \in KeyRows \cup CodeRows : q.state # "free"
  BY DEF KeyRows, CodeRows
<1> QED
  BY <1>1, <1>2 DEF Idle, NoKey, NoCode, Operations, Exchange, Waiting

(* What fits an operation is one of the things operations are about.       *)
LEMMA FitsOns ==
    ASSUME NEW op \in Operations, NEW on, WhatFits(op, on)
    PROVE  on \in Ons
  BY DEF WhatFits, Operations, Exchange, Waiting, Ons

(* A row of a key or of a code may change, but never goes without a trace. *)
RowsStay ==
    /\ \A k \in Keys : key[k] # NoKey => key'[k] # NoKey
    /\ \A c \in Codes : code[c] # NoCode => code'[c] # NoCode

(* What one request turns into fits, if the others stay as they are.       *)
LEMMA OneRequest ==
    ASSUME TypeInv, RowsStay, NEW r \in Requests, NEW q \in {Idle} \cup Request,
           req' = [req EXCEPT ![r] = q],
           q # Idle => /\ WhatFits(q.op, q.on)
                       /\ WhoFits(q)
                       /\ q.op = "drop" => key'[q.on[1]] # NoKey
                       /\ q.op \in Exchange => code'[q.on] # NoCode
    PROVE  /\ req' \in [Requests -> {Idle} \cup Request]
           /\ RequestsFit'
<1>1. req' \in [Requests -> {Idle} \cup Request]
  BY DEF TypeInv, TypeOK
<1>2. ASSUME NEW s \in Requests, s # r, req[s] # Idle
      PROVE  /\ WhatFits(req[s].op, req[s].on)
             /\ WhoFits(req[s])
             /\ req[s].op = "drop" => key'[req[s].on[1]] # NoKey
             /\ req[s].op \in Exchange => code'[req[s].on] # NoCode
  <2>1. /\ WhatFits(req[s].op, req[s].on)
        /\ WhoFits(req[s])
        /\ req[s].op = "drop" => key[req[s].on[1]] # NoKey
        /\ req[s].op \in Exchange => code[req[s].on] # NoCode
    BY <1>2 DEF TypeInv, RequestsFit, InFlight
  <2>2. req[s].op = "drop" => req[s].on[1] \in Keys
    BY <2>1 DEF WhatFits
  <2>3. req[s].op \in Exchange => req[s].on \in Codes
    BY <2>1 DEF WhatFits
  <2> QED
    BY <2>1, <2>2, <2>3 DEF RowsStay
<1>3. \A s \in Requests : s # r => req'[s] = req[s]
  BY DEF TypeInv, TypeOK
<1>4. req'[r] = q
  BY DEF TypeInv, TypeOK
<1> QED
  BY <1>1, <1>2, <1>3, <1>4 DEF RequestsFit, InFlight

(* A new id is one that nobody uses.                                       *)
LEMMA NewIdsUnused == NewIds \subseteq Unused
BY DEF NewIds

-----------------------------------------------------------------------------
(* The kinds of steps.                                                     *)

(* Of a request that uses what it is given only its operation changes.     *)
LEMMA AskKeepsType ==
    ASSUME TypeInv, NEW r \in Requests,
           NEW op \in Operations \ (Waiting \cup {"welcome"}), NEW on,
           Ask(r, op, on), WhatFits(op, on),
           op = "drop" => key[on[1]] # NoKey, op \notin Exchange
    PROVE  TypeInv'
<1> DEFINE q == [req[r] EXCEPT !.op = op, !.on = on]
<1>1. req[r] \in Request /\ req[r] # Idle /\ req[r].op = "ready"
  BY DEF Ask, TypeInv, TypeOK, Idle
<1>2. /\ q \in Request /\ q.op = op /\ q.on = on
      /\ q.user = req[r].user /\ q.new = req[r].new /\ q.jit = req[r].jit
  BY <1>1, FitsOns DEF Request
<1>3. WhoFits(q)
  <2>1. WhoFits(req[r])
    BY <1>1 DEF TypeInv, RequestsFit, InFlight
  <2> QED
    BY <1>1, <1>2, <2>1 DEF WhoFits, Exchange
<1>4. UNCHANGED <<accountVars, project, key, code, minted>> /\ req' = [req EXCEPT ![r] = q]
  BY DEF Ask, Advance
<1>5. RowsStay
  BY <1>4 DEF RowsStay
<1>6. /\ req' \in [Requests -> {Idle} \cup Request]
      /\ RequestsFit'
  <2>1. q \in {Idle} \cup Request
    BY <1>2
  <2>2. /\ WhatFits(q.op, q.on)
        /\ q.op = "drop" => key'[q.on[1]] # NoKey
        /\ q.op \notin Exchange
    BY <1>2, <1>4
  <2> HIDE DEF q
  <2> QED
    BY <1>3, <1>4, <1>5, <2>1, <2>2, OneRequest
<1> QED
  BY <1>4, <1>6 DEF TypeInv, TypeOK, accountVars

(* A request ends, whatever became of the tables.                          *)
LEMMA EndKeepsFit ==
    ASSUME TypeInv, RowsStay, NEW r \in Requests, End(r)
    PROVE  req' \in [Requests -> {Idle} \cup Request] /\ RequestsFit'
  BY OneRequest DEF End

(* A rollback takes back what its request flushed, and leaves the types.   *)
LEMMA UndoKeepsType ==
    ASSUME TypeInv, NEW r \in Requests, req[r] # Idle, Undo(r)
    PROVE  TypeInv'
<1>1. req[r] \in Request
  BY DEF TypeInv, TypeOK
<1>2. req[r].new => req[r].user \in People
  BY <1>1 DEF TypeInv, RequestsFit, InFlight, WhoFits, Request
<1>3. aborted' \in [People -> Nat]
  BY <1>2 DEF Undo, TypeInv, TypeOK
<1>4. req' \in [Requests -> {Idle} \cup Request] /\ RequestsFit'
  <2>1. RowsStay
    BY DEF Undo, RowsStay
  <2> QED
    BY <2>1, EndKeepsFit DEF Undo
<1> QED
  BY <1>3, <1>4 DEF Undo, TypeInv, TypeOK

(* What commits with the sign-in of a user.                                *)
LEMMA CommitsKeepType ==
    ASSUME TypeInv, NEW r \in Requests, req[r] \in Request, req[r].user \in People,
           NEW news \in SUBSET Orgs, NEW roles \in [People -> [Orgs -> Roles \cup {"NONE"}]],
           CommitUser(req[r]), CommitOrgs(req[r], news, roles), End(r),
           UNCHANGED <<key, code, minted>>
    PROVE  TypeInv'
<1>1. users' \subseteq People /\ UNCHANGED <<welcomes, aborted>>
  BY DEF CommitUser, TypeInv, TypeOK
<1>2. founder' \in [Orgs -> People \cup {None}] /\ live' \subseteq Orgs
  BY DEF CommitOrgs, TypeInv, TypeOK
<1>3. role' \in [People -> [Orgs -> Roles \cup {"NONE"}]]
  BY DEF CommitOrgs, Roles
<1>4. project' \in [ProjectIds -> Names \cup {"free", "gone"}]
  BY AccessAssumption DEF CommitOrgs, TypeInv, TypeOK, ProjectIds
<1>5. req' \in [Requests -> {Idle} \cup Request] /\ RequestsFit'
  BY EndKeepsFit DEF RowsStay
<1> QED
  BY <1>1, <1>2, <1>3, <1>4, <1>5 DEF TypeInv, TypeOK

(* What clients ask for is well typed.                                     *)
LEMMA CallKeepsType == ASSUME TypeInv, NEW r \in Requests, Call(r) PROVE TypeInv'
<1> USE DEF WhatFits, Operations, Exchange, Waiting
<1>1. ASSUME NEW u \in People, SignIn(r, u) PROVE TypeInv'
  <2> DEFINE q == [op |-> IF u \in users THEN "lock" ELSE "insert",
                   user |-> u, new |-> FALSE, jit |-> None, on |-> None]
  <2>1. Advance(r, q)
    BY <1>1 DEF SignIn
  <2>2. q \in Request /\ WhatFits(q.op, q.on) /\ WhoFits(q) /\ q.op \in {"lock", "insert"}
    BY AccessAssumption DEF Request, Ons, WhoFits
  <2>3. RowsStay /\ req' = [req EXCEPT ![r] = q]
        /\ UNCHANGED <<accountVars, project, key, code, minted>>
    BY <2>1 DEF Advance, RowsStay
  <2> HIDE DEF q
  <2>4. req' \in [Requests -> {Idle} \cup Request] /\ RequestsFit'
    BY <2>2, <2>3, OneRequest
  <2> QED
    BY <2>3, <2>4 DEF TypeInv, TypeOK, accountVars
<1>2. CASE CreateOrganization(r)
  BY <1>2, AskKeepsType, NewIdsUnused DEF CreateOrganization, Unused
<1>3. ASSUME NEW o \in Orgs, DeleteOrganization(r, o) PROVE TypeInv'
  BY <1>3, AskKeepsType DEF DeleteOrganization
<1>4. ASSUME NEW o \in Orgs, NEW g \in Roles \ {"OWNER"}, Join(r, o, g) PROVE TypeInv'
  BY <1>4, AskKeepsType DEF Join
<1>5. ASSUME NEW o \in Orgs, NEW n \in Names, CreateProject(r, o, n) PROVE TypeInv'
  BY <1>5, AskKeepsType DEF CreateProject
<1>6. ASSUME NEW p \in ProjectIds, NEW n \in Names, UpdateProject(r, p, n) PROVE TypeInv'
  BY <1>6, AskKeepsType DEF UpdateProject
<1>7. ASSUME NEW p \in ProjectIds, DeleteProject(r, p) PROVE TypeInv'
  BY <1>7, AskKeepsType DEF DeleteProject
<1>8. ASSUME NEW o \in Orgs, NEW life \in {"never", "running"}, CreateKey(r, o, life) PROVE TypeInv'
  BY <1>8, AskKeepsType DEF CreateKey
<1>9. ASSUME NEW k \in Keys, RotateKey(r, k) PROVE TypeInv'
  <2>1. key[k].org \in Orgs
    BY <1>9 DEF RotateKey, TypeInv, TypeOK, NoKey, KeyRows
  <2> QED
    BY <1>9, <2>1, AskKeepsType DEF RotateKey
<1>10. ASSUME NEW k \in Keys, NEW n \in Names, UseKey(r, k, n) PROVE TypeInv'
  <2> DEFINE q == [op |-> "project", user |-> None, new |-> FALSE, jit |-> None,
                   on |-> <<key[k].org, n>>]
  <2>1. key[k].org \in Orgs
    BY <1>10 DEF UseKey, TypeInv, TypeOK, NoKey, KeyRows
  <2>2. q \in Request /\ WhatFits(q.op, q.on) /\ WhoFits(q) /\ q.op = "project"
    BY <2>1 DEF Request, Ons, WhoFits
  <2>3. RowsStay /\ req' = [req EXCEPT ![r] = q]
        /\ UNCHANGED <<accountVars, project, key, code, minted>>
    BY <1>10 DEF UseKey, Advance, RowsStay
  <2> HIDE DEF q
  <2>4. req' \in [Requests -> {Idle} \cup Request] /\ RequestsFit'
    BY <2>2, <2>3, OneRequest
  <2> QED
    BY <2>3, <2>4 DEF TypeInv, TypeOK, accountVars
<1>11. ASSUME NEW k \in Keys, NEW state \in {"revoked", "gone"}, DropKey(r, k, state) PROVE TypeInv'
  <2>1. key[k] # NoKey
    BY <1>11 DEF DropKey, NoKey
  <2> QED
    BY <1>11, <2>1, AskKeepsType DEF DropKey
<1>12. ASSUME NEW p \in ProjectIds, NEW c \in Codes, IssueCode(r, p, c) PROVE TypeInv'
  BY <1>12, AskKeepsType DEF IssueCode
<1>13. ASSUME NEW c \in Codes, PresentCode(r, c) PROVE TypeInv'
  <2> DEFINE q == [op |-> "presented", user |-> None, new |-> FALSE, jit |-> None, on |-> c]
  <2>1. q \in Request /\ WhatFits(q.op, q.on) /\ WhoFits(q) /\ q.op = "presented" /\ q.on = c
    BY DEF Request, Ons, WhoFits
  <2>2. RowsStay /\ req' = [req EXCEPT ![r] = q] /\ code'[c] # NoCode
        /\ UNCHANGED <<accountVars, project, key, code, minted>>
    BY <1>13 DEF PresentCode, Advance, RowsStay, NoCode
  <2> HIDE DEF q
  <2>3. req' \in [Requests -> {Idle} \cup Request] /\ RequestsFit'
    BY <2>1, <2>2, OneRequest
  <2> QED
    BY <2>2, <2>3 DEF TypeInv, TypeOK, accountVars
<1> QED
  BY <1>1, <1>2, <1>3, <1>4, <1>5, <1>6, <1>7, <1>8, <1>9, <1>10, <1>11, <1>12, <1>13 DEF Call

(* A request that is not idle and what is known of it.                     *)
LEMMA InFlightFits ==
    ASSUME TypeInv, NEW r \in Requests, req[r].op \in Operations
    PROVE  /\ req[r] \in Request /\ r \in InFlight
           /\ WhatFits(req[r].op, req[r].on)
           /\ WhoFits(req[r])
           /\ req[r].op = "drop" => key[req[r].on[1]] # NoKey
           /\ req[r].op \in Exchange => code[req[r].on] # NoCode
<1>1. req[r] \in Request /\ req[r] # Idle
  BY IdleApart DEF TypeInv, TypeOK
<1> QED
  BY <1>1 DEF TypeInv, RequestsFit, InFlight

(* Another operation of the same request, about the same thing.            *)
LEMMA SameOn ==
    ASSUME TypeInv, NEW r \in Requests, req[r].op \in Operations,
           NEW op \in Operations \ (Waiting \cup {"drop"}), WhatFits(op, req[r].on),
           op \notin Exchange \cup {"project"} => req[r].user \in People,
           op \in Exchange => req[r].op \in Exchange,
           req' = [req EXCEPT ![r] = [req[r] EXCEPT !.op = op]],
           RowsStay
    PROVE  req' \in [Requests -> {Idle} \cup Request] /\ RequestsFit'
<1> DEFINE q == [req[r] EXCEPT !.op = op]
<1>1. /\ req[r] \in Request /\ WhoFits(req[r])
      /\ req[r].op \in Exchange => code[req[r].on] # NoCode
  BY InFlightFits
<1>2. /\ q \in Request /\ q.op = op /\ q.on = req[r].on
      /\ q.user = req[r].user /\ q.new = req[r].new /\ q.jit = req[r].jit
  BY <1>1 DEF Request
<1>3. WhoFits(q)
  BY <1>1, <1>2 DEF WhoFits
<1>4. op \in Exchange => code'[q.on] # NoCode
  BY <1>1, <1>2 DEF RowsStay, WhatFits
<1>5. req' = [req EXCEPT ![r] = q] /\ WhatFits(q.op, q.on)
  BY <1>2
<1> HIDE DEF q
<1> QED
  BY <1>2, <1>3, <1>4, <1>5, OneRequest

(* Who has waited for the row of the user fails, or has it and perhaps a   *)
(* first organization, which nobody else is about to found.                *)
LEMMA UpsertIs ==
    ASSUME TypeInv, NEW r \in Requests, UpsertUser(r), ~Undo(r)
    PROVE  \E q \in Request :
             /\ Advance(r, q) /\ q.on = None
             /\ q.user = req[r].user /\ q.user \in People
             /\ req[r].op \in Waiting /\ ~SignedIn(q.user)
             /\ \/ req[r].op = "insert" /\ q.op = "welcome" /\ q.new /\ q.user \notin users
                \/ req[r].op = "lock" /\ q.op = "ready" /\ ~q.new
             /\ q.jit # None => q.jit \in Unused /\ OrgsOf(q.user) = {}
<1>1. /\ req[r].op \in Waiting /\ ~SignedIn(req[r].user)
      /\ req[r].op = "insert" => req[r].user \notin users
      /\ Provision(r, req[r].op = "insert")
  BY Zenon DEF UpsertUser
<1>2. req[r] \in Request /\ req[r].user \in People /\ req[r].on = None
  BY <1>1, InFlightFits DEF Operations, Waiting, Exchange, WhoFits, WhatFits
<1> DEFINE new == req[r].op = "insert"
<1>3. PICK jit \in IF OrgsOf(req[r].user) = {} THEN Unused ELSE {None} :
          Advance(r, [req[r] EXCEPT !.op = IF new THEN "welcome" ELSE "ready",
                                    !.new = new, !.jit = jit])
  BY <1>1, NewIdsUnused DEF Provision
<1>4. PICK q : q = [req[r] EXCEPT !.op = IF new THEN "welcome" ELSE "ready",
                                  !.new = new, !.jit = jit]
  OBVIOUS
<1>5. /\ q \in Request /\ q.on = None /\ q.user = req[r].user
      /\ q.op = (IF new THEN "welcome" ELSE "ready") /\ q.new = new /\ q.jit = jit
  BY <1>2, <1>3, <1>4 DEF Request, Operations, Unused
<1>6. Advance(r, q)
  BY <1>3, <1>4
<1> QED
  BY <1>1, <1>2, <1>3, <1>5, <1>6 DEF Waiting

(* What the event loop and the database do is well typed.                  *)
LEMMA ProceedKeepsType == ASSUME TypeInv, NEW r \in Requests, Proceed(r) PROVE TypeInv'
<1> USE DEF WhatFits, Operations, Exchange, Waiting
<1>u. ASSUME Undo(r), req[r].op \in Operations PROVE TypeInv'
  BY <1>u, InFlightFits, IdleApart, UndoKeepsType
<1>1. CASE Welcome(r)
  <2>1. req[r].user \in People /\ req[r].on = None
    BY <1>1, InFlightFits DEF Welcome, WhoFits
  <2>2. welcomes' \in [People -> Nat]
    BY <1>1, <2>1 DEF Welcome, TypeInv, TypeOK
  <2>3. req' = [req EXCEPT ![r] = [req[r] EXCEPT !.op = "ready"]] /\ RowsStay
    BY <1>1 DEF Welcome, TypeInv, TypeOK, RowsStay
  <2>4. req' \in [Requests -> {Idle} \cup Request] /\ RequestsFit'
    BY <1>1, <2>1, <2>3, SameOn DEF Welcome
  <2> QED
    BY <1>1, <2>2, <2>4 DEF Welcome, TypeInv, TypeOK
<1>2. CASE PoolTimesOut(r)
  BY <1>2, <1>u DEF PoolTimesOut
<1>3. CASE Finish(r)
  <2>1. req[r] \in Request /\ req[r].user \in People
    BY <1>3, InFlightFits DEF Finish, WhoFits
  <2>2. Provisioned(req[r]) \in SUBSET Orgs
    BY <2>1 DEF Provisioned, Request
  <2>3. role \in [People -> [Orgs -> Roles \cup {"NONE"}]]
    BY DEF TypeInv, TypeOK
  <2> QED
    BY <1>3, <2>1, <2>2, <2>3, CommitsKeepType DEF Finish, CommitSignIn
<1>4. CASE CommitCreateOrganization(r)
  <2>1. req[r] \in Request /\ req[r].user \in People /\ req[r].on \in Orgs
    BY <1>4, InFlightFits DEF CommitCreateOrganization, WhoFits
  <2>2. Provisioned(req[r]) \cup {req[r].on} \in SUBSET Orgs
    BY <2>1 DEF Provisioned, Request
  <2>3. role \in [People -> [Orgs -> Roles \cup {"NONE"}]]
    BY DEF TypeInv, TypeOK
  <2> QED
    BY <1>4, <2>1, <2>2, <2>3, CommitsKeepType DEF CommitCreateOrganization
<1>5. CASE CommitDeleteOrganization(r)
  <2>1. req[r].on \in Orgs
    BY <1>5, InFlightFits DEF CommitDeleteOrganization
  <2>2. role' \in [People -> [Orgs -> Roles \cup {"NONE"}]] /\ live' \subseteq Orgs
    BY <1>5, <2>1 DEF CommitDeleteOrganization, TypeInv, TypeOK
  <2>3. project' \in [ProjectIds -> Names \cup {"free", "gone"}]
    BY <1>5 DEF CommitDeleteOrganization, TypeInv, TypeOK
  <2>4. key' \in [Keys -> {NoKey} \cup KeyRows] /\ code' \in [Codes -> {NoCode} \cup CodeRows]
    <3>1. key' \in [Keys -> {NoKey} \cup KeyRows]
      <4> SUFFICES ASSUME NEW k \in Keys PROVE key'[k] \in {NoKey} \cup KeyRows
        BY <1>5 DEF CommitDeleteOrganization
      <4>1. key[k] \in {NoKey} \cup KeyRows
        BY DEF TypeInv, TypeOK
      <4>2. key'[k] = key[k] \/ (key[k] # NoKey /\ key'[k] = [key[k] EXCEPT !.state = "gone"])
        BY <1>5 DEF CommitDeleteOrganization
      <4> QED
        BY <4>1, <4>2 DEF KeyRows
    <3>2. code' \in [Codes -> {NoCode} \cup CodeRows]
      <4> SUFFICES ASSUME NEW c \in Codes PROVE code'[c] \in {NoCode} \cup CodeRows
        BY <1>5 DEF CommitDeleteOrganization
      <4>1. code[c] \in {NoCode} \cup CodeRows
        BY DEF TypeInv, TypeOK
      <4>2. code'[c] = code[c] \/ (code[c] # NoCode /\ code'[c] = [code[c] EXCEPT !.state = "gone"])
        BY <1>5 DEF CommitDeleteOrganization
      <4> QED
        BY <4>1, <4>2 DEF CodeRows
    <3> QED
      BY <3>1, <3>2
  <2>5. RowsStay
    <3>1. ASSUME NEW k \in Keys, key[k] # NoKey PROVE key'[k] # NoKey
      BY <1>5, <3>1 DEF CommitDeleteOrganization, TypeInv, TypeOK, KeyRows, NoKey
    <3>2. ASSUME NEW c \in Codes, code[c] # NoCode PROVE code'[c] # NoCode
      BY <1>5, <3>2 DEF CommitDeleteOrganization, TypeInv, TypeOK, CodeRows, NoCode
    <3> QED
      BY <3>1, <3>2 DEF RowsStay
  <2>6. req' \in [Requests -> {Idle} \cup Request] /\ RequestsFit'
    BY <1>5, <2>5, EndKeepsFit DEF CommitDeleteOrganization
  <2> QED
    BY <1>5, <2>2, <2>3, <2>4, <2>6 DEF CommitDeleteOrganization, TypeInv, TypeOK
<1>6. CASE CommitJoin(r)
  <2>1. req[r] \in Request /\ req[r].user \in People /\ req[r].on \in Orgs \X (Roles \ {"OWNER"})
    BY <1>6, InFlightFits DEF CommitJoin, WhoFits
  <2>2. Provisioned(req[r]) \in SUBSET Orgs
    BY <2>1 DEF Provisioned, Request
  <2>3. [role EXCEPT ![req[r].user][req[r].on[1]] = req[r].on[2]]
            \in [People -> [Orgs -> Roles \cup {"NONE"}]]
    BY <2>1 DEF TypeInv, TypeOK
  <2> QED
    BY <1>6, <2>1, <2>2, <2>3, CommitsKeepType DEF CommitJoin
<1>7. CASE CommitCreateProject(r)
  <2>1. req[r].on \in Orgs \X Names
    BY <1>7, InFlightFits DEF CommitCreateProject
  <2>2. project' \in [ProjectIds -> Names \cup {"free", "gone"}]
    BY <1>7, <2>1 DEF CommitCreateProject, TypeInv, TypeOK
  <2>3. req' \in [Requests -> {Idle} \cup Request] /\ RequestsFit'
    BY <1>7, EndKeepsFit DEF CommitCreateProject, RowsStay
  <2> QED
    BY <1>7, <2>2, <2>3 DEF CommitCreateProject, accountVars, TypeInv, TypeOK
<1>8. CASE CommitUpdateProject(r)
  <2>1. req[r].on \in ProjectIds \X Names
    BY <1>8, InFlightFits DEF CommitUpdateProject
  <2>2. project' \in [ProjectIds -> Names \cup {"free", "gone"}]
    BY <1>8, <2>1 DEF CommitUpdateProject, TypeInv, TypeOK
  <2>3. req' \in [Requests -> {Idle} \cup Request] /\ RequestsFit'
    BY <1>8, EndKeepsFit DEF CommitUpdateProject, RowsStay
  <2> QED
    BY <1>8, <2>2, <2>3 DEF CommitUpdateProject, accountVars, TypeInv, TypeOK
<1>9. CASE CommitDeleteProject(r)
  <2>1. project' \in [ProjectIds -> Names \cup {"free", "gone"}]
    BY <1>9 DEF CommitDeleteProject, TypeInv, TypeOK
  <2>2. code' \in [Codes -> {NoCode} \cup CodeRows]
    BY <1>9 DEF CommitDeleteProject, TypeInv, TypeOK, CodeRows
  <2>3. RowsStay
    <3>1. ASSUME NEW c \in Codes, code[c] # NoCode PROVE code'[c] # NoCode
      BY <1>9, <3>1 DEF CommitDeleteProject, TypeInv, TypeOK, CodeRows, NoCode
    <3> QED
      BY <1>9, <3>1 DEF CommitDeleteProject, RowsStay
  <2>4. req' \in [Requests -> {Idle} \cup Request] /\ RequestsFit'
    BY <1>9, <2>3, EndKeepsFit DEF CommitDeleteProject
  <2> QED
    BY <1>9, <2>1, <2>2, <2>4 DEF CommitDeleteProject, accountVars, TypeInv, TypeOK
<1>10. ASSUME NEW k \in Keys, CommitKey(r, k) PROVE TypeInv'
  <2>1. req[r].user \in People /\ req[r].on \in Orgs \X {"never", "running"} \X (Keys \cup {None})
    BY <1>10, InFlightFits DEF CommitKey, WhoFits
  <2>2. KeyRow(req[r].on[1], req[r].user, req[r].on[2]) \in KeyRows
    BY <2>1 DEF KeyRow, KeyRows
  <2>3. key' \in [Keys -> {NoKey} \cup KeyRows] /\ RowsStay
    BY <1>10, <2>2, IdleApart DEF CommitKey, TypeInv, TypeOK, RowsStay
  <2>4. req' \in [Requests -> {Idle} \cup Request] /\ RequestsFit'
    BY <1>10, <2>3, EndKeepsFit DEF CommitKey
  <2> QED
    BY <1>10, <2>3, <2>4 DEF CommitKey, accountVars, TypeInv, TypeOK
<1>11. ASSUME NEW k \in Keys, MintKey(r, k) PROVE TypeInv'
  <2>1. req[r].on \in Codes /\ code[req[r].on] \in CodeRows
    BY <1>11, InFlightFits DEF MintKey, TypeInv, TypeOK
  <2>2. KeyRow(code[req[r].on].project[1], code[req[r].on].by, "running") \in KeyRows
    BY <2>1 DEF KeyRow, KeyRows, CodeRows, ProjectIds
  <2>3. key' \in [Keys -> {NoKey} \cup KeyRows] /\ RowsStay
    BY <1>11, <2>2, IdleApart DEF MintKey, TypeInv, TypeOK, RowsStay
  <2>4. minted' \in [Codes -> Nat]
    BY <1>11, <2>1 DEF MintKey, TypeInv, TypeOK
  <2>5. req' \in [Requests -> {Idle} \cup Request] /\ RequestsFit'
    BY <1>11, <2>3, EndKeepsFit DEF MintKey
  <2> QED
    BY <1>11, <2>3, <2>4, <2>5 DEF MintKey, accountVars, TypeInv, TypeOK
<1>12. CASE CommitDropKey(r)
  <2>1. /\ req[r].on[1] \in Keys /\ req[r].on[2] \in {"revoked", "gone"}
        /\ key[req[r].on[1]] \in KeyRows
    BY <1>12, InFlightFits DEF CommitDropKey, TypeInv, TypeOK
  <2>2. key' \in [Keys -> {NoKey} \cup KeyRows]
    BY <1>12, <2>1 DEF CommitDropKey, TypeInv, TypeOK, KeyRows
  <2>3. RowsStay
    BY <1>12, <2>1 DEF CommitDropKey, TypeInv, TypeOK, RowsStay, KeyRows, NoKey
  <2>4. req' \in [Requests -> {Idle} \cup Request] /\ RequestsFit'
    BY <1>12, <2>3, EndKeepsFit DEF CommitDropKey
  <2> QED
    BY <1>12, <2>2, <2>4 DEF CommitDropKey, accountVars, TypeInv, TypeOK
<1>13. CASE CommitIssueCode(r)
  <2>1. req[r].user \in People /\ req[r].on \in ProjectIds \X Codes
    BY <1>13, InFlightFits DEF CommitIssueCode, WhoFits
  <2>2. [state |-> "live", by |-> req[r].user, project |-> req[r].on[1]] \in CodeRows
    BY <2>1 DEF CodeRows
  <2>3. code' \in [Codes -> {NoCode} \cup CodeRows] /\ RowsStay
    BY <1>13, <2>1, <2>2, IdleApart DEF CommitIssueCode, TypeInv, TypeOK, RowsStay
  <2>4. req' \in [Requests -> {Idle} \cup Request] /\ RequestsFit'
    BY <1>13, <2>3, EndKeepsFit DEF CommitIssueCode
  <2> QED
    BY <1>13, <2>3, <2>4 DEF CommitIssueCode, accountVars, TypeInv, TypeOK
<1>14. CASE Consume(r)
  <2>1. req[r].on \in Codes /\ code[req[r].on] \in CodeRows
    BY <1>14, InFlightFits DEF Consume, TypeInv, TypeOK
  <2>2. CASE code[req[r].on].state = "live"
    <3>0. code' = [code EXCEPT ![req[r].on].state = "gone"] /\ code \in [Codes -> {NoCode} \cup CodeRows]
      BY <1>14, <2>2 DEF Consume, TypeInv, TypeOK
    <3>1. code' \in [Codes -> {NoCode} \cup CodeRows]
      BY <2>1, <3>0 DEF CodeRows
    <3>2. RowsStay
      BY <1>14, <2>1, <2>2 DEF Consume, TypeInv, TypeOK, RowsStay, CodeRows, NoCode
    <3>5. req' = [req EXCEPT ![r].op = "consumed"]
      BY <1>14, <2>2, Zenon DEF Consume
    <3>3. req' = [req EXCEPT ![r] = [req[r] EXCEPT !.op = "consumed"]]
      BY <3>5
    <3>4. req' \in [Requests -> {Idle} \cup Request] /\ RequestsFit'
      BY <1>14, <2>1, <3>2, <3>3, SameOn DEF Consume
    <3> QED
      BY <1>14, <2>2, <3>1, <3>4 DEF Consume, accountVars, TypeInv, TypeOK
  <2>3. CASE code[req[r].on].state # "live"
    BY <1>14, <2>3, <1>u DEF Consume
  <2> QED
    BY <2>2, <2>3
<1>15. CASE Recheck(r)
  <2>1. CASE Advance(r, [req[r] EXCEPT !.op = "mint"])
    <3>1. req' = [req EXCEPT ![r] = [req[r] EXCEPT !.op = "mint"]]
          /\ UNCHANGED <<accountVars, project, key, code, minted>>
      BY <2>1 DEF Advance
    <3>2. req[r].on \in Codes /\ req[r].op = "consumed" /\ RowsStay
      BY <1>15, <3>1, InFlightFits DEF Recheck, RowsStay
    <3>3. req' \in [Requests -> {Idle} \cup Request] /\ RequestsFit'
      BY <3>1, <3>2, SameOn
    <3> QED
      BY <3>1, <3>3 DEF accountVars, TypeInv, TypeOK
  <2> QED
    BY <1>15, <2>1, <1>u DEF Recheck
<1>16. CASE ConstraintFails(r)
  <2>1. req[r].op \in Operations
    BY <1>16 DEF ConstraintFails, Accepted
  <2> QED
    BY <1>16, <2>1, <1>u DEF ConstraintFails
<1>17. CASE UpsertUser(r) /\ ~Undo(r)
  <2>1. PICK q \in Request :
            /\ Advance(r, q) /\ q.on = None /\ q.user \in People
            /\ q.op \in {"welcome", "ready"}
    BY <1>17, UpsertIs
  <2>2. WhatFits(q.op, q.on) /\ WhoFits(q)
    BY <2>1, AccessAssumption DEF WhoFits
  <2>3. RowsStay /\ req' = [req EXCEPT ![r] = q]
        /\ UNCHANGED <<accountVars, project, key, code, minted>>
    BY <2>1 DEF Advance, RowsStay
  <2>4. req' \in [Requests -> {Idle} \cup Request] /\ RequestsFit'
    BY <2>1, <2>2, <2>3, OneRequest
  <2> QED
    BY <2>3, <2>4 DEF TypeInv, TypeOK, accountVars
<1>18. CASE UpsertUser(r) /\ Undo(r)
  BY <1>18, <1>u DEF UpsertUser
<1> QED
  BY <1>1, <1>2, <1>3, <1>4, <1>5, <1>6, <1>7, <1>8, <1>9, <1>10, <1>11, <1>12, <1>13,
     <1>14, <1>15, <1>16, <1>17, <1>18 DEF Proceed

(* Every state of Access is well typed.                                    *)
LEMMA NextKeepsType == TypeInv /\ [Next]_vars => TypeInv'
<1> SUFFICES ASSUME TypeInv, [Next]_vars PROVE TypeInv'
  OBVIOUS
<1>1. ASSUME NEW r \in Requests, Call(r) \/ Proceed(r) \/ Fail(r) PROVE TypeInv'
  BY <1>1, CallKeepsType, ProceedKeepsType, UndoKeepsType DEF Fail
<1>2. ASSUME NEW u \in People, NEW o \in Orgs, NEW g \in Roles \cup {"NONE"},
             MemberChanges(u, o, g)
      PROVE  TypeInv'
  <2>1. role' \in [People -> [Orgs -> Roles \cup {"NONE"}]]
    BY <1>2 DEF MemberChanges, TypeInv, TypeOK
  <2>2. RequestsFit'
    BY <1>2 DEF MemberChanges, TypeInv, RequestsFit, InFlight
  <2> QED
    BY <1>2, <2>1, <2>2 DEF MemberChanges, TypeInv, TypeOK
<1>3. ASSUME NEW k \in Keys, KeyExpires(k) PROVE TypeInv'
  <2>1. key[k] \in KeyRows
    BY <1>3 DEF KeyExpires, TypeInv, TypeOK, NoKey
  <2>2. key' \in [Keys -> {NoKey} \cup KeyRows] /\ \A j \in Keys : key[j] # NoKey => key'[j] # NoKey
    BY <1>3, <2>1 DEF KeyExpires, TypeInv, TypeOK, KeyRows, NoKey
  <2>3. RequestsFit'
    BY <1>3, <2>2 DEF KeyExpires, TypeInv, RequestsFit, InFlight, WhatFits
  <2> QED
    BY <1>3, <2>2, <2>3 DEF KeyExpires, accountVars, TypeInv, TypeOK
<1>4. ASSUME NEW c \in Codes, CodeExpires(c) PROVE TypeInv'
  <2>1. code[c] \in CodeRows
    BY <1>4 DEF CodeExpires, TypeInv, TypeOK, NoCode
  <2>2. code' \in [Codes -> {NoCode} \cup CodeRows] /\ \A d \in Codes : code[d] # NoCode => code'[d] # NoCode
    BY <1>4, <2>1 DEF CodeExpires, TypeInv, TypeOK, CodeRows, NoCode
  <2>3. RequestsFit'
    BY <1>4, <2>2 DEF CodeExpires, TypeInv, RequestsFit, InFlight, WhatFits
  <2> QED
    BY <1>4, <2>2, <2>3 DEF CodeExpires, accountVars, TypeInv, TypeOK
<1>5. CASE UNCHANGED vars
  BY <1>5 DEF vars, accountVars, TypeInv, TypeOK, RequestsFit, InFlight
<1> QED
  BY <1>1, <1>2, <1>3, <1>4, <1>5 DEF Next, Step

(* The service starts typed, with nobody signed up.                        *)
LEMMA InitTyped == Init => TypeInv
  BY AccessAssumption DEF Init, TypeInv, TypeOK, RequestsFit, InFlight, Idle, NoKey, NoCode

(* The tables and requests are well typed, whoever asks for what.          *)
THEOREM TypeCorrect == Spec => []TypeOK
<1>1. TypeInv => TypeOK
  BY DEF TypeInv
<1> QED
  BY <1>1, InitTyped, NextKeepsType, PTL DEF Spec

-----------------------------------------------------------------------------
(* What a step does to the requests.                                       *)

(* The others stay as they are.                                            *)
LEMMA OthersStay ==
    ASSUME TypeInv, NEW r \in Requests, NEW q, req' = [req EXCEPT ![r] = q]
    PROVE  req'[r] = q /\ \A s \in Requests : s # r => req'[s] = req[s]
  BY DEF TypeInv, TypeOK

(* Who asks is signed in, and only the operation is new.                   *)
LEMMA AskIs ==
    ASSUME TypeInv, NEW r \in Requests, NEW op, NEW on, Ask(r, op, on)
    PROVE  /\ UNCHANGED <<accountVars, project, key, code, minted>>
           /\ \A s \in Requests : s # r => req'[s] = req[s]
           /\ req'[r].op = op /\ req'[r].on = on /\ req[r].op = "ready"
           /\ req'[r].user = req[r].user /\ req'[r].new = req[r].new /\ req'[r].jit = req[r].jit
           /\ req[r].user \in People /\ req[r] \in Request
<1> DEFINE q == [req[r] EXCEPT !.op = op, !.on = on]
<1>1. req[r].op = "ready" /\ req' = [req EXCEPT ![r] = q]
      /\ UNCHANGED <<accountVars, project, key, code, minted>>
  BY DEF Ask, Advance
<1>2. req[r] \in Request /\ req[r].user \in People
  BY <1>1, InFlightFits DEF Operations, Exchange, WhoFits
<1>3. /\ q.op = op /\ q.on = on
      /\ q.user = req[r].user /\ q.new = req[r].new /\ q.jit = req[r].jit
  BY <1>2 DEF Request
<1> HIDE DEF q
<1>4. req'[r] = q /\ \A s \in Requests : s # r => req'[s] = req[s]
  BY <1>1, OthersStay
<1> QED
  BY <1>1, <1>2, <1>3, <1>4

(* A request that starts comes with what it is given.                      *)
LEMMA AdvanceIs ==
    ASSUME TypeInv, NEW r \in Requests, NEW q, Advance(r, q)
    PROVE  /\ UNCHANGED <<accountVars, project, key, code, minted>>
           /\ req'[r] = q
           /\ \A s \in Requests : s # r => req'[s] = req[s]
  BY OthersStay DEF Advance

(* A request that ends is idle again, and no other one changes.            *)
LEMMA EndIs ==
    ASSUME TypeInv, NEW r \in Requests, End(r)
    PROVE  /\ req'[r] = Idle /\ req'[r].op = "idle"
           /\ \A s \in Requests : s # r => req'[s] = req[s]
<1>1. req'[r] = Idle /\ \A s \in Requests : s # r => req'[s] = req[s]
  BY OthersStay DEF End
<1>2. Idle.op = "idle"
  BY DEF Idle
<1> QED
  BY <1>1, <1>2

(* A request on its way to the next operation.                             *)
LEMMA OpIs ==
    ASSUME TypeInv, NEW r \in Requests, NEW op, req[r].op \in Operations,
           req' = [req EXCEPT ![r] = [req[r] EXCEPT !.op = op]]
    PROVE  /\ \A s \in Requests : s # r => req'[s] = req[s]
           /\ req'[r].op = op /\ req'[r].on = req[r].on
           /\ req'[r].user = req[r].user /\ req'[r].new = req[r].new /\ req'[r].jit = req[r].jit
<1> DEFINE q == [req[r] EXCEPT !.op = op]
<1>1. req[r] \in Request
  BY InFlightFits
<1>2. /\ q.op = op /\ q.on = req[r].on
      /\ q.user = req[r].user /\ q.new = req[r].new /\ q.jit = req[r].jit
  BY <1>1 DEF Request
<1>3. req' = [req EXCEPT ![r] = q]
  OBVIOUS
<1> HIDE DEF q
<1>4. req'[r] = q /\ \A s \in Requests : s # r => req'[s] = req[s]
  BY <1>3, OthersStay
<1> QED
  BY <1>2, <1>4

(* Most of what is asked for is for members of some organization, and of   *)
(* one kind.                                                               *)
MembersAsk(r, op) ==
    \E on \in Ons, o \in Orgs : Ask(r, op, on) /\ IsMember(req[r].user, o)

(* A request begins with a sign-in, the use of a key or a code, or by      *)
(* asking for one of the operations of a member.                           *)
LEMMA CallKinds ==
    ASSUME TypeInv, NEW r \in Requests, Call(r)
    PROVE  \/ \E u \in People : SignIn(r, u)
           \/ \E k \in Keys, n \in Names : UseKey(r, k, n)
           \/ \E c \in Codes : PresentCode(r, c)
           \/ CreateOrganization(r)
           \/ \E o \in Orgs, g \in Roles \ {"OWNER"} : Join(r, o, g)
           \/ \E p \in ProjectIds, c \in Codes : IssueCode(r, p, c) /\ MembersAsk(r, "issue")
           \/ \E o \in Orgs, life \in {"never", "running"} :
                  CreateKey(r, o, life) /\ MembersAsk(r, "key")
           \/ \E k \in Keys : RotateKey(r, k) /\ MembersAsk(r, "key")
           \/ \E op \in {"delete_org", "project", "update", "delete_project", "drop"} :
                  MembersAsk(r, op)
<1> USE DEF MembersAsk, IsMember
<1>1. ASSUME NEW o \in Orgs, DeleteOrganization(r, o) PROVE MembersAsk(r, "delete_org")
  BY <1>1 DEF DeleteOrganization, IsOwner, Roles, Ons
<1>2. ASSUME NEW o \in Orgs, NEW n \in Names, CreateProject(r, o, n) PROVE MembersAsk(r, "project")
  BY <1>2 DEF CreateProject, IsAdmin, Roles, Ons
<1>3. ASSUME NEW p \in ProjectIds, NEW n \in Names, UpdateProject(r, p, n) PROVE MembersAsk(r, "update")
  BY <1>3 DEF UpdateProject, IsAdmin, Roles, Ons, ProjectIds
<1>4. ASSUME NEW p \in ProjectIds, DeleteProject(r, p) PROVE MembersAsk(r, "delete_project")
  BY <1>4 DEF DeleteProject, IsOwner, Roles, Ons, ProjectIds
<1>5. ASSUME NEW o \in Orgs, NEW life \in {"never", "running"}, CreateKey(r, o, life)
      PROVE  MembersAsk(r, "key")
  BY <1>5 DEF CreateKey, Ons
<1>6. ASSUME NEW k \in Keys, RotateKey(r, k) PROVE MembersAsk(r, "key")
  <2>1. key[k].org \in Orgs
    BY <1>6 DEF RotateKey, TypeInv, TypeOK, NoKey, KeyRows
  <2> QED
    BY <1>6, <2>1 DEF RotateKey, IsAdmin, Roles, Ons
<1>7. ASSUME NEW k \in Keys, NEW state \in {"revoked", "gone"}, DropKey(r, k, state)
      PROVE  MembersAsk(r, "drop")
  <2>1. key[k].org \in Orgs
    BY <1>7 DEF DropKey, TypeInv, TypeOK, NoKey, KeyRows
  <2> QED
    BY <1>7, <2>1 DEF DropKey, IsAdmin, Roles, Ons
<1>8. ASSUME NEW p \in ProjectIds, NEW c \in Codes, IssueCode(r, p, c) PROVE MembersAsk(r, "issue")
  BY <1>8 DEF IssueCode, Ons, ProjectIds
<1> HIDE DEF MembersAsk, IsMember
<1> QED
  BY <1>1, <1>2, <1>3, <1>4, <1>5, <1>6, <1>7, <1>8 DEF Call

-----------------------------------------------------------------------------
(* Codes are single-use.                                                   *)

Exchanging == {"consumed", "mint"}

(* A code that is being issued has no row yet and no second issuer; one    *)
(* that was consumed is gone, has made no key yet, and has one consumer.   *)
Exchanges ==
    /\ \A r \in Requests :
          /\ req[r].op = "issue" => code[req[r].on[2]] = NoCode
          /\ req[r].op \in Exchanging => code[req[r].on].state = "gone" /\ minted[req[r].on] = 0
    /\ \A r, s \in Requests :
          /\ req[r].op = "issue" /\ req[s].op = "issue" /\ req[r].on[2] = req[s].on[2] => r = s
          /\ req[r].op \in Exchanging /\ req[s].op \in Exchanging /\ req[r].on = req[s].on => r = s
    /\ OneKeyPerCode

(* Nothing moves as far as codes are concerned.                            *)
LEMMA CodesAside ==
    ASSUME TypeInv, Exchanges, UNCHANGED <<code, minted>>,
           \A s \in Requests :
               req'[s].op \in {"issue"} \cup Exchanging =>
                   /\ req'[s].on = req[s].on
                   /\ req'[s].op = "issue" => req[s].op = "issue"
                   /\ req'[s].op \in Exchanging => req[s].op \in Exchanging
    PROVE  Exchanges'
  BY DEF Exchanges, OneKeyPerCode, Exchanging

(* What clients ask for leaves codes alone, but for the next one issued.   *)
LEMMA CallKeepsCodes ==
    ASSUME TypeInv, Exchanges, NEW r \in Requests, Call(r)
    PROVE  Exchanges'
<1> USE DEF Exchanging
<1>a. ASSUME NEW op, NEW on, Ask(r, op, on), op \notin {"issue"} \cup Exchanging PROVE Exchanges'
  BY <1>a, AskIs, CodesAside
<1>b. ASSUME NEW q, Advance(r, q), q.op \notin {"issue"} \cup Exchanging PROVE Exchanges'
  BY <1>b, AdvanceIs, CodesAside
<1>1. ASSUME NEW u \in People, SignIn(r, u) PROVE Exchanges'
  BY <1>1, <1>b DEF SignIn
<1>2. ASSUME NEW k \in Keys, NEW n \in Names, UseKey(r, k, n) PROVE Exchanges'
  BY <1>2, <1>b DEF UseKey
<1>3. ASSUME NEW c \in Codes, PresentCode(r, c) PROVE Exchanges'
  BY <1>3, <1>b DEF PresentCode
<1>4. ASSUME NEW p \in ProjectIds, NEW c \in Codes, IssueCode(r, p, c) PROVE Exchanges'
  <2>1. /\ UNCHANGED <<code, minted>>
        /\ \A s \in Requests : s # r => req'[s] = req[s]
        /\ req'[r].op = "issue" /\ req'[r].on = <<p, c>>
    BY <1>4, AskIs DEF IssueCode
  <2>2. code[c] = NoCode
    BY <1>4 DEF IssueCode
  <2>3. \A s \in Requests : ~(req[s].op = "issue" /\ req[s].on[2] = c)
    BY <1>4, InFlightFits DEF IssueCode, Operations
  <2> QED
    BY <2>1, <2>2, <2>3 DEF Exchanges, OneKeyPerCode
<1>5. ASSUME NEW op \in {"delete_org", "project", "update", "delete_project", "drop", "key"},
             MembersAsk(r, op)
      PROVE  Exchanges'
  BY <1>5, <1>a DEF MembersAsk
<1>6. CASE CreateOrganization(r)
  BY <1>6, <1>a DEF CreateOrganization
<1>7. ASSUME NEW o \in Orgs, NEW g \in Roles \ {"OWNER"}, Join(r, o, g) PROVE Exchanges'
  BY <1>7, <1>a DEF Join
<1> QED
  BY <1>1, <1>2, <1>3, <1>4, <1>5, <1>6, <1>7, CallKinds

(* What the event loop and the database do makes one key of a code.        *)
LEMMA ProceedKeepsCodes ==
    ASSUME TypeInv, Exchanges, NEW r \in Requests, Proceed(r) \/ Fail(r)
    PROVE  Exchanges'
<1> USE DEF Exchanging
<1>e. ASSUME End(r), UNCHANGED <<code, minted>> PROVE Exchanges'
  BY <1>e, EndIs, CodesAside
<1>u. ASSUME Undo(r) PROVE Exchanges'
  BY <1>u, <1>e DEF Undo
<1>g. ASSUME End(r), UNCHANGED minted,
             \A c \in Codes : code'[c] = code[c] \/ (code'[c].state = "gone" /\ code[c] # NoCode)
      PROVE  Exchanges'
  <2>1. /\ req'[r].op = "idle"
        /\ \A s \in Requests : s # r => req'[s] = req[s]
    BY <1>g, EndIs
  <2>2. \A s \in Requests : /\ req[s].op = "issue" => req[s].on[2] \in Codes
                            /\ req[s].op \in Exchanging => req[s].on \in Codes
    BY InFlightFits DEF Operations, Exchange, WhatFits
  <2>3. OneKeyPerCode'
    <3> SUFFICES ASSUME NEW c \in Codes
                 PROVE  minted[c] <= IF code'[c].state = "gone" THEN 1 ELSE 0
      BY <1>g DEF OneKeyPerCode
    <3>1. minted[c] \in Nat /\ minted[c] <= (IF code[c].state = "gone" THEN 1 ELSE 0)
      BY DEF Exchanges, OneKeyPerCode, TypeInv, TypeOK
    <3> QED
      BY <1>g, <3>1
  <2>4. \A s \in Requests :
            /\ req[s].op = "issue" => code'[req[s].on[2]] = code[req[s].on[2]]
            /\ req[s].op \in Exchanging =>
                  code'[req[s].on].state = "gone" /\ minted'[req[s].on] = 0
    BY <1>g, <2>2 DEF Exchanges
  <2> QED
    BY <2>1, <2>2, <2>3, <2>4 DEF Exchanges
<1>1. CASE Welcome(r)
  <2>1. req' = [req EXCEPT ![r] = [req[r] EXCEPT !.op = "ready"]] /\ UNCHANGED <<code, minted>>
        /\ req[r].op \in Operations
    BY <1>1 DEF Welcome, Operations
  <2> QED
    BY <2>1, OpIs, CodesAside
<1>2. CASE CommitDeleteOrganization(r) \/ CommitDeleteProject(r)
  <2>1. ASSUME NEW c \in Codes
        PROVE  code'[c] = code[c] \/ (code'[c].state = "gone" /\ code[c] # NoCode)
    <3>1. \/ code'[c] = code[c]
          \/ code[c] # NoCode /\ code'[c] = [code[c] EXCEPT !.state = "gone"]
      BY <1>2 DEF CommitDeleteOrganization, CommitDeleteProject
    <3>2. code[c] \in {NoCode} \cup CodeRows
      BY DEF TypeInv, TypeOK
    <3> QED
      BY <3>1, <3>2 DEF CodeRows
  <2> QED
    BY <1>2, <2>1, <1>g DEF CommitDeleteOrganization, CommitDeleteProject
<1>4. CASE CommitIssueCode(r)
  <2> DEFINE c == req[r].on[2]
  <2>1. c \in Codes /\ req[r].op = "issue"
    BY <1>4, InFlightFits DEF CommitIssueCode, WhatFits, Operations
  <2>2. code[c] = NoCode /\ minted[c] = 0
    <3>1. code[c] = NoCode /\ minted[c] <= (IF code[c].state = "gone" THEN 1 ELSE 0)
      BY <2>1 DEF Exchanges, OneKeyPerCode
    <3> QED
      BY <2>1, <3>1 DEF NoCode, TypeInv, TypeOK
  <2>3. /\ req'[r].op = "idle" /\ UNCHANGED minted
        /\ \A s \in Requests : s # r => req'[s] = req[s]
    BY <1>4, EndIs DEF CommitIssueCode
  <2>4. /\ \A d \in Codes : d # c => code'[d] = code[d]
        /\ code'[c].state = "live"
    BY <1>4, <2>1 DEF CommitIssueCode, TypeInv, TypeOK
  <2>5. \A s \in Requests : s # r =>
            /\ req[s].op = "issue" => req[s].on[2] \in Codes /\ req[s].on[2] # c
            /\ req[s].op \in Exchanging => req[s].on \in Codes /\ req[s].on # c
    <3>1. \A s \in Requests : /\ req[s].op = "issue" => req[s].on[2] \in Codes
                              /\ req[s].op \in Exchanging => req[s].on \in Codes
      BY InFlightFits DEF Operations, Exchange, WhatFits
    <3> QED
      BY <3>1, <2>1, <2>2 DEF Exchanges, NoCode
  <2> HIDE DEF c
  <2> QED
    BY <2>2, <2>3, <2>4, <2>5 DEF Exchanges, OneKeyPerCode
<1>5. CASE Consume(r) /\ code[req[r].on].state = "live"
  <2> DEFINE c == req[r].on
  <2>0. c \in Codes /\ req[r].op \in Operations
    BY <1>5, InFlightFits DEF Consume, WhatFits, Operations, Exchange
  <2>1. code' = [code EXCEPT ![c].state = "gone"] /\ req' = [req EXCEPT ![r].op = "consumed"]
        /\ UNCHANGED minted
    BY <1>5, Zenon DEF Consume
  <2>2. req' = [req EXCEPT ![r] = [req[r] EXCEPT !.op = "consumed"]]
    BY <2>1
  <2>3. /\ req'[r].op = "consumed" /\ req'[r].on = c
        /\ \A s \in Requests : s # r => req'[s] = req[s]
    BY <2>0, <2>2, OpIs
  <2>4. /\ code'[c].state = "gone"
        /\ \A d \in Codes : d # c => code'[d] = code[d]
    BY <1>5, <2>0, <2>1 DEF TypeInv, TypeOK, CodeRows, NoCode
  <2>5. minted[c] = 0
    BY <1>5, <2>0 DEF Exchanges, OneKeyPerCode, TypeInv, TypeOK
  <2>6. \A s \in Requests : s # r =>
            /\ req[s].op = "issue" => req[s].on[2] \in Codes /\ req[s].on[2] # c
            /\ req[s].op \in Exchanging => req[s].on \in Codes /\ req[s].on # c
    <3>1. \A s \in Requests : /\ req[s].op = "issue" => req[s].on[2] \in Codes
                              /\ req[s].op \in Exchanging => req[s].on \in Codes
      BY InFlightFits DEF Operations, Exchange, WhatFits
    <3> QED
      BY <3>1, <1>5 DEF Exchanges, NoCode
  <2> HIDE DEF c
  <2> QED
    BY <2>0, <2>1, <2>3, <2>4, <2>5, <2>6 DEF Exchanges, OneKeyPerCode
<1>6. CASE Consume(r) /\ code[req[r].on].state # "live"
  BY <1>6, <1>u DEF Consume
<1>7. CASE Recheck(r)
  <2>1. CASE Advance(r, [req[r] EXCEPT !.op = "mint"])
    <3>1. req' = [req EXCEPT ![r] = [req[r] EXCEPT !.op = "mint"]] /\ UNCHANGED <<code, minted>>
          /\ req[r].op \in Operations /\ req[r].op = "consumed"
      BY <1>7, <2>1 DEF Recheck, Advance, Operations, Exchange
    <3> QED
      BY <3>1, OpIs, CodesAside
  <2> QED
    BY <1>7, <2>1, <1>u DEF Recheck
<1>8. ASSUME NEW k \in Keys, MintKey(r, k) PROVE Exchanges'
  <2> DEFINE c == req[r].on
  <2>1. c \in Codes /\ req[r].op = "mint" /\ UNCHANGED code /\ minted' = [minted EXCEPT ![c] = @ + 1]
    BY <1>8, InFlightFits DEF MintKey, WhatFits, Operations, Exchange
  <2>2. /\ req'[r].op = "idle"
        /\ \A s \in Requests : s # r => req'[s] = req[s]
    BY <1>8, EndIs DEF MintKey
  <2>3. code[c].state = "gone" /\ minted[c] = 0
    BY <2>1 DEF Exchanges
  <2>4. minted'[c] = 1 /\ \A d \in Codes : d # c => minted'[d] = minted[d]
    BY <2>1, <2>3 DEF TypeInv, TypeOK
  <2>5. \A s \in Requests : s # r /\ req[s].op \in Exchanging => req[s].on \in Codes /\ req[s].on # c
    <3>1. \A s \in Requests : req[s].op \in Exchanging => req[s].on \in Codes
      BY InFlightFits DEF Operations, Exchange, WhatFits
    <3> QED
      BY <3>1, <2>1 DEF Exchanges
  <2> HIDE DEF c
  <2> QED
    BY <2>1, <2>2, <2>3, <2>4, <2>5 DEF Exchanges, OneKeyPerCode
<1>9. CASE UpsertUser(r) /\ ~Undo(r)
  <2>1. PICK q \in Request : Advance(r, q) /\ q.op \in {"welcome", "ready"}
    BY <1>9, UpsertIs
  <2> QED
    BY <2>1, AdvanceIs, CodesAside
<1> QED
  BY <1>e, <1>u, <1>1, <1>2, <1>4, <1>5, <1>6, <1>7, <1>8, <1>9
  DEF Proceed, Fail, PoolTimesOut, Finish, CommitCreateOrganization, CommitJoin,
      CommitCreateProject, CommitUpdateProject, CommitKey, CommitDropKey, ConstraintFails

(* Exchanges is inductive: a code that is gone is in one hand, and its key *)
(* not made.                                                               *)
LEMMA NextKeepsCodes == TypeInv /\ Exchanges /\ [Next]_vars => Exchanges'
<1> SUFFICES ASSUME TypeInv, Exchanges, [Next]_vars PROVE Exchanges'
  OBVIOUS
<1>1. ASSUME NEW r \in Requests, Call(r) \/ Proceed(r) \/ Fail(r) PROVE Exchanges'
  BY <1>1, CallKeepsCodes, ProceedKeepsCodes
<1>2. ASSUME UNCHANGED <<code, minted, req>> PROVE Exchanges'
  BY <1>2, CodesAside
<1>3. ASSUME NEW c \in Codes, CodeExpires(c) PROVE Exchanges'
  <2>1. UNCHANGED <<minted, req>> /\ code' = [code EXCEPT ![c].state = "expired"]
        /\ code[c].state = "live" /\ code[c] \in {NoCode} \cup CodeRows
    BY <1>3 DEF CodeExpires, TypeInv, TypeOK
  <2>2. \A d \in Codes : d # c => code'[d] = code[d]
    BY <2>1 DEF TypeInv, TypeOK
  <2>3. code'[c].state = "expired" /\ code[c] # NoCode
    BY <2>1 DEF TypeInv, TypeOK, CodeRows, NoCode
  <2>4. \A s \in Requests : /\ req[s].op = "issue" => req[s].on[2] \in Codes
                            /\ req[s].op \in Exchanging => req[s].on \in Codes
    BY InFlightFits DEF Operations, Exchange, WhatFits, Exchanging
  <2> QED
    BY <2>1, <2>2, <2>3, <2>4 DEF Exchanges, OneKeyPerCode
<1>4. ASSUME NEW u \in People, NEW o \in Orgs, NEW g \in Roles \cup {"NONE"},
             MemberChanges(u, o, g)
      PROVE  Exchanges'
  BY <1>2, <1>4 DEF MemberChanges
<1>5. ASSUME NEW k \in Keys, KeyExpires(k) PROVE Exchanges'
  BY <1>2, <1>5 DEF KeyExpires
<1>6. CASE UNCHANGED vars
  BY <1>2, <1>6 DEF vars
<1> QED
  BY <1>1, <1>3, <1>4, <1>5, <1>6 DEF Next, Step

(* However exchanges of a code overlap with each other, with its expiry    *)
(* and with deletions, they make one key of it at most.                    *)
THEOREM OneKeyCorrect == Spec => []OneKeyPerCode
<1>1. Init => Exchanges
  BY DEF Init, Exchanges, Exchanging, Idle, OneKeyPerCode
<1>2. Exchanges => OneKeyPerCode
  BY DEF Exchanges
<1> QED
  BY <1>1, <1>2, InitTyped, NextKeepsType, NextKeepsCodes, PTL DEF Spec

-----------------------------------------------------------------------------
(* Nobody is welcomed twice.                                               *)

Early == {"welcome", "ready", "create_org", "join"}

(* One request of a user at a time has his row; it is of a new user        *)
(* exactly if nothing is committed yet, and such a request commits the     *)
(* user if it commits at all, for who is not signed up is a member of      *)
(* nothing.                                                                *)
SignUpFits(q, committed) ==
    /\ q.user # None /\ q.op \notin Waiting => (q.new <=> q.user \notin committed)
    /\ q.op = "lock" => q.user \in committed
    /\ q.op = "welcome" => q.new
    /\ q.new => q.op \in Early

(* The user whose row a request has.                                       *)
Holds(q) == IF q.op \in Waiting THEN None ELSE q.user

SignUps ==
    /\ \A r, s \in InFlight : Holds(req[r]) = Holds(req[s]) /\ Holds(req[r]) # None => r = s
    /\ \A r \in InFlight : SignUpFits(req[r], users)
    /\ \A u \in People, o \in Orgs : IsMember(u, o) => u \in users
    /\ WelcomedOnce

SignedUp(u) ==
    \/ u \in users
    \/ \E r \in InFlight : req[r].user = u /\ req[r].new /\ req[r].op # "welcome"

(* WelcomedOnce, now and after a step, user by user.                       *)
LEMMA WelcomedIs ==
    /\ WelcomedOnce <=>
           \A u \in People : welcomes[u] = aborted[u] + IF SignedUp(u) THEN 1 ELSE 0
    /\ WelcomedOnce' <=>
           \A u \in People : welcomes'[u] = aborted'[u] + IF SignedUp(u)' THEN 1 ELSE 0
  BY DEF WelcomedOnce, SignedUp

(* A request s goes on, ends or starts without touching a sign-up.         *)
NoSignUp(s) ==
    \/ req'[s] = req[s]
    \/ req'[s] = Idle /\ (req[s] # Idle => ~req[s].new)
    \/ /\ req[s] # Idle /\ req'[s] # Idle
       /\ req'[s].user = req[s].user /\ req'[s].new = req[s].new
       /\ req[s].op # "welcome" /\ req'[s].op # "welcome"
       /\ req[s].op \notin Waiting /\ req'[s].op \notin Waiting
       /\ req'[s].new => req'[s].op \in Early
    \/ /\ req[s] = Idle /\ req'[s] # Idle
       /\ req'[s].user = None \/ req'[s].op \in Waiting
       /\ req'[s].op = "lock" => req'[s].user \in users
       /\ ~req'[s].new /\ req'[s].op # "welcome"

(* SignUps stays where users, welcomes and rollbacks do, and no request    *)
(* begins or ends a sign-up.                                               *)
LEMMA SignUpsAside ==
    ASSUME TypeInv, TypeInv', SignUps, UNCHANGED <<users, welcomes, aborted>>,
           \A u \in People, o \in Orgs : IsMember(u, o)' => u \in users,
           \A s \in Requests : NoSignUp(s)
    PROVE  SignUps'
<1>1. \A r, s \in InFlight' :
          (Holds(req'[r]) = Holds(req'[s]) /\ Holds(req'[r]) # None) => r = s
  BY DEF SignUps, NoSignUp, InFlight, Holds
<1>2. \A r \in InFlight' : SignUpFits(req'[r], users)
  BY DEF SignUps, SignUpFits, NoSignUp, InFlight, Waiting
<1>3. \A u \in People : SignedUp(u)' <=> SignedUp(u)
  BY AccessAssumption DEF NoSignUp, SignedUp, InFlight
<1>4. WelcomedOnce'
  BY <1>3, WelcomedIs DEF SignUps
<1> QED
  BY <1>1, <1>2, <1>4 DEF SignUps

(* Beginning a request keeps SignUps: nobody has a row yet.                *)
LEMMA CallKeepsSignUps ==
    ASSUME TypeInv, TypeInv', SignUps, NEW r \in Requests, Call(r)
    PROVE  SignUps'
<1>m. UNCHANGED role => \A u \in People, o \in Orgs : IsMember(u, o)' => u \in users
  BY DEF SignUps, IsMember
<1>a. ASSUME NEW op, NEW on, Ask(r, op, on), op \in Operations \ (Waiting \cup {"welcome"}),
             req[r].new => op \in Early
      PROVE  SignUps'
  <2>1. /\ UNCHANGED <<users, welcomes, aborted, role>>
        /\ req[r].op = "ready" /\ req'[r].op = op /\ req[r] # Idle /\ req'[r] # Idle
        /\ req'[r].user = req[r].user /\ req'[r].new = req[r].new
        /\ \A s \in Requests : s # r => req'[s] = req[s]
    BY <1>a, AskIs, IdleApart DEF accountVars
  <2>2. \A s \in Requests : NoSignUp(s)
    BY <1>a, <2>1 DEF NoSignUp, Waiting
  <2> QED
    BY <1>m, <2>1, <2>2, SignUpsAside
<1>b. ASSUME NEW q, Advance(r, q), req[r] = Idle, q.op \in Operations \ {"welcome"},
             q.user = None \/ q.op \in Waiting, q.op = "lock" => q.user \in users, ~q.new
      PROVE  SignUps'
  <2>1. /\ UNCHANGED <<users, welcomes, aborted, role>>
        /\ req'[r] = q /\ q # Idle
        /\ \A s \in Requests : s # r => req'[s] = req[s]
    BY <1>b, AdvanceIs, IdleApart DEF accountVars
  <2>2. \A s \in Requests : NoSignUp(s)
    BY <1>b, <2>1 DEF NoSignUp
  <2> QED
    BY <1>m, <2>1, <2>2, SignUpsAside
<1>1. ASSUME NEW u \in People, SignIn(r, u) PROVE SignUps'
  BY <1>1, <1>b DEF SignIn, Operations, Waiting
<1>2. ASSUME NEW k \in Keys, NEW n \in Names, UseKey(r, k, n) PROVE SignUps'
  BY <1>2, <1>b DEF UseKey, Operations, Waiting
<1>3. ASSUME NEW c \in Codes, PresentCode(r, c) PROVE SignUps'
  BY <1>3, <1>b DEF PresentCode, Operations, Exchange, Waiting
<1>4. CASE CreateOrganization(r)
  BY <1>4, <1>a DEF CreateOrganization, Operations, Waiting, Early
<1>5. ASSUME NEW o \in Orgs, NEW g \in Roles \ {"OWNER"}, Join(r, o, g) PROVE SignUps'
  BY <1>5, <1>a DEF Join, Operations, Waiting, Early
<1>6. ASSUME NEW op \in Operations \ (Waiting \cup {"welcome"}), MembersAsk(r, op) PROVE SignUps'
  <2>1. PICK on \in Ons, o \in Orgs : Ask(r, op, on) /\ IsMember(req[r].user, o)
    BY <1>6 DEF MembersAsk
  <2>2. req[r].user \in People /\ r \in InFlight /\ req[r].op = "ready"
    BY <2>1, AskIs, InFlightFits DEF Operations
  <2>3. ~req[r].new
    BY <2>1, <2>2, AccessAssumption DEF SignUps, SignUpFits, Waiting
  <2> QED
    BY <2>1, <2>3, <1>a
<1> QED
  BY <1>1, <1>2, <1>3, <1>4, <1>5, <1>6, CallKinds DEF Operations, Waiting

(* Going on with a request, its commit or its failure keeps SignUps.       *)
LEMMA ProceedKeepsSignUps ==
    ASSUME TypeInv, TypeInv', SignUps, NEW r \in Requests, Proceed(r) \/ Fail(r)
    PROVE  SignUps'
<1>m. ASSUME \A u \in People, o \in Orgs : IsMember(u, o)' => IsMember(u, o)
      PROVE  \A u \in People, o \in Orgs : IsMember(u, o)' => u \in users
  BY <1>m DEF SignUps
<1>n. UNCHANGED role => \A u \in People, o \in Orgs : IsMember(u, o)' => IsMember(u, o)
  BY DEF IsMember
<1>e. ASSUME End(r), UNCHANGED <<users, welcomes, aborted>>, req[r].op \in Operations \ Early,
             \A u \in People, o \in Orgs : IsMember(u, o)' => IsMember(u, o)
      PROVE  SignUps'
  <2>1. ~req[r].new
    BY <1>e, InFlightFits DEF SignUps, SignUpFits
  <2>2. req'[r] = Idle /\ \A s \in Requests : s # r => req'[s] = req[s]
    BY <1>e, EndIs
  <2>3. \A s \in Requests : NoSignUp(s)
    BY <2>1, <2>2 DEF NoSignUp
  <2> QED
    BY <1>e, <1>m, <2>3, SignUpsAside
<1>o. ASSUME NEW op \in Exchange, req[r].op \in Exchange,
             req' = [req EXCEPT ![r] = [req[r] EXCEPT !.op = op]],
             UNCHANGED <<users, welcomes, aborted, role>>
      PROVE  SignUps'
  <2>1. /\ \A s \in Requests : s # r => req'[s] = req[s]
        /\ req'[r].op = op /\ req'[r].user = req[r].user /\ req'[r].new = req[r].new
    BY <1>o, OpIs DEF Operations
  <2>2. ~req[r].new /\ req[r] # Idle /\ req'[r] # Idle
    BY <1>o, <2>1, InFlightFits, IdleApart DEF SignUps, SignUpFits, Operations, Exchange, Early
  <2>3. \A s \in Requests : NoSignUp(s)
    BY <1>o, <2>1, <2>2 DEF NoSignUp, Exchange, Waiting
  <2> QED
    BY <1>m, <1>n, <1>o, <2>3, SignUpsAside
<1>u. ASSUME Undo(r), req[r].op \in Operations PROVE SignUps'
  <2>1. /\ req'[r] = Idle /\ \A s \in Requests : s # r => req'[s] = req[s]
        /\ UNCHANGED <<users, welcomes, role>>
    BY <1>u, EndIs DEF Undo
  <2>2. req[r] \in Request /\ r \in InFlight /\ WhoFits(req[r])
    BY <1>u, InFlightFits
  <2>3. CASE req[r].new /\ req[r].op # "welcome"
    <3>1. PICK u \in People : u = req[r].user /\ u \notin users /\ req[r].op \notin Waiting
      BY <2>2, <2>3, AccessAssumption DEF WhoFits, Request, SignUps, SignUpFits
    <3>2. /\ aborted'[u] = aborted[u] + 1
          /\ \A v \in People : v # u => aborted'[v] = aborted[v]
      BY <1>u, <2>3, <3>1 DEF Undo, TypeInv, TypeOK
    <3>3. SignedUp(u)
      BY <2>2, <2>3, <3>1 DEF SignedUp
    <3>4. ~SignedUp(u)'
      <4>1. \A s \in InFlight : req[s].user = u /\ s # r => ~req[s].new
        <5> SUFFICES ASSUME NEW s \in InFlight, req[s].user = u, s # r, req[s].new PROVE FALSE
          OBVIOUS
        <5>1. req[s].op \notin Waiting
          BY DEF SignUps, SignUpFits, Early, Waiting
        <5> QED
          BY <2>2, <3>1, <5>1, AccessAssumption DEF SignUps, Holds
      <4> QED
        BY <2>1, <3>1, <4>1 DEF SignedUp, InFlight
    <3>5. \A v \in People : v # u => (SignedUp(v)' <=> SignedUp(v))
      BY <2>1, <3>1 DEF SignedUp, InFlight
    <3>6. WelcomedOnce'
      <4> SUFFICES ASSUME NEW v \in People
                   PROVE  welcomes'[v] = aborted'[v] + IF SignedUp(v)' THEN 1 ELSE 0
        BY WelcomedIs
      <4>1. /\ welcomes[v] = aborted[v] + IF SignedUp(v) THEN 1 ELSE 0
            /\ aborted[v] \in Nat
        BY WelcomedIs DEF SignUps, TypeInv, TypeOK
      <4>2. CASE v = u
        <5>1. SignedUp(v) /\ ~SignedUp(v)' /\ aborted'[v] = aborted[v] + 1 /\ welcomes'[v] = welcomes[v]
          BY <2>1, <3>2, <3>3, <3>4, <4>2
        <5> QED
          BY <4>1, <5>1
      <4>3. CASE v # u
        BY <2>1, <3>2, <3>5, <4>1, <4>3
      <4> QED
        BY <4>2, <4>3
    <3> QED
      BY <1>m, <1>n, <2>1, <3>6 DEF SignUps, InFlight
  <2>4. CASE ~(req[r].new /\ req[r].op # "welcome")
    <3>1. UNCHANGED aborted
      BY <1>u, <2>4 DEF Undo
    <3>2. \A v \in People : SignedUp(v)' <=> SignedUp(v)
      BY <2>1, <2>4 DEF SignedUp, InFlight
    <3>3. WelcomedOnce'
      BY <2>1, <3>1, <3>2, WelcomedIs DEF SignUps
    <3> QED
      BY <1>m, <1>n, <2>1, <3>3 DEF SignUps, InFlight
  <2> QED
    BY <2>3, <2>4
<1>c. ASSUME CommitUser(req[r]), End(r), req[r].op \in Early \ {"welcome"}, req[r].user \in People,
             \A u \in People, o \in Orgs : IsMember(u, o)' => IsMember(u, o) \/ u = req[r].user
      PROVE  SignUps'
  <2>0. PICK u \in People : u = req[r].user
    BY <1>c
  <2>1. /\ users' = users \cup {u} /\ UNCHANGED <<welcomes, aborted>>
        /\ req'[r] = Idle /\ \A s \in Requests : s # r => req'[s] = req[s]
    BY <1>c, <2>0, AccessAssumption, EndIs DEF CommitUser
  <2>2. /\ r \in InFlight /\ req[r].op \notin Waiting
        /\ \A s \in InFlight : s # r => req[s].user # u \/ req[s].op \in Waiting
    <3>1. r \in InFlight /\ req[r].op \notin Waiting
      BY <1>c, InFlightFits DEF Early, Operations, Waiting
    <3> QED
      BY <2>0, <3>1, AccessAssumption DEF SignUps, Holds
  <2>3. \A v \in People, o \in Orgs : IsMember(v, o)' => v \in users'
    BY <1>c, <2>0, <2>1 DEF SignUps
  <2>4. SignedUp(u) /\ SignedUp(u)'
    <3>1. req[r].new \/ u \in users
      BY <1>c, <2>0, <2>2, AccessAssumption DEF SignUps, SignUpFits
    <3> QED
      BY <1>c, <2>0, <2>1, <2>2, <3>1 DEF SignedUp
  <2>5. \A v \in People : v # u => (SignedUp(v)' <=> SignedUp(v))
    BY <2>0, <2>1, <2>2 DEF SignedUp, InFlight
  <2>6. WelcomedOnce'
    <3>1. \A v \in People : SignedUp(v)' <=> SignedUp(v)
      BY <2>4, <2>5
    <3> QED
      BY <2>1, <3>1, WelcomedIs DEF SignUps
  <2>7. \A s \in InFlight' : SignUpFits(req'[s], users')
    BY <2>1, <2>2 DEF SignUps, SignUpFits, InFlight
  <2>8. \A s, t \in InFlight' :
            (Holds(req'[s]) = Holds(req'[t]) /\ Holds(req'[s]) # None) => s = t
    BY <2>1 DEF SignUps, InFlight
  <2> QED
    BY <2>3, <2>6, <2>7, <2>8 DEF SignUps
<1>1. CASE Welcome(r)
  <2>z. /\ req[r].op = "welcome" /\ welcomes' = [welcomes EXCEPT ![req[r].user] = @ + 1]
        /\ req' = [req EXCEPT ![r] = [req[r] EXCEPT !.op = "ready"]]
        /\ UNCHANGED <<users, aborted, role>>
    BY <1>1 DEF Welcome
  <2>w. PICK u \in People : u = req[r].user
    BY <2>z, InFlightFits DEF Operations, Exchange, WhoFits
  <2>0. /\ req[r].op = "welcome" /\ welcomes' = [welcomes EXCEPT ![u] = @ + 1]
        /\ req' = [req EXCEPT ![r] = [req[r] EXCEPT !.op = "ready"]]
        /\ UNCHANGED <<users, aborted, role>>
    BY <2>z, <2>w
  <2>1. /\ \A s \in Requests : s # r => req'[s] = req[s]
        /\ req'[r].op = "ready" /\ req'[r].user = u /\ req'[r].new = req[r].new
        /\ req[r] # Idle /\ req'[r] # Idle /\ u \in People /\ r \in InFlight
    <3>1. req[r].op \in Operations
      BY <2>0 DEF Operations
    <3>2. /\ \A s \in Requests : s # r => req'[s] = req[s]
          /\ req'[r].op = "ready" /\ req'[r].user = u /\ req'[r].new = req[r].new
      BY <2>0, <2>w, <3>1, OpIs
    <3>3. "ready" \in Operations
      BY DEF Operations
    <3> QED
      BY <2>w, <3>1, <3>2, <3>3, InFlightFits, IdleApart DEF InFlight
  <2>2. /\ req[r].new /\ u \notin users
        /\ \A s \in InFlight : s # r => req[s].user # u \/ req[s].op \in Waiting
    <3>1. Holds(req[r]) = u /\ req[r].op \notin Waiting
      BY <2>0, <2>w DEF Holds, Waiting
    <3> QED
      BY <2>0, <2>1, <2>w, <3>1, AccessAssumption DEF SignUps, SignUpFits, Holds
  <2>3. ~SignedUp(u) /\ SignedUp(u)'
    <3>1. \A s \in InFlight : req[s].user = u /\ req[s].new => s = r
      BY <2>2 DEF SignUps, SignUpFits, Early, Waiting
    <3> QED
      BY <2>0, <2>1, <2>2, <2>w, <3>1 DEF SignedUp, InFlight
  <2>4. \A v \in People : v # u => (SignedUp(v)' <=> SignedUp(v))
    BY <2>0, <2>1, <2>w DEF SignedUp, InFlight
  <2>5. WelcomedOnce'
    <3> SUFFICES ASSUME NEW v \in People
                 PROVE  welcomes'[v] = aborted'[v] + IF SignedUp(v)' THEN 1 ELSE 0
      BY WelcomedIs
    <3>1. /\ welcomes[v] = aborted[v] + IF SignedUp(v) THEN 1 ELSE 0
          /\ aborted[v] \in Nat
      BY WelcomedIs DEF SignUps, TypeInv, TypeOK
    <3>2. CASE v = u
      <4>1. ~SignedUp(v) /\ SignedUp(v)' /\ welcomes'[v] = welcomes[v] + 1 /\ aborted'[v] = aborted[v]
        BY <2>0, <2>1, <2>3, <3>2 DEF TypeInv, TypeOK
      <4> QED
        BY <3>1, <4>1
    <3>3. CASE v # u
      <4>1. welcomes'[v] = welcomes[v] /\ aborted'[v] = aborted[v]
        BY <2>0, <3>3 DEF TypeInv, TypeOK
      <4> QED
        BY <2>4, <3>1, <3>3, <4>1
    <3> QED
      BY <3>2, <3>3
  <2>6. \A s \in InFlight' : SignUpFits(req'[s], users')
    BY <2>0, <2>1, <2>2 DEF SignUps, SignUpFits, InFlight, Early, Waiting
  <2>7. \A s, t \in InFlight' :
            (Holds(req'[s]) = Holds(req'[t]) /\ Holds(req'[s]) # None) => s = t
    <3>1. Holds(req'[r]) = Holds(req[r])
      BY <2>0, <2>1, <2>w DEF Holds, Waiting
    <3> QED
      BY <2>1, <3>1 DEF SignUps, InFlight
  <2>8. \A v \in People, o \in Orgs : IsMember(v, o)' => v \in users'
    BY <1>n, <2>0 DEF SignUps
  <2> QED
    BY <2>5, <2>6, <2>7, <2>8 DEF SignUps
<1>2. CASE Finish(r)
  <2>1. req[r].user \in People
    BY <1>2, InFlightFits DEF Finish, Operations, Exchange, WhoFits
  <2> QED
    BY <1>2, <2>1, <1>c DEF Finish, CommitSignIn, CommitOrgs, IsMember, Early
<1>3. CASE CommitCreateOrganization(r)
  <2>1. req[r].user \in People
    BY <1>3, InFlightFits DEF CommitCreateOrganization, Operations, Exchange, WhoFits
  <2> QED
    BY <1>3, <2>1, <1>c DEF CommitCreateOrganization, CommitOrgs, IsMember, Early
<1>4. CASE CommitJoin(r)
  <2>1. req[r].user \in People
    BY <1>4, InFlightFits DEF CommitJoin, Operations, Exchange, WhoFits
  <2>2. \A u \in People, o \in Orgs : u # req[r].user => role'[u][o] = role[u][o]
    BY <1>4, <2>1 DEF CommitJoin, CommitOrgs, TypeInv, TypeOK
  <2> QED
    BY <1>4, <2>1, <2>2, <1>c DEF CommitJoin, IsMember, Early
<1>5. CASE CommitDeleteOrganization(r)
  <2>1. \A u \in People, o \in Orgs : role'[u][o] \in {"NONE", role[u][o]}
    BY <1>5 DEF CommitDeleteOrganization, TypeInv, TypeOK
  <2>2. \A u \in People, o \in Orgs : IsMember(u, o)' => IsMember(u, o)
    BY <2>1 DEF IsMember, Roles
  <2> QED
    BY <1>5, <2>2, <1>e DEF CommitDeleteOrganization, Operations, Early
<1>6. CASE CommitCreateProject(r) \/ CommitUpdateProject(r) \/ CommitDeleteProject(r)
  BY <1>6, <1>n, <1>e DEF CommitCreateProject, CommitUpdateProject, CommitDeleteProject,
                          Operations, Early, accountVars
<1>7. ASSUME NEW k \in Keys, CommitKey(r, k) \/ MintKey(r, k) PROVE SignUps'
  BY <1>7, <1>n, <1>e DEF CommitKey, MintKey, Operations, Exchange, Early, accountVars
<1>8. CASE CommitDropKey(r) \/ CommitIssueCode(r)
  BY <1>8, <1>n, <1>e DEF CommitDropKey, CommitIssueCode, Operations, Early, accountVars
<1>9. CASE Consume(r)
  <2>1. CASE code[req[r].on].state = "live"
    <3>1. req' = [req EXCEPT ![r].op = "consumed"] /\ UNCHANGED accountVars /\ req[r].op = "presented"
      BY <1>9, <2>1, Zenon DEF Consume
    <3>2. req' = [req EXCEPT ![r] = [req[r] EXCEPT !.op = "consumed"]]
      BY <3>1
    <3> QED
      BY <3>1, <3>2, <1>o DEF Exchange, accountVars
  <2> QED
    BY <1>9, <2>1, <1>u DEF Consume, Operations, Exchange
<1>10. CASE Recheck(r)
  <2>1. CASE Advance(r, [req[r] EXCEPT !.op = "mint"])
    BY <1>10, <2>1, <1>o DEF Recheck, Advance, Exchange, accountVars
  <2> QED
    BY <1>10, <2>1, <1>u DEF Recheck, Operations, Exchange
<1>11. CASE PoolTimesOut(r) \/ ConstraintFails(r) \/ Fail(r)
  <2>1. req[r].op \in Operations
    BY <1>11 DEF PoolTimesOut, ConstraintFails, Accepted, Fail, Operations, Exchange, TypeInv, TypeOK, Request
  <2> QED
    BY <1>11, <2>1, <1>u DEF PoolTimesOut, ConstraintFails, Fail
<1>12. CASE UpsertUser(r) /\ Undo(r)
  BY <1>12, <1>u DEF UpsertUser, Operations
<1>13. CASE UpsertUser(r) /\ ~Undo(r)
  <2>1. PICK q \in Request :
            /\ Advance(r, q) /\ q.user = req[r].user /\ q.user \in People
            /\ req[r].op \in Waiting /\ ~SignedIn(q.user)
            /\ \/ req[r].op = "insert" /\ q.op = "welcome" /\ q.new /\ q.user \notin users
               \/ req[r].op = "lock" /\ q.op = "ready" /\ ~q.new
    BY <1>13, UpsertIs
  <2>2. /\ UNCHANGED <<users, welcomes, aborted, role>>
        /\ req'[r] = q /\ \A s \in Requests : s # r => req'[s] = req[s]
    BY <2>1, AdvanceIs DEF accountVars
  <2>3. r \in InFlight /\ ~req[r].new
    BY <2>1, InFlightFits DEF Operations, WhoFits
  <2>4. \A s, t \in InFlight' :
            (Holds(req'[s]) = Holds(req'[t]) /\ Holds(req'[s]) # None) => s = t
    <3>1. \A s \in InFlight' : s # r =>
              s \in InFlight /\ req'[s] = req[s] /\ Holds(req[s]) # q.user
      BY <2>1, <2>2, AccessAssumption DEF InFlight, SignedIn, Holds
    <3>2. Holds(req'[r]) = q.user
      BY <2>1, <2>2 DEF Holds, Waiting
    <3> QED
      BY <3>1, <3>2 DEF SignUps
  <2>5. \A s \in InFlight' : SignUpFits(req'[s], users')
    <3>1. req[r].op = "lock" => q.user \in users
      BY <2>1, <2>3 DEF SignUps, SignUpFits
    <3>2. SignUpFits(q, users)
      BY <2>1, <3>1 DEF SignUpFits, Early, Waiting
    <3> QED
      BY <2>2, <3>2 DEF SignUps, InFlight
  <2>6. \A v \in People : SignedUp(v)' <=> SignedUp(v)
    BY <2>1, <2>2, <2>3 DEF SignedUp, InFlight
  <2>7. WelcomedOnce'
    BY <2>2, <2>6, WelcomedIs DEF SignUps
  <2>8. \A v \in People, o \in Orgs : IsMember(v, o)' => v \in users'
    BY <2>2 DEF SignUps, IsMember
  <2> QED
    BY <2>4, <2>5, <2>7, <2>8 DEF SignUps
<1> QED
  BY <1>1, <1>2, <1>3, <1>4, <1>5, <1>6, <1>7, <1>8, <1>9, <1>10, <1>11, <1>12, <1>13 DEF Proceed

(* SignUps is inductive, given the types.                                  *)
LEMMA NextKeepsSignUps == TypeInv /\ SignUps /\ [Next]_vars => SignUps'
<1> SUFFICES ASSUME TypeInv, SignUps, [Next]_vars PROVE SignUps'
  OBVIOUS
<1>0. TypeInv'
  BY NextKeepsType
<1>1. ASSUME NEW r \in Requests, Call(r) \/ Proceed(r) \/ Fail(r) PROVE SignUps'
  BY <1>0, <1>1, CallKeepsSignUps, ProceedKeepsSignUps
<1>2. ASSUME UNCHANGED <<users, welcomes, aborted, req>>,
             \A u \in People, o \in Orgs : IsMember(u, o)' => IsMember(u, o)
      PROVE  SignUps'
  <2>1. \A u \in People, o \in Orgs : IsMember(u, o)' => u \in users
    BY <1>2 DEF SignUps
  <2> QED
    BY <1>0, <1>2, <2>1, SignUpsAside DEF NoSignUp
<1>3. ASSUME NEW u \in People, NEW o \in Orgs, NEW g \in Roles \cup {"NONE"},
             MemberChanges(u, o, g)
      PROVE  SignUps'
  <2>1. \A v \in People, p \in Orgs : role'[v][p] = role[v][p] \/ (v = u /\ p = o)
    BY <1>3 DEF MemberChanges, TypeInv, TypeOK
  <2> QED
    BY <1>2, <1>3, <2>1 DEF MemberChanges, IsMember
<1>4. ASSUME UNCHANGED <<accountVars, req>> PROVE SignUps'
  BY <1>2, <1>4 DEF accountVars, IsMember
<1> QED
  BY <1>1, <1>3, <1>4 DEF Next, Step, KeyExpires, CodeExpires, vars

(* However the first requests of a user overlap and whatever becomes of    *)
(* the memberships, the sign-up jobs are enqueued once for each sign-up.   *)
THEOREM WelcomedCorrect == Spec => []WelcomedOnce
<1>1. Init => SignUps
  BY DEF Init, SignUps, WelcomedOnce, InFlight, IsMember, Roles
<1>2. SignUps => WelcomedOnce
  BY DEF SignUps
<1> QED
  BY <1>1, <1>2, InitTyped, NextKeepsType, NextKeepsSignUps, PTL DEF Spec

-----------------------------------------------------------------------------
(* Nobody founds more organizations than he may.                           *)

\* organizations that come to be when the request commits
News(q) == Provisioned(q) \cup (IF q.op = "create_org" THEN {q.on} ELSE {})

Founded(u) == {o \in live : founder[o] = u /\ IsOwner(u, o)}

(* What a request has found about organizations and still counts on: only  *)
(* requests of its own user, who has no other one, could change it.        *)
CountsOn(q) ==
    /\ \A o \in News(q) : founder[o] = None
    /\ q.jit # None => OrgsOf(q.user) = {}
    /\ q.op = "create_org" => Cardinality(Founded(q.user) \cup Provisioned(q)) < MaxOwned
    /\ q.op = "join" => ~IsMember(q.user, q.on[1])

(* A founder stays the owner while the organization lives: owners are      *)
(* neither changed nor removed.                                            *)
Foundings ==
    /\ \A o \in live : founder[o] # None
    /\ \A u \in People, o \in Orgs :
          /\ IsMember(u, o) => o \in live
          /\ o \in live /\ founder[o] = u => IsOwner(u, o)
    /\ \A r \in InFlight : CountsOn(req[r])
    /\ \A r, s \in InFlight : r # s => News(req[r]) \cap News(req[s]) = {}
    /\ FoundedWithinLimit

(* Sets of organizations are finite, and a part of one is no larger.       *)
LEMMA SomeOrgs ==
    ASSUME NEW S \in SUBSET Orgs, NEW T \in SUBSET S
    PROVE  /\ IsFiniteSet(T) /\ Cardinality(T) \in Nat
           /\ Cardinality(S) \in Nat /\ Cardinality(T) <= Cardinality(S)
<1>1. IsFiniteSet(S)
  BY AccessAssumption, FS_Subset
<1> QED
  BY <1>1, FS_Subset, FS_CardinalityType

(* FoundedWithinLimit, now and after a step, person by person.             *)
LEMMA LimitIs ==
    /\ FoundedWithinLimit <=> \A u \in People : Cardinality(Founded(u)) <= MaxOwned
    /\ FoundedWithinLimit' <=> \A u \in People : Cardinality(Founded(u)') <= MaxOwned
  BY DEF FoundedWithinLimit, Founded

(* Who is in flight counts on something of his own.                        *)
LEMMA NewsAre ==
    ASSUME TypeInv, NEW r \in InFlight
    PROVE  /\ req[r] \in Request /\ WhoFits(req[r]) /\ WhatFits(req[r].op, req[r].on)
           /\ News(req[r]) \subseteq Orgs /\ Provisioned(req[r]) \subseteq Orgs
           /\ req[r].jit # None => req[r].user \in People
           /\ req[r].op \in {"create_org", "join"} => req[r].user \in People
<1>1. req[r] \in Request /\ WhoFits(req[r]) /\ WhatFits(req[r].op, req[r].on)
  BY DEF InFlight, TypeInv, TypeOK, RequestsFit
<1>2. req[r].op = "create_org" => req[r].on \in Orgs
  BY <1>1 DEF WhatFits
<1>3. /\ req[r].jit \in Orgs \cup {None} /\ req[r].user \in People \cup {None}
      /\ req[r].jit # None => req[r].user \in People
      /\ req[r].op \in {"create_org", "join"} => req[r].user \in People
  BY <1>1 DEF Request, WhoFits, Exchange
<1> QED
  BY <1>1, <1>2, <1>3 DEF News, Provisioned

(* What the other requests count on stays when memberships only end or     *)
(* change.                                                                 *)
LEMMA CountsStay ==
    ASSUME TypeInv, Foundings, UNCHANGED founder, live' \subseteq live,
           \A u \in People, o \in Orgs : IsMember(u, o)' => IsMember(u, o),
           NEW q, CountsOn(q), Provisioned(q) \subseteq Orgs,
           q.jit # None \/ q.op \in {"create_org", "join"} => q.user \in People,
           q.op = "join" => q.on[1] \in Orgs
    PROVE  CountsOn(q)'
<1>1. \A u \in People : Founded(u)' \subseteq Founded(u)
  BY DEF Founded, Foundings, TypeInv, TypeOK
<1>2. ASSUME q.op = "create_org"
      PROVE  (Cardinality(Founded(q.user) \cup Provisioned(q)) < MaxOwned)'
  <2> DEFINE S == Founded(q.user) \cup Provisioned(q)
             T == Founded(q.user)' \cup Provisioned(q)
  <2>1. Founded(q.user)' \subseteq Founded(q.user)
    BY <1>1, <1>2
  <2>2. S \in SUBSET Orgs /\ T \in SUBSET S
    BY <2>1 DEF Founded, TypeInv, TypeOK
  <2>3. Cardinality(S) < MaxOwned
    BY <1>2 DEF CountsOn
  <2>4. Cardinality(T) < MaxOwned
    <3> HIDE DEF S, T
    <3> QED
      BY <2>2, <2>3, SomeOrgs, AccessAssumption
  <2> QED
    BY <2>4 DEF Provisioned
<1>3. q.jit # None => OrgsOf(q.user)' = {}
  BY DEF OrgsOf, CountsOn
<1>4. q.op = "join" => ~IsMember(q.user, q.on[1])'
  BY DEF CountsOn
<1>5. \A o \in News(q)' : founder'[o] = None
  BY DEF CountsOn, News, Provisioned
<1> QED
  BY <1>2, <1>3, <1>4, <1>5 DEF CountsOn

(* A request takes its next step, or ends, and founds nothing.             *)
LEMMA FoundingsAside ==
    ASSUME TypeInv, TypeInv', Foundings, UNCHANGED founder, live' \subseteq live,
           \A u \in People, o \in Orgs : IsMember(u, o)' => IsMember(u, o) /\ o \in live',
           \A u \in People, o \in live' : founder[o] = u => IsOwner(u, o)',
           NEW S, \A s, t \in S : s = t, \A s \in Requests \ S : req'[s] = req[s],
           \A s \in S \cap InFlight' :
               /\ CountsOn(req[s])'
               /\ \A t \in InFlight : t # s => News(req[s])' \cap News(req[t]) = {}
    PROVE  Foundings'
<1>1. ASSUME NEW s \in InFlight' PROVE CountsOn(req[s])'
  <2>1. CASE s \in S
    BY <1>1, <2>1
  <2>2. CASE s \notin S
    <3>1. req'[s] = req[s] /\ s \in InFlight
      BY <1>1, <2>2 DEF InFlight
    <3>2. CountsOn(req[s])
      BY <3>1 DEF Foundings
    <3>3. PICK q : q = req[s]
      OBVIOUS
    <3>4. q.op = "join" => q.on[1] \in Orgs
      BY <3>1, <3>3, NewsAre DEF WhatFits
    <3>5. CountsOn(q)'
      BY <3>1, <3>2, <3>3, <3>4, NewsAre, CountsStay
    <3> QED
      BY <3>1, <3>3, <3>5
  <2> QED
    BY <2>1, <2>2
<1>2. ASSUME NEW s \in InFlight', NEW t \in InFlight', s # t
      PROVE  (News(req[s]) \cap News(req[t]) = {})'
  <2>1. \A x \in InFlight' : x \notin S => req'[x] = req[x] /\ x \in InFlight /\ News(req[x])' = News(req[x])
    BY DEF InFlight, News, Provisioned
  <2>2. s \notin S \/ t \notin S
    BY <1>2
  <2> QED
    BY <1>2, <2>1, <2>2 DEF Foundings
<1>3. FoundedWithinLimit'
  <2> SUFFICES ASSUME NEW u \in People PROVE Cardinality(Founded(u)') <= MaxOwned
    BY LimitIs
  <2>1. Founded(u)' \in SUBSET Founded(u) /\ Founded(u) \in SUBSET Orgs
    BY DEF Founded, Foundings, TypeInv, TypeOK
  <2>2. Cardinality(Founded(u)) <= MaxOwned
    BY LimitIs DEF Foundings
  <2> QED
    BY <2>1, <2>2, SomeOrgs, AccessAssumption
<1>4. \A o \in live' : founder'[o] # None
  BY DEF Foundings
<1> QED
  BY <1>1, <1>2, <1>3, <1>4 DEF Foundings

(* What founds: the organizations of the request, and none too many.       *)
LEMMA FoundsEnough ==
    ASSUME TypeInv, TypeInv', SignUps, Foundings, NEW r \in InFlight, req[r].user \in People,
           req[r].op \notin Waiting, NEW roles, CommitOrgs(req[r], News(req[r]), roles), End(r),
           \A u \in People, o \in Orgs :
               \/ roles[u][o] = role[u][o]
               \/ u = req[r].user /\ o \in live /\ ~IsMember(u, o) /\ roles[u][o] \in Roles
    PROVE  Foundings'
<1>u. PICK u \in People : u = req[r].user
  OBVIOUS
<1>n. PICK news \in SUBSET Orgs : news = News(req[r])
  BY NewsAre
<1>1. /\ \A o \in Orgs : founder'[o] = IF o \in news THEN u ELSE founder[o]
      /\ live' = live \cup news
      /\ \A v \in People, o \in Orgs :
            role'[v][o] = IF v = u /\ o \in news THEN "OWNER" ELSE roles[v][o]
  BY <1>u, <1>n DEF CommitOrgs
<1>2. r \in Requests /\ \A s \in Requests : s # r => req'[s] = req[s]
  BY EndIs DEF InFlight
<1>3. r \notin InFlight' /\ \A s \in InFlight' : s # r /\ s \in InFlight /\ req'[s] = req[s]
  BY <1>2, EndIs DEF InFlight
<1>4. \A o \in news : o \in Orgs /\ founder[o] = None
  BY <1>n DEF Foundings, CountsOn
<1>5. \A s \in InFlight : s # r =>
          /\ req[s].user # u \/ req[s].op \in Waiting
          /\ News(req[s]) \cap news = {}
  BY <1>u, <1>n, AccessAssumption DEF SignUps, Holds, Foundings
<1>6. \A v \in People, o \in Orgs : IsMember(v, o)' => IsMember(v, o) \/ (v = u /\ o \in live')
  BY <1>u, <1>1 DEF IsMember
<1>7. /\ \A o \in live' : founder'[o] # None
      /\ \A v \in People, o \in Orgs :
            /\ IsMember(v, o)' => o \in live'
            /\ o \in live' /\ founder'[o] = v => IsOwner(v, o)'
  <2>1. \A o \in live' : founder'[o] # None
    BY <1>1, <1>4, AccessAssumption DEF Foundings, TypeInv, TypeOK
  <2>2. ASSUME NEW v \in People, NEW o \in Orgs, o \in live', founder'[o] = v PROVE IsOwner(v, o)'
    <3>1. CASE o \in news
      BY <1>1, <2>2, <3>1 DEF IsOwner
    <3>2. CASE o \notin news
      <4>1. o \in live /\ founder[o] = v
        BY <1>1, <2>2, <3>2
      <4>2. IsOwner(v, o) /\ IsMember(v, o)
        BY <4>1 DEF Foundings, IsOwner, IsMember, Roles
      <4> QED
        BY <1>1, <3>2, <4>2 DEF IsOwner
    <3> QED
      BY <3>1, <3>2
  <2>3. \A v \in People, o \in Orgs : IsMember(v, o)' => o \in live'
    BY <1>1, <1>6 DEF Foundings
  <2> QED
    BY <2>1, <2>2, <2>3
<1>8. \A v \in People : v # u => Founded(v)' = Founded(v)
  <2> SUFFICES ASSUME NEW v \in People, v # u PROVE Founded(v)' = Founded(v)
    OBVIOUS
  <2>1. \A o \in Orgs : (o \in live' /\ founder'[o] = v) <=> (o \in live /\ founder[o] = v)
    BY <1>1, <1>4, AccessAssumption
  <2>2. live \subseteq Orgs /\ live' \subseteq Orgs
    BY DEF TypeInv, TypeOK
  <2>3. \A o \in Orgs : /\ o \in live /\ founder[o] = v => IsOwner(v, o)
                        /\ o \in live' /\ founder'[o] = v => IsOwner(v, o)'
    BY <1>7 DEF Foundings
  <2> QED
    BY <2>1, <2>2, <2>3 DEF Founded
<1>9. ASSUME NEW s \in InFlight' PROVE CountsOn(req[s])'
  <2>0. s # r /\ s \in InFlight /\ req'[s] = req[s]
    BY <1>3
  <2>1. PICK q : q = req[s]
    OBVIOUS
  <2>2. /\ CountsOn(q) /\ News(q) \cap news = {} /\ News(q) \subseteq Orgs
        /\ q.jit # None \/ q.op \in {"create_org", "join"} => q.user # u
    BY <1>5, <2>0, <2>1, NewsAre DEF Foundings, WhoFits, Waiting
  <2>3. /\ q.jit # None => q.user \in People
        /\ q.op \in {"create_org", "join"} => q.user \in People
        /\ q.op = "join" => q.on[1] \in Orgs
    BY <2>0, <2>1, NewsAre DEF WhatFits
  <2>4. News(q)' = News(q) /\ Provisioned(q)' = Provisioned(q)
    BY DEF News, Provisioned
  <2>5. \A o \in News(q)' : founder'[o] = None
    BY <1>1, <2>2, <2>4 DEF CountsOn
  <2>6. q.jit # None => OrgsOf(q.user)' = {}
    BY <1>6, <2>2, <2>3 DEF CountsOn, OrgsOf
  <2>7. q.op = "create_org" => (Cardinality(Founded(q.user) \cup Provisioned(q)) < MaxOwned)'
    BY <1>8, <2>2, <2>3, <2>4 DEF CountsOn
  <2>8. q.op = "join" => ~IsMember(q.user, q.on[1])'
    BY <1>6, <2>2, <2>3 DEF CountsOn
  <2>9. CountsOn(q)'
    BY <2>5, <2>6, <2>7, <2>8 DEF CountsOn
  <2> QED
    BY <2>0, <2>1, <2>9
<1>10. \A s, t \in InFlight' : s # t => (News(req[s]) \cap News(req[t]) = {})'
  BY <1>3 DEF Foundings, News, Provisioned
<1>11. FoundedWithinLimit'
  <2> SUFFICES ASSUME NEW v \in People PROVE Cardinality(Founded(v)') <= MaxOwned
    BY LimitIs
  <2>1. CASE v # u
    BY <1>8, <2>1, LimitIs DEF Foundings
  <2>2. CASE v = u
    <3>0. CountsOn(req[r]) /\ Founded(u) \in SUBSET Orgs /\ Cardinality(Founded(u)) <= MaxOwned
      BY LimitIs DEF Foundings, Founded, TypeInv, TypeOK
    <3>1. Founded(u)' \subseteq Founded(u) \cup news
      <4> SUFFICES ASSUME NEW o \in Founded(u)', o \notin news PROVE o \in Founded(u)
        OBVIOUS
      <4>1. o \in live /\ founder[o] = u /\ o \in Orgs
        BY <1>1 DEF Founded, TypeInv, TypeOK
      <4> QED
        BY <4>1 DEF Founded, Foundings
    <3>2. CASE req[r].op = "create_org"
      <4> DEFINE S == Founded(u) \cup Provisioned(req[r])
                 o == req[r].on
      <4>1. Cardinality(S) < MaxOwned /\ S \in SUBSET Orgs
        BY <1>u, <3>0, <3>2, NewsAre DEF CountsOn
      <4>2. Founded(u)' \in SUBSET (S \cup {o}) /\ S \cup {o} \in SUBSET Orgs
        BY <1>n, <3>0, <3>1, <3>2, <4>1 DEF News
      <4> HIDE DEF S, o
      <4>3. Cardinality(S \cup {o}) <= MaxOwned
        <5>1. IsFiniteSet(S) /\ Cardinality(S) \in Nat
          BY <4>1, SomeOrgs
        <5>2. Cardinality(S \cup {o}) = IF o \in S THEN Cardinality(S) ELSE Cardinality(S) + 1
          BY <5>1, FS_AddElement
        <5> QED
          BY <4>1, <5>1, <5>2, AccessAssumption
      <4> QED
        BY <2>2, <4>2, <4>3, SomeOrgs, AccessAssumption
    <3>3. CASE req[r].op # "create_org" /\ req[r].jit # None
      <4>1. Founded(u) = {}
        BY <1>u, <3>0, <3>3 DEF CountsOn, OrgsOf, Founded, IsOwner, IsMember, Roles, TypeInv, TypeOK
      <4>2. news = {req[r].jit}
        BY <1>n, <3>3 DEF News, Provisioned
      <4>3. Founded(u)' \in SUBSET news
        BY <3>1, <4>1
      <4>4. Cardinality(news) = 1
        BY <4>2, FS_Singleton
      <4> QED
        BY <2>2, <4>3, <4>4, SomeOrgs, AccessAssumption
    <3>4. CASE req[r].op # "create_org" /\ req[r].jit = None
      <4>1. Founded(u)' \in SUBSET Founded(u)
        BY <1>n, <3>1, <3>4 DEF News, Provisioned
      <4> QED
        BY <2>2, <3>0, <4>1, SomeOrgs, AccessAssumption
    <3> QED
      BY <3>2, <3>3, <3>4
  <2> QED
    BY <2>1, <2>2
<1> QED
  BY <1>7, <1>9, <1>10, <1>11 DEF Foundings

(* What clients ask for counts on what they see.                           *)
LEMMA CallKeepsFoundings ==
    ASSUME TypeInv, TypeInv', SignUps, Foundings, NEW r \in Requests, Call(r)
    PROVE  Foundings'
<1>u. ASSUME UNCHANGED accountVars
      PROVE  /\ \A u \in People, o \in Orgs : IsMember(u, o)' => IsMember(u, o) /\ o \in live'
             /\ \A u \in People, o \in live' : founder[o] = u => IsOwner(u, o)'
             /\ UNCHANGED founder /\ live' \subseteq live
             /\ \A q : News(q)' = News(q) /\ (CountsOn(q)' <=> CountsOn(q))
  <2>1. UNCHANGED <<founder, live, role>>
    BY <1>u DEF accountVars
  <2>2. /\ \A u \in People, o \in Orgs : IsMember(u, o)' => IsMember(u, o) /\ o \in live'
        /\ \A u \in People, o \in live' : founder[o] = u => IsOwner(u, o)'
    BY <2>1 DEF Foundings, IsMember, IsOwner, TypeInv, TypeOK
  <2>3. \A q : News(q)' = News(q) /\ Provisioned(q)' = Provisioned(q)
    BY DEF News, Provisioned
  <2>4. \A u, o : /\ IsMember(u, o)' <=> IsMember(u, o)
                  /\ Founded(u)' = Founded(u) /\ OrgsOf(u)' = OrgsOf(u)
    BY <2>1 DEF IsMember, IsOwner, Founded, OrgsOf
  <2>5. \A q : CountsOn(q)' <=> CountsOn(q)
    BY <2>1, <2>3, <2>4 DEF CountsOn
  <2> QED
    BY <2>1, <2>2, <2>3, <2>5
<1>a. ASSUME UNCHANGED accountVars, \A s \in Requests : s # r => req'[s] = req[s],
             CountsOn(req'[r]),
             \A t \in InFlight : t # r => News(req'[r]) \cap News(req[t]) = {}
      PROVE  Foundings'
  <2>1. PICK q : q = req'[r]
    OBVIOUS
  <2>2. CountsOn(req[r])' /\ News(req[r])' = News(q)
    BY <1>a, <1>u, <2>1
  <2>3. PICK S : S = {r}
    OBVIOUS
  <2>4. \A s \in S \cap InFlight' :
            /\ CountsOn(req[s])'
            /\ \A t \in InFlight : t # s => News(req[s])' \cap News(req[t]) = {}
    BY <1>a, <2>1, <2>2, <2>3
  <2>5. (\A s, t \in S : s = t) /\ \A s \in Requests \ S : req'[s] = req[s]
    BY <1>a, <2>3
  <2>6. /\ \A u \in People, o \in Orgs : IsMember(u, o)' => IsMember(u, o) /\ o \in live'
        /\ \A u \in People, o \in live' : founder[o] = u => IsOwner(u, o)'
        /\ UNCHANGED founder /\ live' \subseteq live
    BY <1>a, <1>u
  <2> QED
    BY <2>4, <2>5, <2>6, FoundingsAside
<1>b. ASSUME NEW op \in Operations \ {"create_org"}, NEW on, Ask(r, op, on),
             op = "join" => ~IsMember(req[r].user, on[1])
      PROVE  Foundings'
  <2>1. /\ UNCHANGED accountVars /\ \A s \in Requests : s # r => req'[s] = req[s]
        /\ req'[r].op = op /\ req'[r].on = on /\ req[r].op = "ready"
        /\ req'[r].user = req[r].user /\ req'[r].jit = req[r].jit /\ r \in InFlight
    BY <1>b, AskIs, IdleApart DEF InFlight
  <2>2. News(req'[r]) = News(req[r])
    BY <2>1 DEF News, Provisioned
  <2>3. CountsOn(req[r])
    BY <2>1 DEF Foundings
  <2>4. CountsOn(req'[r])
    BY <1>b, <2>1, <2>2, <2>3 DEF CountsOn
  <2> QED
    BY <1>a, <2>1, <2>2, <2>4 DEF Foundings
<1>n. ASSUME NEW q, Advance(r, q), req[r] = Idle, q.op \notin {"create_org", "join"},
             q.jit = None
      PROVE  Foundings'
  <2>1. /\ UNCHANGED accountVars /\ \A s \in Requests : s # r => req'[s] = req[s]
        /\ req'[r] = q
    BY <1>n, AdvanceIs
  <2>2. News(q) = {}
    BY <1>n DEF News, Provisioned
  <2>3. CountsOn(q)
    BY <1>n, <2>2 DEF CountsOn
  <2> QED
    BY <1>a, <2>1, <2>2, <2>3
<1>1. ASSUME NEW u \in People, SignIn(r, u) PROVE Foundings'
  BY <1>1, <1>n DEF SignIn
<1>2. ASSUME NEW k \in Keys, NEW n \in Names, UseKey(r, k, n) PROVE Foundings'
  BY <1>2, <1>n DEF UseKey
<1>3. ASSUME NEW c \in Codes, PresentCode(r, c) PROVE Foundings'
  BY <1>3, <1>n DEF PresentCode
<1>4. CASE CreateOrganization(r)
  <2>1. PICK o \in Unused : Ask(r, "create_org", o)
    BY <1>4, NewIdsUnused DEF CreateOrganization
  <2>2. MayFound(req[r])
    BY <1>4 DEF CreateOrganization
  <2>3. /\ UNCHANGED accountVars /\ \A s \in Requests : s # r => req'[s] = req[s]
        /\ req'[r].op = "create_org" /\ req'[r].on = o /\ req[r].op = "ready"
        /\ req'[r].user = req[r].user /\ req'[r].jit = req[r].jit /\ r \in InFlight
        /\ req[r].user \in People
    BY <2>1, AskIs, IdleApart DEF InFlight
  <2>4. News(req'[r]) = News(req[r]) \cup {o} /\ Provisioned(req'[r]) = Provisioned(req[r])
    BY <2>3 DEF News, Provisioned
  <2>5. CountsOn(req[r])
    BY <2>3 DEF Foundings
  <2>6. Cardinality(Founded(req[r].user) \cup Provisioned(req[r])) < MaxOwned
    <3> DEFINE S == {p \in Orgs : IsOwner(req[r].user, p)} \cup Provisioned(req[r])
               T == Founded(req[r].user) \cup Provisioned(req[r])
    <3>1. S \in SUBSET Orgs /\ T \in SUBSET S /\ Cardinality(S) < MaxOwned
      BY <2>2, <2>3, NewsAre DEF MayFound, Founded, TypeInv, TypeOK
    <3> HIDE DEF S
    <3>2. Cardinality(T) < MaxOwned
      <4> HIDE DEF T
      <4> QED
        BY <3>1, SomeOrgs, AccessAssumption
    <3> QED
      BY <3>2
  <2>7. CountsOn(req'[r])
    BY <2>1, <2>3, <2>4, <2>5, <2>6 DEF CountsOn, Unused
  <2>8. \A t \in InFlight : t # r => News(req'[r]) \cap News(req[t]) = {}
    BY <2>1, <2>3, <2>4 DEF Foundings, Unused, News, Provisioned
  <2> QED
    BY <1>a, <2>3, <2>7, <2>8
<1>5. ASSUME NEW o \in Orgs, NEW g \in Roles \ {"OWNER"}, Join(r, o, g) PROVE Foundings'
  BY <1>5, <1>b DEF Join, Operations
<1>6. ASSUME NEW op \in Operations \ {"create_org", "join"}, MembersAsk(r, op) PROVE Foundings'
  BY <1>6, <1>b DEF MembersAsk
<1> QED
  BY <1>1, <1>2, <1>3, <1>4, <1>5, <1>6, CallKinds DEF Operations

(* What commits founds nothing but what was counted.                       *)
LEMMA ProceedKeepsFoundings ==
    ASSUME TypeInv, TypeInv', SignUps, Foundings, NEW r \in Requests, Proceed(r) \/ Fail(r)
    PROVE  Foundings'
<1>u. ASSUME UNCHANGED <<founder, live, role>>
      PROVE  /\ \A u \in People, o \in Orgs : IsMember(u, o)' => IsMember(u, o) /\ o \in live'
             /\ \A u \in People, o \in live' : founder[o] = u => IsOwner(u, o)'
             /\ live' \subseteq live
  BY <1>u DEF Foundings, IsMember, IsOwner, TypeInv, TypeOK
<1>e. ASSUME End(r), UNCHANGED founder, live' \subseteq live,
             \A u \in People, o \in Orgs : IsMember(u, o)' => IsMember(u, o) /\ o \in live',
             \A u \in People, o \in live' : founder[o] = u => IsOwner(u, o)'
      PROVE  Foundings'
  <2>1. PICK S : S = {r}
    OBVIOUS
  <2>2. (\A s, t \in S : s = t) /\ (\A s \in Requests \ S : req'[s] = req[s]) /\ S \cap InFlight' = {}
    BY <1>e, <2>1, EndIs DEF InFlight
  <2>3. \A s \in S \cap InFlight' :
            /\ CountsOn(req[s])'
            /\ \A t \in InFlight : t # s => News(req[s])' \cap News(req[t]) = {}
    BY <2>2
  <2> QED
    BY <1>e, <2>2, <2>3, FoundingsAside
<1>o. ASSUME NEW op \in Operations \ {"create_org", "join"}, req[r].op \in Operations \ {"create_org"},
             req' = [req EXCEPT ![r] = [req[r] EXCEPT !.op = op]],
             UNCHANGED <<founder, live, role>>
      PROVE  Foundings'
  <2>1. PICK S : S = {r}
    OBVIOUS
  <2>2. /\ \A s \in Requests : s # r => req'[s] = req[s]
        /\ req'[r].op = op /\ req'[r].user = req[r].user /\ req'[r].jit = req[r].jit
        /\ r \in InFlight
    BY <1>o, OpIs, InFlightFits
  <2>3. (\A s, t \in S : s = t) /\ (\A s \in Requests \ S : req'[s] = req[s])
    BY <2>1, <2>2
  <2>4. CountsOn(req[r])' /\ News(req[r])' = News(req[r])
    <3>1. News(req[r])' = News(req[r])
      BY <1>o, <2>2 DEF News, Provisioned
    <3>2. CountsOn(req[r])
      BY <2>2 DEF Foundings
    <3>3. OrgsOf(req[r].user)' = OrgsOf(req[r].user)
      BY <1>o, <2>2 DEF OrgsOf, IsMember
    <3> QED
      BY <1>o, <2>2, <3>1, <3>2, <3>3 DEF CountsOn
  <2>5. \A s \in S \cap InFlight' :
            /\ CountsOn(req[s])'
            /\ \A t \in InFlight : t # s => News(req[s])' \cap News(req[t]) = {}
    BY <2>1, <2>2, <2>4 DEF Foundings
  <2> QED
    BY <1>o, <1>u, <2>3, <2>5, FoundingsAside
<1>f. ASSUME req[r].op \in Operations
      PROVE  r \in InFlight /\ req[r] \in Request /\ WhoFits(req[r]) /\ WhatFits(req[r].op, req[r].on)
  BY <1>f, InFlightFits
<1>s. ASSUME End(r), UNCHANGED accountVars PROVE Foundings'
  BY <1>e, <1>s, <1>u DEF accountVars
<1>d. ASSUME Undo(r) PROVE Foundings'
  BY <1>d, <1>e, <1>u DEF Undo
<1>1. CASE Welcome(r)
  <2>1. req' = [req EXCEPT ![r] = [req[r] EXCEPT !.op = "ready"]] /\ req[r].op = "welcome"
        /\ UNCHANGED <<founder, live, role>>
    BY <1>1 DEF Welcome
  <2> QED
    BY <2>1, <1>o DEF Operations
<1>2. CASE Finish(r)
  <2>1. News(req[r]) = Provisioned(req[r])
    BY <1>2 DEF Finish, News
  <2>2. r \in InFlight /\ req[r].user \in People /\ req[r].op \notin Waiting
    BY <1>2, <1>f DEF Finish, Operations, Exchange, Waiting, WhoFits
  <2>3. CommitOrgs(req[r], News(req[r]), role) /\ End(r)
    BY <1>2, <2>1 DEF Finish, CommitSignIn
  <2> QED
    BY <2>2, <2>3, FoundsEnough
<1>3. CASE CommitCreateOrganization(r)
  <2>1. News(req[r]) = Provisioned(req[r]) \cup {req[r].on}
    BY <1>3 DEF CommitCreateOrganization, News
  <2>2. r \in InFlight /\ req[r].user \in People /\ req[r].op \notin Waiting
    BY <1>3, <1>f DEF CommitCreateOrganization, Operations, Exchange, Waiting, WhoFits
  <2>3. CommitOrgs(req[r], News(req[r]), role) /\ End(r)
    BY <1>3, <2>1 DEF CommitCreateOrganization
  <2> QED
    BY <2>2, <2>3, FoundsEnough
<1>4. CASE CommitJoin(r)
  <2> DEFINE roles == [role EXCEPT ![req[r].user][req[r].on[1]] = req[r].on[2]]
  <2>1. News(req[r]) = Provisioned(req[r])
    BY <1>4 DEF CommitJoin, News
  <2>2. /\ r \in InFlight /\ req[r].user \in People /\ req[r].on \in Orgs \X (Roles \ {"OWNER"})
        /\ req[r].op \notin Waiting
    BY <1>4, <1>f DEF CommitJoin, Operations, Exchange, Waiting, WhoFits, WhatFits
  <2>3. CommitOrgs(req[r], News(req[r]), roles) /\ End(r)
    BY <1>4, <2>1 DEF CommitJoin
  <2>4. req[r].on[1] \in live /\ ~IsMember(req[r].user, req[r].on[1])
    BY <1>4, <2>2 DEF CommitJoin, Accepted, Foundings, CountsOn
  <2>5. \A u \in People, o \in Orgs :
            \/ roles[u][o] = role[u][o]
            \/ u = req[r].user /\ o = req[r].on[1] /\ roles[u][o] = req[r].on[2]
    BY <2>2 DEF TypeInv, TypeOK
  <2>6. \A u \in People, o \in Orgs :
            \/ roles[u][o] = role[u][o]
            \/ u = req[r].user /\ o \in live /\ ~IsMember(u, o) /\ roles[u][o] \in Roles
    BY <2>2, <2>4, <2>5
  <2> HIDE DEF roles
  <2> QED
    BY <2>2, <2>3, <2>6, FoundsEnough
<1>5. CASE CommitDeleteOrganization(r)
  <2>1. \A u \in People, p \in Orgs :
            role'[u][p] = IF p = req[r].on THEN "NONE" ELSE role[u][p]
    BY <1>5 DEF CommitDeleteOrganization, TypeInv, TypeOK
  <2>2. live' = live \ {req[r].on} /\ UNCHANGED founder /\ End(r)
    BY <1>5 DEF CommitDeleteOrganization
  <2>3. /\ \A u \in People, p \in Orgs : IsMember(u, p)' => IsMember(u, p) /\ p \in live'
        /\ \A u \in People, p \in live' : founder[p] = u => IsOwner(u, p)'
    BY <2>1, <2>2 DEF Foundings, IsMember, IsOwner, Roles, TypeInv, TypeOK
  <2> QED
    BY <2>2, <2>3, <1>e
<1>6. CASE CommitCreateProject(r) \/ CommitUpdateProject(r) \/ CommitDeleteProject(r)
  BY <1>6, <1>s DEF CommitCreateProject, CommitUpdateProject, CommitDeleteProject
<1>7. ASSUME NEW k \in Keys, CommitKey(r, k) \/ MintKey(r, k) PROVE Foundings'
  BY <1>7, <1>s DEF CommitKey, MintKey
<1>8. CASE CommitDropKey(r) \/ CommitIssueCode(r)
  BY <1>8, <1>s DEF CommitDropKey, CommitIssueCode
<1>9. CASE Consume(r)
  <2>1. CASE code[req[r].on].state = "live"
    <3>1. req' = [req EXCEPT ![r].op = "consumed"] /\ UNCHANGED accountVars /\ req[r].op = "presented"
      BY <1>9, <2>1, Zenon DEF Consume
    <3>2. req' = [req EXCEPT ![r] = [req[r] EXCEPT !.op = "consumed"]]
      BY <3>1
    <3> QED
      BY <3>1, <3>2, <1>o DEF Operations, Exchange, accountVars
  <2> QED
    BY <1>9, <2>1, <1>d DEF Consume
<1>10. CASE Recheck(r)
  <2>1. CASE Advance(r, [req[r] EXCEPT !.op = "mint"])
    BY <1>10, <2>1, <1>o DEF Recheck, Advance, Operations, Exchange, accountVars
  <2> QED
    BY <1>10, <2>1, <1>d DEF Recheck
<1>11. CASE PoolTimesOut(r) \/ ConstraintFails(r) \/ Fail(r)
  BY <1>11, <1>d DEF PoolTimesOut, ConstraintFails, Fail
<1>12. CASE UpsertUser(r) /\ ~Undo(r)
  <2>1. PICK q \in Request :
            /\ Advance(r, q) /\ q.op \in {"welcome", "ready"} /\ req[r].op \in Waiting
            /\ q.jit # None => q.jit \in Unused /\ OrgsOf(q.user) = {}
    BY <1>12, UpsertIs
  <2>2. /\ UNCHANGED <<founder, live, role>> /\ req'[r] = q
        /\ \A s \in Requests : s # r => req'[s] = req[s]
    BY <2>1, AdvanceIs DEF accountVars
  <2>3. News(q) = {q.jit} \ {None} /\ News(req[r])' = News(q)
    BY <2>1, <2>2 DEF News, Provisioned
  <2>4. CountsOn(req[r])'
    <3>1. \A o \in News(q) : founder[o] = None
      BY <2>1, <2>3 DEF Unused
    <3>2. OrgsOf(q.user)' = OrgsOf(q.user)
      BY <2>2 DEF OrgsOf, IsMember
    <3> QED
      BY <2>1, <2>2, <2>3, <3>1, <3>2 DEF CountsOn
  <2>5. \A t \in InFlight : News(q) \cap News(req[t]) = {}
    BY <2>1, <2>3 DEF Unused, News, Provisioned
  <2>6. PICK S : S = {r}
    OBVIOUS
  <2>7. /\ \A s, t \in S : s = t
        /\ \A s \in Requests \ S : req'[s] = req[s]
        /\ \A s \in S \cap InFlight' :
               /\ CountsOn(req[s])'
               /\ \A t \in InFlight : t # s => News(req[s])' \cap News(req[t]) = {}
    BY <2>2, <2>3, <2>4, <2>5, <2>6
  <2> QED
    BY <1>u, <2>2, <2>7, FoundingsAside
<1> QED
  BY <1>1, <1>2, <1>3, <1>4, <1>5, <1>6, <1>7, <1>8, <1>9, <1>10, <1>11, <1>12, <1>d DEF Proceed

(* Foundings is inductive, given the types and SignUps.                    *)
LEMMA NextKeepsFoundings ==
    TypeInv /\ SignUps /\ Foundings /\ [Next]_vars => Foundings'
<1> SUFFICES ASSUME TypeInv, SignUps, Foundings, [Next]_vars PROVE Foundings'
  OBVIOUS
<1>0. TypeInv'
  BY NextKeepsType
<1>1. ASSUME NEW r \in Requests, Call(r) \/ Proceed(r) \/ Fail(r) PROVE Foundings'
  BY <1>0, <1>1, CallKeepsFoundings, ProceedKeepsFoundings
<1>2. ASSUME UNCHANGED <<founder, live, req>>,
             \A u \in People, o \in Orgs : IsMember(u, o)' => IsMember(u, o),
             \A u \in People, o \in live : founder[o] = u => IsOwner(u, o)'
      PROVE  Foundings'
  <2>1. PICK S : S = {}
    OBVIOUS
  <2>2. (\A s, t \in S : s = t) /\ (\A s \in Requests \ S : req'[s] = req[s])
    BY <1>2, <2>1
  <2>3. \A s \in S \cap InFlight' :
            /\ CountsOn(req[s])'
            /\ \A t \in InFlight : t # s => News(req[s])' \cap News(req[t]) = {}
    BY <2>1
  <2>4. /\ live' \subseteq live
        /\ \A u \in People, o \in Orgs : IsMember(u, o)' => IsMember(u, o) /\ o \in live'
        /\ \A u \in People, o \in live' : founder[o] = u => IsOwner(u, o)'
    BY <1>2 DEF Foundings
  <2> QED
    BY <1>0, <1>2, <2>2, <2>3, <2>4, FoundingsAside
<1>3. ASSUME NEW u \in People, NEW o \in Orgs, NEW g \in Roles \cup {"NONE"},
             MemberChanges(u, o, g)
      PROVE  Foundings'
  <2>1. \A v \in People, p \in Orgs : role'[v][p] = role[v][p] \/ (v = u /\ p = o)
    BY <1>3 DEF MemberChanges, TypeInv, TypeOK
  <2>2. IsMember(u, o) /\ ~IsOwner(u, o) /\ UNCHANGED <<founder, live, req>>
    BY <1>3 DEF MemberChanges
  <2>3. \A v \in People, p \in Orgs : IsMember(v, p)' => IsMember(v, p)
    BY <2>1, <2>2 DEF IsMember
  <2>4. \A v \in People, p \in live : founder[p] = v => IsOwner(v, p)'
    BY <2>1, <2>2 DEF Foundings, IsOwner, TypeInv, TypeOK
  <2> QED
    BY <1>2, <2>2, <2>3, <2>4
<1>4. ASSUME UNCHANGED <<accountVars, req>> PROVE Foundings'
  <2>1. UNCHANGED <<founder, live, role, req>>
    BY <1>4 DEF accountVars
  <2>2. \A v \in People, p \in Orgs : IsMember(v, p)' => IsMember(v, p)
    BY <2>1 DEF IsMember
  <2>3. \A v \in People, p \in live : founder[p] = v => IsOwner(v, p)'
    BY <2>1 DEF Foundings, IsOwner, TypeInv, TypeOK
  <2> QED
    BY <1>2, <2>1, <2>2, <2>3
<1> QED
  BY <1>1, <1>3, <1>4 DEF Next, Step, KeyExpires, CodeExpires, vars

(* Only the lock of his row keeps requests of a user from counting the     *)
(* same organizations: nobody owns more of those he founded than he may.   *)
THEOREM FoundedCorrect == Spec => []FoundedWithinLimit
<1>1. Init => SignUps /\ Foundings
  <2>1. Init => SignUps
    BY DEF Init, SignUps, WelcomedOnce, InFlight, IsMember, Roles
  <2>2. Init => Foundings
    <3> SUFFICES ASSUME Init PROVE Foundings
      OBVIOUS
    <3>1. live = {} /\ InFlight = {} /\ \A u \in People, o \in Orgs : ~IsMember(u, o)
      BY DEF Init, InFlight, IsMember, Roles
    <3>2. \A u \in People : Founded(u) = {}
      BY <3>1 DEF Founded
    <3>3. FoundedWithinLimit
      BY <3>2, FS_EmptySet, LimitIs, AccessAssumption
    <3> QED
      BY <3>1, <3>3 DEF Foundings
  <2> QED
    BY <2>1, <2>2
<1>2. Foundings => FoundedWithinLimit
  BY DEF Foundings
<1> QED
  BY <1>1, <1>2, InitTyped, NextKeepsType, NextKeepsSignUps, NextKeepsFoundings, PTL DEF Spec

-----------------------------------------------------------------------------
(* Keys are made for members.                                              *)

(* Who asks for a key is a member, and a key it replaces is active.        *)
HasGrounds(q) ==
    q.op \in {"key", "mint"} =>
        /\ IsMember(AskedBy(q), AskedFor(q))
        /\ Parent(q) # None => key[Parent(q)].state = "active"

(* So it is until another commit overtakes the request.                    *)
Grounds == \A r \in InFlight \ stale : HasGrounds(req[r])

\* of a code only the state changes once it has a row
CodesKeep ==
    \A c \in Codes : code[c] # NoCode =>
        code'[c].by = code[c].by /\ code'[c].project = code[c].project

(* Grounds stay where a request is as before, or has grounds of its own.   *)
LEMMA GroundsStay ==
    ASSUME TypeInv, TypeInv', Grounds, Watch, CodesKeep,
           \A s \in Requests : req'[s] = req[s] \/ HasGrounds(req[s])'
    PROVE  Grounds'
<1> SUFFICES ASSUME NEW s \in InFlight', s \notin stale', req'[s].op \in {"key", "mint"}
             PROVE  HasGrounds(req[s])'
  BY DEF Grounds, HasGrounds
<1>0. s \in Requests /\ req'[s] # Idle
  BY DEF InFlight
<1>1. CASE req'[s] = req[s]
  <2>1. s \in InFlight /\ s \notin stale /\ ~Overtaken(req[s])
    BY <1>0, <1>1 DEF Watch, InFlight
  <2>2. HasGrounds(req[s]) /\ req[s].op \in {"key", "mint"}
    BY <1>1, <2>1 DEF Grounds
  <2>3. PICK q : q = req[s]
    OBVIOUS
  <2>4. /\ WhatFits(q.op, q.on)
        /\ q.op = "mint" => q.on \in Codes /\ code[q.on] # NoCode
    <3>1. q.op \in Operations /\ req[s] = q
      BY <2>2, <2>3 DEF Operations, Exchange
    <3>2. WhatFits(q.op, q.on) /\ (q.op \in Exchange => code[q.on] # NoCode)
      BY <1>0, <3>1, InFlightFits
    <3> QED
      BY <3>2 DEF Exchange, WhatFits
  <2>5. AskedBy(q)' = AskedBy(q) /\ AskedFor(q)' = AskedFor(q) /\ Parent(q)' = Parent(q)
    BY <2>4 DEF AskedBy, AskedFor, Parent, CodesKeep
  <2>6. /\ role'[AskedBy(q)][AskedFor(q)] = role[AskedBy(q)][AskedFor(q)]
        /\ Parent(q) # None => key'[Parent(q)] = key[Parent(q)]
    BY <2>1, <2>2, <2>3 DEF Overtaken
  <2>7. HasGrounds(q)'
    BY <2>2, <2>3, <2>5, <2>6 DEF HasGrounds, IsMember
  <2> QED
    BY <1>1, <2>3, <2>7
<1> QED
  BY <1>0, <1>1

(* What clients ask for.                                                   *)
LEMMA CallKeepsGrounds ==
    ASSUME TypeInv, TypeInv', Grounds, Watch, NEW r \in Requests, Call(r)
    PROVE  Grounds'
<1>a. ASSUME NEW op, NEW on, Ask(r, op, on),
             op = "key" => /\ IsMember(req[r].user, on[1])
                           /\ on[3] # None => key[on[3]].state = "active",
             op # "mint"
      PROVE  Grounds'
  <2>1. /\ UNCHANGED <<accountVars, key, code>>
        /\ \A s \in Requests : s # r => req'[s] = req[s]
        /\ req'[r].op = op /\ req'[r].on = on /\ req'[r].user = req[r].user
    BY <1>a, AskIs
  <2>2. HasGrounds(req[r])'
    BY <1>a, <2>1 DEF HasGrounds, AskedBy, AskedFor, Parent, IsMember, accountVars
  <2>3. CodesKeep
    BY <2>1 DEF CodesKeep
  <2> QED
    BY <2>1, <2>2, <2>3, GroundsStay
<1>b. ASSUME NEW q, Advance(r, q), q.op \notin {"key", "mint"} PROVE Grounds'
  <2>1. UNCHANGED code /\ req'[r] = q /\ \A s \in Requests : s # r => req'[s] = req[s]
    BY <1>b, AdvanceIs
  <2>2. HasGrounds(req[r])'
    BY <1>b, <2>1 DEF HasGrounds
  <2>3. CodesKeep
    BY <2>1 DEF CodesKeep
  <2> QED
    BY <2>1, <2>2, <2>3, GroundsStay
<1>1. ASSUME NEW u \in People, SignIn(r, u) PROVE Grounds'
  BY <1>1, <1>b DEF SignIn
<1>2. ASSUME NEW k \in Keys, NEW n \in Names, UseKey(r, k, n) PROVE Grounds'
  BY <1>2, <1>b DEF UseKey
<1>3. ASSUME NEW c \in Codes, PresentCode(r, c) PROVE Grounds'
  BY <1>3, <1>b DEF PresentCode
<1>4. CASE CreateOrganization(r)
  BY <1>4, <1>a DEF CreateOrganization
<1>5. ASSUME NEW o \in Orgs, NEW g \in Roles \ {"OWNER"}, Join(r, o, g) PROVE Grounds'
  BY <1>5, <1>a DEF Join
<1>6. ASSUME NEW op \in {"delete_org", "project", "update", "delete_project", "drop"}, MembersAsk(r, op)
      PROVE  Grounds'
  BY <1>6, <1>a DEF MembersAsk
<1>7. ASSUME NEW o \in Orgs, NEW life \in {"never", "running"}, CreateKey(r, o, life) PROVE Grounds'
  BY <1>7, <1>a DEF CreateKey
<1>8. ASSUME NEW k \in Keys, RotateKey(r, k) PROVE Grounds'
  <2>1. Ask(r, "key", <<key[k].org, "running", k>>) /\ IsMember(req[r].user, key[k].org)
        /\ key[k].state = "active"
    BY <1>8 DEF RotateKey, IsAdmin, IsMember, Roles
  <2> QED
    BY <2>1, <1>a
<1>9. ASSUME NEW p \in ProjectIds, NEW c \in Codes, IssueCode(r, p, c) PROVE Grounds'
  BY <1>9, <1>a DEF IssueCode
<1> QED
  BY <1>1, <1>2, <1>3, <1>4, <1>5, <1>6, <1>7, <1>8, <1>9, CallKinds

(* What the event loop and the database do.                                *)
LEMMA ProceedKeepsGrounds ==
    ASSUME TypeInv, TypeInv', Exchanges, Grounds, Watch, NEW r \in Requests, Proceed(r) \/ Fail(r)
    PROVE  Grounds'
<1>e. ASSUME End(r), CodesKeep PROVE Grounds'
  <2>1. req'[r].op = "idle" /\ \A s \in Requests : s # r => req'[s] = req[s]
    BY <1>e, EndIs
  <2>2. HasGrounds(req[r])'
    BY <2>1 DEF HasGrounds
  <2> QED
    BY <1>e, <2>1, <2>2, GroundsStay
<1>k. UNCHANGED code => CodesKeep
  BY DEF CodesKeep
<1>s. ASSUME End(r), UNCHANGED code PROVE Grounds'
  BY <1>e, <1>k, <1>s
<1>d. ASSUME Undo(r) PROVE Grounds'
  BY <1>d, <1>s DEF Undo
<1>o. ASSUME NEW op, req[r].op \in Operations, CodesKeep,
             req' = [req EXCEPT ![r] = [req[r] EXCEPT !.op = op]],
             HasGrounds(req[r])'
      PROVE  Grounds'
  <2>1. \A s \in Requests : s # r => req'[s] = req[s]
    BY <1>o, OpIs
  <2> QED
    BY <1>o, <2>1, GroundsStay
<1>g. ASSUME End(r), \A c \in Codes : \/ code'[c] = code[c]
                                      \/ code[c] # NoCode /\ code'[c] = [code[c] EXCEPT !.state = "gone"]
      PROVE  Grounds'
  <2>1. CodesKeep
    <3> SUFFICES ASSUME NEW c \in Codes, code[c] # NoCode
                 PROVE  code'[c].by = code[c].by /\ code'[c].project = code[c].project
      BY DEF CodesKeep
    <3>1. code[c] \in CodeRows
      BY DEF TypeInv, TypeOK
    <3>2. code'[c] = code[c] \/ code'[c] = [code[c] EXCEPT !.state = "gone"]
      BY <1>g
    <3> QED
      BY <3>1, <3>2 DEF CodeRows
  <2> QED
    BY <1>e, <1>g, <2>1
<1>1. CASE Welcome(r)
  <2>1. req' = [req EXCEPT ![r] = [req[r] EXCEPT !.op = "ready"]] /\ UNCHANGED code
        /\ req[r].op \in Operations
    BY <1>1 DEF Welcome, Operations
  <2>2. req'[r].op = "ready"
    BY <2>1, OpIs
  <2>3. HasGrounds(req[r])'
    BY <2>2 DEF HasGrounds
  <2> QED
    BY <1>k, <1>o, <2>1, <2>3
<1>2. CASE CommitDeleteOrganization(r)
  BY <1>2, <1>g DEF CommitDeleteOrganization
<1>3. CASE CommitDeleteProject(r)
  BY <1>3, <1>g DEF CommitDeleteProject
<1>4. CASE CommitIssueCode(r)
  <2>1. req[r].op = "issue" /\ req[r].on[2] \in Codes
    BY <1>4, InFlightFits DEF CommitIssueCode, WhatFits, Operations
  <2>2. code[req[r].on[2]] = NoCode
    BY <2>1 DEF Exchanges
  <2>3. \A c \in Codes : c # req[r].on[2] => code'[c] = code[c]
    BY <1>4 DEF CommitIssueCode, TypeInv, TypeOK
  <2>4. CodesKeep
    BY <2>2, <2>3 DEF CodesKeep
  <2> QED
    BY <1>4, <1>e, <2>4 DEF CommitIssueCode
<1>5. CASE Consume(r) /\ code[req[r].on].state = "live"
  <2> DEFINE c == req[r].on
  <2>1. c \in Codes /\ req[r].op \in Operations
    BY <1>5, InFlightFits DEF Consume, WhatFits, Operations, Exchange
  <2>2. code' = [code EXCEPT ![c].state = "gone"] /\ req' = [req EXCEPT ![r].op = "consumed"]
    BY <1>5, Zenon DEF Consume
  <2>3. req' = [req EXCEPT ![r] = [req[r] EXCEPT !.op = "consumed"]]
    BY <2>2
  <2>4. req'[r].op = "consumed"
    BY <2>1, <2>3, OpIs
  <2>5. CodesKeep
    BY <2>1, <2>2 DEF CodesKeep, TypeInv, TypeOK, CodeRows
  <2>6. HasGrounds(req[r])'
    BY <2>4 DEF HasGrounds
  <2> QED
    BY <1>o, <2>1, <2>3, <2>5, <2>6
<1>6. CASE Consume(r) /\ code[req[r].on].state # "live"
  BY <1>6, <1>d DEF Consume
<1>7. CASE Recheck(r)
  <2>1. CASE Advance(r, [req[r] EXCEPT !.op = "mint"]) /\ IsMember(code[req[r].on].by, code[req[r].on].project[1])
    <3>1. req' = [req EXCEPT ![r] = [req[r] EXCEPT !.op = "mint"]] /\ UNCHANGED <<code, role>>
          /\ req[r].op \in Operations
      BY <1>7, <2>1 DEF Recheck, Advance, Operations, Exchange, accountVars
    <3>2. req'[r].op = "mint" /\ req'[r].on = req[r].on
      BY <3>1, OpIs
    <3>3. HasGrounds(req[r])'
      BY <2>1, <3>1, <3>2 DEF HasGrounds, AskedBy, AskedFor, Parent, IsMember
    <3> QED
      BY <1>k, <1>o, <3>1, <3>3
  <2> QED
    BY <1>7, <2>1, <1>d DEF Recheck
<1>8. ASSUME NEW k \in Keys, CommitKey(r, k) \/ MintKey(r, k) PROVE Grounds'
  BY <1>8, <1>s DEF CommitKey, MintKey
<1>9. CASE CommitCreateProject(r) \/ CommitUpdateProject(r) \/ CommitDropKey(r)
  BY <1>9, <1>s DEF CommitCreateProject, CommitUpdateProject, CommitDropKey
<1>10. CASE Finish(r) \/ CommitCreateOrganization(r) \/ CommitJoin(r)
  BY <1>10, <1>s DEF Finish, CommitCreateOrganization, CommitJoin
<1>11. CASE PoolTimesOut(r) \/ ConstraintFails(r) \/ Fail(r)
  BY <1>11, <1>d DEF PoolTimesOut, ConstraintFails, Fail
<1>12. CASE UpsertUser(r) /\ ~Undo(r)
  <2>1. PICK q \in Request : Advance(r, q) /\ q.op \in {"welcome", "ready"}
    BY <1>12, UpsertIs
  <2>2. UNCHANGED code /\ req'[r] = q /\ \A s \in Requests : s # r => req'[s] = req[s]
    BY <2>1, AdvanceIs
  <2>3. HasGrounds(req[r])'
    BY <2>1, <2>2 DEF HasGrounds
  <2> QED
    BY <1>k, <2>2, <2>3, GroundsStay
<1> QED
  BY <1>1, <1>2, <1>3, <1>4, <1>5, <1>6, <1>7, <1>8, <1>9, <1>10, <1>11, <1>12, <1>d DEF Proceed

(* A request that makes a key keeps its grounds, or is marked stale.       *)
LEMMA NextKeepsGrounds == TypeInv /\ Exchanges /\ Grounds /\ [Next]_vars => Grounds'
<1> SUFFICES ASSUME TypeInv, Exchanges, Grounds, [Next]_vars PROVE Grounds'
  OBVIOUS
<1>0. TypeInv'
  BY NextKeepsType
<1>1. ASSUME NEW r \in Requests, Call(r) \/ Proceed(r) \/ Fail(r), Watch PROVE Grounds'
  BY <1>0, <1>1, CallKeepsGrounds, ProceedKeepsGrounds
<1>2. ASSUME UNCHANGED req, CodesKeep, Watch PROVE Grounds'
  BY <1>0, <1>2, GroundsStay
<1>3. ASSUME NEW u \in People, NEW o \in Orgs, NEW g \in Roles \cup {"NONE"},
             MemberChanges(u, o, g), Watch
      PROVE  Grounds'
  BY <1>2, <1>3 DEF MemberChanges, CodesKeep
<1>4. ASSUME NEW k \in Keys, KeyExpires(k), Watch PROVE Grounds'
  BY <1>2, <1>4 DEF KeyExpires, CodesKeep
<1>5. ASSUME NEW c \in Codes, CodeExpires(c), Watch PROVE Grounds'
  <2>1. CodesKeep
    BY <1>5 DEF CodeExpires, CodesKeep, TypeInv, TypeOK, CodeRows
  <2> QED
    BY <1>2, <1>5, <2>1 DEF CodeExpires
<1>6. CASE UNCHANGED vars
  BY <1>6 DEF vars, accountVars, Grounds, HasGrounds, InFlight, AskedBy, AskedFor, Parent, IsMember
<1> QED
  BY <1>1, <1>3, <1>4, <1>5, <1>6 DEF Next, Step

(* A key is committed for a member, and out of a key that is active,       *)
(* unless a removal or a revocation came between the look and the commit.  *)
THEOREM KeysCorrect == Spec => KeysForMembers
<1>1. Init => Exchanges /\ Grounds
  BY DEF Init, Exchanges, Exchanging, Idle, OneKeyPerCode, Grounds, InFlight
<1>2. Grounds /\ [Next]_vars =>
        [\A r \in InFlight \ stale :
            req[r].op \in {"key", "mint"} /\ key' # key /\ req'[r] = Idle =>
                /\ IsMember(AskedBy(req[r]), AskedFor(req[r]))
                /\ Parent(req[r]) # None => key[Parent(req[r])].state = "active"]_vars
  BY DEF Grounds, HasGrounds
<1> QED
  BY <1>1, <1>2, InitTyped, NextKeepsType, NextKeepsCodes, NextKeepsGrounds, PTL
  DEF Spec, KeysForMembers

===============================================================================
