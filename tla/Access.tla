-------------------------------- MODULE Access --------------------------------
(***************************************************************************)
(* Who gets in: users and their first organization, projects, API keys and *)
(* the codes the command line exchanges for a key (dependencies.py,        *)
(* identity_service.py, cli_service.py and their repositories).            *)
(*                                                                         *)
(* A request is one transaction on one pooled connection; FastAPI sends    *)
(* its answer before get_db_session commits.  What it read may be          *)
(* overtaken by then; the constraints of the tables refuse the commit, and *)
(* everything the request wrote goes, the user it signed up included.  All *)
(* requests of a user are serialized: upsert_user inserts or updates the   *)
(* row, which stays locked until the end; those that wait for it have      *)
(* their connections already.  Requests with an API key or a code lock no  *)
(* user.  Members come and go by the requests of Membership.               *)
(***************************************************************************)
EXTENDS Naturals, FiniteSets

CONSTANTS
    People,      \* identities the provider vouches for
    Orgs,        \* ids of organizations; all ids bound how many are ever made
    Slots,       \* project ids in an organization, Onboarding the first of them
    Names,       \* names a project can have
    Onboarding,  \* slot and name of the project every organization starts with
    Keys,        \* ids of API keys
    Codes,       \* codes for the command line
    Requests,    \* requests that can be in flight together
    MaxOwned,    \* MAX_OWNED_ORGS
    Pool,        \* connections: pool_size + max_overflow
    MaxAborts,   \* sign-ups of a person that come to nothing before no other begins
    Workloads,   \* sets of operations that clients mix
    None         \* no organization, no person

ASSUME AccessAssumption ==
    /\ IsFiniteSet(Orgs)
    /\ IsFiniteSet(Requests)
    /\ Onboarding \in Slots \cap Names
    /\ None \notin People \cup Orgs
    /\ MaxOwned \in Nat \ {0}
    /\ Pool \in Nat \ {0}
    /\ MaxAborts \in Nat

VARIABLES
    users,     \* people with a committed row in users
    welcomes,  \* sign-up jobs (welcome, follow-up, CRM) enqueued for a person
    aborted,   \* history: sign-ups rolled back after their jobs were enqueued
    founder,   \* who created an organization; None: not created yet
    live,      \* organizations that exist
    role,      \* MembershipModel.role, or NONE without a row
    project,   \* name of a project; free: not created yet, gone: deleted
    key,       \* rows of api_keys
    code,      \* rows of cli_auth_codes
    minted,    \* history: keys that exchanges of a code have committed
    req,       \* the requests in flight
    stale,     \* requests whose findings another commit has overtaken
    workload   \* the operations that clients use in this behaviour

accountVars == <<users, welcomes, aborted, founder, live, role>>
vars == <<accountVars, project, key, code, minted, req, stale, workload>>

Roles == {"OWNER", "ADMIN", "MEMBER"}
ProjectIds == Orgs \X Slots

Idle == [op |-> "idle"]
NoKey == [state |-> "free"]
NoCode == [state |-> "free"]

Init ==
    /\ users = {}
    /\ welcomes = [u \in People |-> 0]
    /\ aborted = [u \in People |-> 0]
    /\ founder = [o \in Orgs |-> None]
    /\ live = {}
    /\ role = [u \in People |-> [o \in Orgs |-> "NONE"]]
    /\ project = [p \in ProjectIds |-> "free"]
    /\ key = [k \in Keys |-> NoKey]
    /\ code = [c \in Codes |-> NoCode]
    /\ minted = [c \in Codes |-> 0]
    /\ req = [r \in Requests |-> Idle]
    /\ stale = {}
    /\ workload \in Workloads

InFlight == {r \in Requests : req[r] # Idle}

\* exchange commits in its middle, which gives the connection back
Connected == {r \in InFlight : req[r].op # "consumed"}
HasConnection == Cardinality(Connected) < Pool

\* the row of the user is to be inserted or updated, and may be locked
Waiting == {"insert", "lock"}

SignedIn(u) == \E r \in InFlight : req[r].user = u /\ req[r].op \notin Waiting

\* an uncommitted insert has its id too
Unused == {o \in Orgs : /\ founder[o] = None
                        /\ \A r \in InFlight : o \notin {req[r].jit, req[r].on}}

\* one of them as good as another
NewIds == IF Unused = {} THEN {} ELSE {CHOOSE o \in Unused : TRUE}

IsMember(u, o) == role[u][o] \in Roles
IsAdmin(u, o) == role[u][o] \in {"OWNER", "ADMIN"}
IsOwner(u, o) == role[u][o] = "OWNER"

OrgsOf(u) == {o \in Orgs : IsMember(u, o)}
Named(o, n) == \E s \in Slots : project[<<o, s>>] = n
FreeSlots(o) == {s \in Slots : project[<<o, s>>] = "free"}

-----------------------------------------------------------------------------
(* Transactions *)

(* The row of the user, and the organization made for one who had none,    *)
(* are committed with whatever else the request did.                       *)
CommitUser(q) ==
    /\ users' = users \cup ({q.user} \ {None})
    /\ UNCHANGED <<welcomes, aborted>>

(* create_organization for q.user: news are the ids of what is new, roles  *)
(* the memberships besides.                                                *)
CommitOrgs(q, news, roles) ==
    /\ founder' = [o \in Orgs |-> IF o \in news THEN q.user ELSE founder[o]]
    /\ live' = live \cup news
    /\ role' = [u \in People |-> [o \in Orgs |->
                  IF u = q.user /\ o \in news THEN "OWNER" ELSE roles[u][o]]]
    /\ project' = [p \in ProjectIds |->
                     IF p[1] \in news /\ p[2] = Onboarding THEN Onboarding ELSE project[p]]

Provisioned(q) == {q.jit} \ {None}

\* nothing of the tables but what the user's sign-in needs
CommitSignIn(q) == CommitUser(q) /\ CommitOrgs(q, Provisioned(q), role)

End(r) == req' = [req EXCEPT ![r] = Idle]

(* What the constraints of the tables demand of a commit: the rows it      *)
(* refers to are there, a name is given to one project, and no row refers  *)
(* to an organization that is deleted but those the deletion has loaded.   *)
Accepted(r) ==
    LET q == req[r]
    IN  /\ q.op \in {"join", "project", "key"} => q.on[1] \in live
        /\ q.op = "project" => ~Named(q.on[1], q.on[2]) /\ FreeSlots(q.on[1]) # {}
        /\ q.op = "update" => project[q.on[1]] \in {"gone", q.on[2]} \/ ~Named(q.on[1][1], q.on[2])
        /\ q.op = "issue" => project[q.on[1]] \in Names
        /\ q.op = "mint" => code[q.on].project[1] \in live
        /\ q.op = "delete_org" => r \notin stale

(* Nothing of the transaction is kept; jobs enqueued meanwhile are.        *)
Undo(r) ==
    /\ aborted' = IF req[r].new /\ req[r].op # "welcome"
                  THEN [aborted EXCEPT ![req[r].user] = @ + 1] ELSE aborted
    /\ End(r)
    /\ UNCHANGED <<users, welcomes, founder, live, role, project, key, code, minted>>

Advance(r, q) ==
    /\ req' = [req EXCEPT ![r] = q]
    /\ UNCHANGED <<accountVars, project, key, code, minted>>

-----------------------------------------------------------------------------
(* _resolve_jwt *)

(* The token is good.  The SELECT of upsert_user takes the connection, and *)
(* what it finds decides whether the row is inserted or updated.  Clients  *)
(* send first requests together where the workload has such bursts.        *)
SignIn(r, u) ==
    /\ req[r] = Idle
    /\ HasConnection
    /\ u \notin users =>
          /\ aborted[u] < MaxAborts
          /\ "burst" \in workload \/ \A s \in InFlight : req[s].user # u
    /\ Advance(r, [op |-> IF u \in users THEN "lock" ELSE "insert", user |-> u,
                   new |-> FALSE, jit |-> None, on |-> None])

(* Who belongs to no organization gets one.  A request that names another  *)
(* one's organization or project is refused and changes nothing.           *)
Provision(r, new) ==
    \E jit \in IF OrgsOf(req[r].user) = {} THEN NewIds ELSE {None} :
        Advance(r, [req[r] EXCEPT !.op = IF new THEN "welcome" ELSE "ready",
                                  !.new = new, !.jit = jit])

\* ids bound the organizations; a request that finds none left fails
NoIdLeft(u) == OrgsOf(u) = {} /\ Unused = {}

(* Mutant: the row of the user is left as it is, and unlocked.             *)
UpsertUnlocked(r) ==
    LET u == req[r].user
    IN  /\ req[r].op \in Waiting
        /\ IF NoIdLeft(u) THEN Undo(r) ELSE Provision(r, u \notin users)

(* Mutant: one who has not been seen in any organization is new.           *)
UpsertNewByOrg(r) ==
    LET u == req[r].user
    IN  /\ req[r].op \in Waiting
        /\ ~SignedIn(u)
        /\ IF (req[r].op = "insert" /\ u \in users) \/ NoIdLeft(u)
           THEN Undo(r) ELSE Provision(r, OrgsOf(u) = {})

(* The row is inserted or updated when no other request holds it.  An      *)
(* insert that has waited for another one's fails when that one has been   *)
(* committed, and goes ahead when it has been undone.                      *)
UpsertUser(r) ==
    LET u == req[r].user
    IN  /\ req[r].op \in Waiting
        /\ ~SignedIn(u)
        /\ IF (req[r].op = "insert" /\ u \in users) \/ NoIdLeft(u)
           THEN Undo(r) ELSE Provision(r, req[r].op = "insert")

(* The jobs of a new user are enqueued in a session of its own: it takes a *)
(* second connection, and is committed before the user is.                 *)
Welcome(r) ==
    /\ req[r].op = "welcome"
    /\ HasConnection
    /\ welcomes' = [welcomes EXCEPT ![req[r].user] = @ + 1]
    /\ req' = [req EXCEPT ![r].op = "ready"]
    /\ UNCHANGED <<users, aborted, founder, live, role, project, key, code, minted>>

(* Mutant: who waits for a connection waits until there is one.            *)
PoolNeverTimesOut(r) == FALSE /\ Undo(r)

(* QueuePool gives up after its timeout, and the request fails.            *)
PoolTimesOut(r) ==
    /\ req[r].op \in {"welcome", "consumed"}
    /\ ~HasConnection
    /\ Undo(r)

(* A request that changes none of these tables.                            *)
Finish(r) ==
    /\ req[r].op = "ready"
    /\ CommitSignIn(req[r])
    /\ End(r)
    /\ UNCHANGED <<key, code, minted>>

(* The operation uses what it is given by Ask, and commits later.          *)
Ask(r, op, on) ==
    /\ req[r].op = "ready"
    /\ Advance(r, [req[r] EXCEPT !.op = op, !.on = on])

ConstraintFails(r) == ~Accepted(r) /\ Undo(r)

(* A lost connection, a crash, a later check of another kind: a request    *)
(* may come to nothing at any time, after its answer too.                  *)
Fail(r) == req[r] # Idle /\ Undo(r)

-----------------------------------------------------------------------------
(* Organizations *)

(* count_user_owned_orgs, which sees the organization just provisioned.    *)
MayFound(q) ==
    Cardinality({o \in Orgs : IsOwner(q.user, o)} \cup Provisioned(q)) < MaxOwned

CreateOrganization(r) ==
    /\ "create_org" \in workload
    /\ req[r].op = "ready"
    /\ MayFound(req[r])
    /\ \E o \in NewIds : Ask(r, "create_org", o)

CommitCreateOrganization(r) ==
    /\ req[r].op = "create_org"
    /\ CommitUser(req[r])
    /\ CommitOrgs(req[r], Provisioned(req[r]) \cup {req[r].on}, role)
    /\ End(r)
    /\ UNCHANGED <<key, code, minted>>

DeleteOrganization(r, o) ==
    /\ "delete_org" \in workload
    /\ req[r].op = "ready"
    /\ IsOwner(req[r].user, o)
    /\ Ask(r, "delete_org", o)

(* Memberships, projects, keys, and by the database codes, go with it.     *)
CommitDeleteOrganization(r) ==
    LET o == req[r].on
    IN  /\ req[r].op = "delete_org"
        /\ Accepted(r)
        /\ live' = live \ {o}
        /\ role' = [u \in People |-> [role[u] EXCEPT ![o] = "NONE"]]
        /\ project' = [p \in ProjectIds |-> IF p[1] = o THEN "gone" ELSE project[p]]
        /\ key' = [k \in Keys |-> IF key[k] # NoKey /\ key[k].org = o
                                  THEN [key[k] EXCEPT !.state = "gone"] ELSE key[k]]
        /\ code' = [c \in Codes |-> IF code[c] # NoCode /\ code[c].project[1] = o
                                    THEN [code[c] EXCEPT !.state = "gone"] ELSE code[c]]
        /\ End(r)
        /\ UNCHANGED <<users, welcomes, aborted, founder, minted>>

(* accept_invitation, for one who was invited.                             *)
Join(r, o, g) ==
    /\ "join" \in workload
    /\ req[r].op = "ready"
    /\ o \in live
    /\ ~IsMember(req[r].user, o)
    /\ Ask(r, "join", <<o, g>>)

CommitJoin(r) ==
    LET q == req[r]
    IN  /\ q.op = "join"
        /\ Accepted(r)
        /\ CommitUser(q)
        /\ CommitOrgs(q, Provisioned(q), [role EXCEPT ![q.user][q.on[1]] = q.on[2]])
        /\ End(r)
        /\ UNCHANGED <<key, code, minted>>

(* update_member_role or remove_member by an owner, who is signed in for   *)
(* it; the row of the member is not locked.                                *)
MemberChanges(u, o, g) ==
    /\ "change" \in workload
    /\ IsMember(u, o)
    /\ ~IsOwner(u, o)
    /\ g # role[u][o]
    /\ HasConnection
    /\ \E a \in People \ {u} : IsOwner(a, o) /\ ~SignedIn(a)
    /\ role' = [role EXCEPT ![u][o] = g]
    /\ UNCHANGED <<users, welcomes, aborted, founder, live, project, key, code, minted, req>>

-----------------------------------------------------------------------------
(* Projects *)

CreateProject(r, o, n) ==
    /\ "project" \in workload
    /\ req[r].op = "ready"
    /\ IsAdmin(req[r].user, o)
    /\ Ask(r, "project", <<o, n>>)

(* _resolve_api_key: an active key that has not expired, and a name that   *)
(* get_or_create_project does not find.  When another request takes the    *)
(* name first, the flush that begin_nested begins with fails outside the   *)
(* savepoint, and the whole transaction with it.                           *)
UseKey(r, k, n) ==
    /\ "project" \in workload
    /\ req[r] = Idle
    /\ HasConnection
    /\ key[k].state = "active"
    /\ key[k].life # "over"
    /\ ~Named(key[k].org, n)
    /\ Advance(r, [op |-> "project", user |-> None, new |-> FALSE, jit |-> None,
                   on |-> <<key[k].org, n>>])

CommitCreateProject(r) ==
    LET o == req[r].on[1]
    IN  /\ req[r].op = "project"
        /\ Accepted(r)
        /\ \E s \in FreeSlots(o) : project' = [project EXCEPT ![<<o, s>>] = req[r].on[2]]
        /\ End(r)
        /\ UNCHANGED <<accountVars, key, code, minted>>

UpdateProject(r, p, n) ==
    /\ "update" \in workload
    /\ req[r].op = "ready"
    /\ IsAdmin(req[r].user, p[1])
    /\ project[p] \in Names
    /\ Ask(r, "update", <<p, n>>)

CommitUpdateProject(r) ==
    LET p == req[r].on[1]
        n == req[r].on[2]
    IN  /\ req[r].op = "update"
        /\ Accepted(r)
        /\ project' = [project EXCEPT ![p] = IF @ = "gone" THEN @ ELSE n]
        /\ End(r)
        /\ UNCHANGED <<accountVars, key, code, minted>>

DeleteProject(r, p) ==
    /\ "update" \in workload
    /\ req[r].op = "ready"
    /\ IsOwner(req[r].user, p[1])
    /\ project[p] \in Names
    /\ Ask(r, "delete_project", p)

(* Codes that name the project go with it.                                 *)
CommitDeleteProject(r) ==
    LET p == req[r].on
    IN  /\ req[r].op = "delete_project"
        /\ project' = [project EXCEPT ![p] = "gone"]
        /\ code' = [c \in Codes |-> IF code[c] # NoCode /\ code[c].project = p
                                    THEN [code[c] EXCEPT !.state = "gone"] ELSE code[c]]
        /\ End(r)
        /\ UNCHANGED <<accountVars, key, minted>>

-----------------------------------------------------------------------------
(* API keys *)

\* an id is left for one key more; ids bound the keys that are ever made
KeyLeft ==
    Cardinality({r \in InFlight : req[r].op \in {"key", "presented", "consumed", "mint"}})
        < Cardinality({k \in Keys : key[k] = NoKey})

KeyRow(o, u, life) == [state |-> "active", org |-> o, by |-> u, life |-> life]

CreateKey(r, o, life) ==
    /\ (IF life = "never" THEN "lasting_key" ELSE "key") \in workload
    /\ req[r].op = "ready"
    /\ IsMember(req[r].user, o)
    /\ KeyLeft
    /\ Ask(r, "key", <<o, life, None>>)

(* Only a key with an expiry, which may be over; it stays as it is.        *)
RotateKey(r, k) ==
    /\ "key" \in workload
    /\ req[r].op = "ready"
    /\ key[k].state = "active"
    /\ IsAdmin(req[r].user, key[k].org)
    /\ key[k].life # "never"
    /\ KeyLeft
    /\ Ask(r, "key", <<key[k].org, "running", k>>)

CommitKey(r, k) ==
    LET q == req[r]
    IN  /\ q.op = "key"
        /\ Accepted(r)
        /\ key[k] = NoKey
        /\ key' = [key EXCEPT ![k] = KeyRow(q.on[1], q.user, q.on[2])]
        /\ End(r)
        /\ UNCHANGED <<accountVars, project, code, minted>>

(* revoke_api_key, delete_api_key: by the id, whatever became of the key.  *)
DropKey(r, k, state) ==
    /\ state \in workload
    /\ req[r].op = "ready"
    /\ key[k].state \in {"active", "revoked"}
    /\ IsAdmin(req[r].user, key[k].org)
    /\ Ask(r, "drop", <<k, state>>)

CommitDropKey(r) ==
    LET k == req[r].on[1]
    IN  /\ req[r].op = "drop"
        /\ key' = [key EXCEPT ![k].state = IF @ = "gone" THEN @ ELSE req[r].on[2]]
        /\ End(r)
        /\ UNCHANGED <<accountVars, project, code, minted>>

(* Ninety days have passed.                                                *)
KeyExpires(k) ==
    /\ key[k].state = "active"
    /\ key[k].life = "running"
    /\ key' = [key EXCEPT ![k].life = "over"]
    /\ UNCHANGED <<accountVars, project, code, minted, req>>

-----------------------------------------------------------------------------
(* Codes for the command line *)

IssueCode(r, p, c) ==
    /\ "code" \in workload
    /\ req[r].op = "ready"
    /\ IsMember(req[r].user, p[1])
    /\ project[p] \in Names
    /\ code[c] = NoCode
    /\ \A q \in InFlight : ~(req[q].op = "issue" /\ req[q].on[2] = c)
    /\ Ask(r, "issue", <<p, c>>)

CommitIssueCode(r) ==
    LET p == req[r].on[1]
        c == req[r].on[2]
    IN  /\ req[r].op = "issue"
        /\ Accepted(r)
        /\ code' = [code EXCEPT ![c] = [state |-> "live", by |-> req[r].user, project |-> p]]
        /\ End(r)
        /\ UNCHANGED <<accountVars, project, key, minted>>

(* 120 seconds have passed.                                                *)
CodeExpires(c) ==
    /\ code[c].state = "live"
    /\ code' = [code EXCEPT ![c].state = "expired"]
    /\ UNCHANGED <<accountVars, project, key, minted, req>>

(* get_active and the PKCE check, which the right client passes.           *)
PresentCode(r, c) ==
    /\ req[r] = Idle
    /\ HasConnection
    /\ code[c].state = "live"
    /\ KeyLeft
    /\ Advance(r, [op |-> "presented", user |-> None, new |-> FALSE, jit |-> None, on |-> c])

(* Mutant: the code is deleted, whether or not it was still there.         *)
ConsumeAnyway(r) ==
    LET c == req[r].on
    IN  /\ req[r].op = "presented"
        /\ code' = [code EXCEPT ![c].state = "gone"]
        /\ req' = [req EXCEPT ![r].op = "consumed"]
        /\ UNCHANGED <<accountVars, project, key, minted>>

(* DELETE ... RETURNING of a code that has not expired, and a commit.      *)
Consume(r) ==
    LET c == req[r].on
    IN  /\ req[r].op = "presented"
        /\ IF code[c].state = "live"
           THEN /\ code' = [code EXCEPT ![c].state = "gone"]
                /\ req' = [req EXCEPT ![r].op = "consumed"]
                /\ UNCHANGED <<accountVars, project, key, minted>>
           ELSE Undo(r)

(* Mutant: that the user was a member when the code was issued will do.    *)
RecheckNothing(r) ==
    /\ req[r].op = "consumed"
    /\ HasConnection
    /\ Advance(r, [req[r] EXCEPT !.op = "mint"])

(* require_membership, after the code is gone: a removed user is refused.  *)
Recheck(r) ==
    LET c == req[r].on
    IN  /\ req[r].op = "consumed"
        /\ HasConnection
        /\ IF IsMember(code[c].by, code[c].project[1])
           THEN Advance(r, [req[r] EXCEPT !.op = "mint"])
           ELSE Undo(r)

MintKey(r, k) ==
    LET c == req[r].on
        o == code[c].project[1]
    IN  /\ req[r].op = "mint"
        /\ Accepted(r)
        /\ key[k] = NoKey
        /\ key' = [key EXCEPT ![k] = KeyRow(o, code[c].by, "running")]
        /\ minted' = [minted EXCEPT ![c] = @ + 1]
        /\ End(r)
        /\ UNCHANGED <<accountVars, project, code>>

-----------------------------------------------------------------------------
(* Who asks for a key, for which organization, out of which key.           *)
AskedBy(q) == IF q.op = "mint" THEN code[q.on].by ELSE q.user
AskedFor(q) == IF q.op = "mint" THEN code[q.on].project[1] ELSE q.on[1]
Parent(q) == IF q.op = "key" THEN q.on[3] ELSE None

(* Another commit has changed what the request has found.                  *)
Overtaken(q) ==
    \/ /\ q.op \in {"key", "mint"}
       /\ \/ role'[AskedBy(q)][AskedFor(q)] # role[AskedBy(q)][AskedFor(q)]
          \/ Parent(q) # None /\ key'[Parent(q)] # key[Parent(q)]
    \/ /\ q.op = "delete_org"
       /\ \/ \E u \in People : role[u][q.on] = "NONE" /\ role'[u][q.on] # "NONE"
          \/ \E s \in Slots : project[<<q.on, s>>] = "free" /\ project'[<<q.on, s>>] # "free"
          \/ \E k \in Keys : key[k] = NoKey /\ key'[k] # NoKey /\ key'[k].org = q.on

Watch ==
    /\ stale' = {r \in InFlight : req'[r] # Idle /\ (r \in stale \/ Overtaken(req[r]))}
    /\ UNCHANGED workload

(* What the event loop and the database do about a request in flight.      *)
Proceed(r) ==
    \/ UpsertUser(r) \/ Welcome(r) \/ PoolTimesOut(r) \/ Finish(r)
    \/ CommitCreateOrganization(r) \/ CommitDeleteOrganization(r) \/ CommitJoin(r)
    \/ CommitCreateProject(r) \/ CommitUpdateProject(r) \/ CommitDeleteProject(r)
    \/ \E k \in Keys : CommitKey(r, k) \/ MintKey(r, k)
    \/ CommitDropKey(r) \/ CommitIssueCode(r) \/ Consume(r) \/ Recheck(r)
    \/ ConstraintFails(r)

(* What clients ask for.                                                   *)
Call(r) ==
    \/ \E u \in People : SignIn(r, u)
    \/ CreateOrganization(r)
    \/ \E o \in Orgs : DeleteOrganization(r, o)
    \/ \E o \in Orgs, g \in Roles \ {"OWNER"} : Join(r, o, g)
    \/ \E o \in Orgs, n \in Names : CreateProject(r, o, n)
    \/ \E p \in ProjectIds, n \in Names : UpdateProject(r, p, n)
    \/ \E p \in ProjectIds : DeleteProject(r, p)
    \/ \E o \in Orgs, life \in {"never", "running"} : CreateKey(r, o, life)
    \/ \E k \in Keys : RotateKey(r, k)
    \/ \E k \in Keys, n \in Names : UseKey(r, k, n)
    \/ \E k \in Keys, state \in {"revoked", "gone"} : DropKey(r, k, state)
    \/ \E p \in ProjectIds, c \in Codes : IssueCode(r, p, c)
    \/ \E c \in Codes : PresentCode(r, c)

Step ==
    \/ \E r \in Requests : Call(r) \/ Proceed(r) \/ Fail(r)
    \/ \E u \in People, o \in Orgs, g \in Roles \cup {"NONE"} : MemberChanges(u, o, g)
    \/ \E k \in Keys : KeyExpires(k)
    \/ \E c \in Codes : CodeExpires(c)

Next == Step /\ Watch

Spec == Init /\ [][Next]_vars

(* A connection is given back, a lock is released and an exception raised  *)
(* without anybody asking for it, and who waits for a row that is released *)
(* again and again gets it: PostgreSQL queues them.                        *)
FairSpec ==
    /\ Spec
    /\ \A r \in Requests :
          /\ WF_vars(Proceed(r) /\ Watch)
          /\ SF_vars(UpsertUser(r) /\ Watch)

-----------------------------------------------------------------------------
(* Properties *)

(* create_organization counts the organizations of the user and inserts    *)
(* one more without a lock of its own: only the row that upsert_user has   *)
(* locked keeps requests of one user from counting the same, so that       *)
(* nobody owns more than MAX_OWNED_ORGS of those he created, whatever he   *)
(* was given besides.                                                      *)
FoundedWithinLimit ==
    \A u \in People : Cardinality({o \in live : founder[o] = u /\ IsOwner(u, o)}) <= MaxOwned

(* A user gets the welcome, follow-up and CRM jobs once, however first     *)
(* requests overlap and whatever becomes of the memberships; a sign-up     *)
(* that was rolled back after it had enqueued them is the one way to get   *)
(* them again, and nobody is signed up without.                            *)
WelcomedOnce ==
    \A u \in People :
        LET signedUp == \/ u \in users
                        \/ \E r \in InFlight : req[r].user = u /\ req[r].new /\ req[r].op # "welcome"
        IN  welcomes[u] = aborted[u] + IF signedUp THEN 1 ELSE 0

(* "Codes are single-use" (cli_service.py): exchanges that overlap, expiry *)
(* and deletions never make two keys of one code, and a code that can      *)
(* still be exchanged has made none.                                       *)
OneKeyPerCode ==
    \A c \in Codes : minted[c] <= IF code[c].state = "gone" THEN 1 ELSE 0

(* A key is committed for a member of the organization and, when it        *)
(* replaces another one, out of one that is active, unless a removal or a  *)
(* revocation came between the look and the commit: a code that was issued *)
(* before its user was removed is worth nothing.                           *)
KeysForMembers ==
    [][\A r \in InFlight \ stale :
          req[r].op \in {"key", "mint"} /\ key' # key /\ req'[r] = Idle =>
              /\ IsMember(AskedBy(req[r]), AskedFor(req[r]))
              /\ Parent(req[r]) # None => key[Parent(req[r])].state = "active"]_vars

(* Everybody may be waiting for a connection that somebody else holds: the *)
(* jobs of a new user need a second one, and other sign-ins, his own that  *)
(* wait for his row included, hold theirs.  The pool's timeout ends that:  *)
(* every request that has got a connection ends.                           *)
RequestsEnd == \A r \in Requests : req[r] # Idle ~> req[r] = Idle

===============================================================================
