------------------------------ MODULE Membership ------------------------------
(***************************************************************************)
(* The members and invitations of one organization: identity_service.py    *)
(* over identity_repo.py and invitation_repo.py.                           *)
(*                                                                         *)
(* A request reads what it needs, decides, and writes in one transaction   *)
(* that get_db_session commits at the end.  No row is locked in between,   *)
(* so that every operation is two actions or more: one that looks and one  *)
(* that commits.  Every write goes to the row by its key, whatever the row *)
(* has become since.  The only things that stop a late write are the       *)
(* constraints of the tables: one membership per user and organization,    *)
(* and no row of an organization that is gone.                             *)
(***************************************************************************)
EXTENDS Naturals, FiniteSets

CONSTANTS
    Users,        \* people, each with the one e-mail address they sign in with
    Founder,      \* the user who created the organization
    Invitations,  \* ids of invitations: the bound on how many are ever sent
    Requests,     \* requests that can be in flight together
    Limits        \* max_members of the plans an organization may have

ASSUME MembershipAssumption ==
    /\ Founder \in Users
    /\ IsFiniteSet(Users)
    /\ IsFiniteSet(Invitations)
    /\ Limits \subseteq Nat \ {0}

VARIABLES
    org,        \* the organization exists
    limit,      \* max_members of its plan, which does not change here
    role,       \* MembershipModel.role, or NONE without a row
    status,     \* InvitationModel.status; free: not sent yet, gone: deleted
    sentTo,     \* whose e-mail address the invitation names
    offered,    \* the role it offers
    lapsed,     \* invitations whose expires_at has passed
    req,        \* what every request in flight has read and decided
    stale,      \* requests whose findings another commit has overtaken
    overlapped  \* such a request has committed

vars == <<org, limit, role, status, sentTo, offered, lapsed, req, stale, overlapped>>

Roles == {"OWNER", "ADMIN", "MEMBER"}

Idle == [op |-> "idle"]

Members == {u \in Users : role[u] # "NONE"}

\* PENDING and expires_at > now: what can still be accepted
Open == {i \in Invitations : status[i] = "PENDING" /\ i \notin lapsed}

-----------------------------------------------------------------------------
(***************************************************************************)
(* History.  A request is overtaken by a step that changes what it has     *)
(* based its decision on.  For the deletion of the organization that is a  *)
(* row it has not loaded, which makes the constraints refuse it.           *)
(***************************************************************************)
Joined == \E u \in Users : role[u] = "NONE" /\ role'[u] # "NONE"

Sent == \E i \in Invitations : status[i] = "free" /\ status'[i] # "free"

Overtaken(p) ==
    LET q == req[p] IN
    \/ q.op \in {"counted", "admitted"} /\ (role' # role \/ Sent)
    \/ q.op \in {"set_role", "remove"}
          /\ (role'[q.by] # role[q.by] \/ role'[q.user] # role[q.user])
    \/ q.op \in {"accept", "decline", "revoke"}
          /\ \/ status'[q.inv] # status[q.inv]
             \/ q.inv \notin lapsed /\ q.inv \in lapsed'
             \/ role'[q.by] # role[q.by]
    \/ q.op = "delete" /\ (Joined \/ Sent)

Look(r, q) ==
    /\ req[r] = Idle
    /\ req' = [req EXCEPT ![r] = q]
    /\ UNCHANGED <<org, limit, role, status, sentTo, offered, lapsed, stale, overlapped>>

\* the transaction of request r commits; what it wrote is in the primed variables
Commit(r) ==
    /\ req' = [req EXCEPT ![r] = Idle]
    /\ stale' = (stale \ {r}) \cup {p \in Requests \ {r} : Overtaken(p)}
    /\ overlapped' = (overlapped \/ r \in stale)

\* create_organization: the caller becomes the owner in the same transaction
Init ==
    /\ org = TRUE
    /\ limit \in Limits
    /\ role = [u \in Users |-> IF u = Founder THEN "OWNER" ELSE "NONE"]
    /\ status = [i \in Invitations |-> "free"]
    /\ sentTo = [i \in Invitations |-> Founder]
    /\ offered = [i \in Invitations |-> "MEMBER"]
    /\ lapsed = {}
    /\ req = [r \in Requests |-> Idle]
    /\ stale = {}
    /\ overlapped = FALSE

-----------------------------------------------------------------------------
(***************************************************************************)
(* Invitations                                                             *)
(***************************************************************************)

\* Mutant: existing members are not looked up
MayInviteMember(a, u, g) ==
    /\ role[a] \in {"OWNER", "ADMIN"}
    /\ role[a] = "ADMIN" => g = "MEMBER"
    /\ g # "OWNER"
    /\ a # u
    /\ \A i \in Open : sentTo[i] # u

\* whom actor a may invite, and as what
MayInvite(a, u, g) ==
    /\ role[a] \in {"OWNER", "ADMIN"}
    /\ role[a] = "ADMIN" => g = "MEMBER"
    /\ g # "OWNER"
    /\ a # u
    /\ role[u] = "NONE"
    /\ \A i \in Open : sentTo[i] # u

CreateInvitation(r, a, u, g) ==
    /\ MayInvite(a, u, g)
    /\ Look(r, [op |-> "counted", by |-> a, user |-> u, role |-> g,
                members |-> Cardinality(Members)])

\* Mutant: the limit is compared one too late
HasSeatOneMore(counted) == counted + Cardinality(Open) <= limit

HasSeat(counted) == counted + Cardinality(Open) < limit

\* the second count; the e-mail job that follows has a commit of its own, so that an
\* e-mail may be sent for an invitation that never is
AdmitInvitation(r) ==
    /\ req[r].op = "counted"
    /\ HasSeat(req[r].members)
    /\ req' = [req EXCEPT ![r] = [op |-> "admitted", by |-> req[r].by,
                                  user |-> req[r].user, role |-> req[r].role]]
    /\ UNCHANGED <<org, limit, role, status, sentTo, offered, lapsed, stale, overlapped>>

SendInvitation(r, i) ==
    /\ req[r].op = "admitted"
    /\ org
    /\ status[i] = "free"
    /\ status' = [status EXCEPT ![i] = "PENDING"]
    /\ sentTo' = [sentTo EXCEPT ![i] = req[r].user]
    /\ offered' = [offered EXCEPT ![i] = req[r].role]
    /\ UNCHANGED <<org, limit, role, lapsed>>
    /\ Commit(r)

AcceptInvitation(r, i) ==
    /\ i \in Open
    /\ role[sentTo[i]] = "NONE"
    /\ Look(r, [op |-> "accept", by |-> sentTo[i], inv |-> i])

\* the insert is refused when the user has become a member or the organization is gone
Join(r) ==
    /\ req[r].op = "accept"
    /\ org
    /\ role[req[r].by] = "NONE"
    /\ role' = [role EXCEPT ![req[r].by] = offered[req[r].inv]]
    /\ status' = [status EXCEPT ![req[r].inv] = "ACCEPTED"]
    /\ UNCHANGED <<org, limit, sentTo, offered, lapsed>>
    /\ Commit(r)

DeclineInvitation(r, i) ==
    /\ i \in Open
    /\ Look(r, [op |-> "decline", by |-> sentTo[i], inv |-> i])

\* Mutant: an invitation is revoked whatever has become of it
RevokeProcessed(r, a, i) ==
    /\ role[a] \in {"OWNER", "ADMIN"}
    /\ status[i] # "free"
    /\ Look(r, [op |-> "revoke", by |-> a, inv |-> i])

RevokeInvitation(r, a, i) ==
    /\ role[a] \in {"OWNER", "ADMIN"}
    /\ status[i] = "PENDING"
    /\ Look(r, [op |-> "revoke", by |-> a, inv |-> i])

\* update_status finds no row when the organization has been deleted
SettleInvitation(r) ==
    /\ req[r].op \in {"decline", "revoke"}
    /\ status' = IF status[req[r].inv] = "gone" THEN status
                 ELSE [status EXCEPT ![req[r].inv] =
                          IF req[r].op = "decline" THEN "DECLINED" ELSE "REVOKED"]
    /\ UNCHANGED <<org, limit, role, sentTo, offered, lapsed>>
    /\ Commit(r)

\* seven days have passed
InvitationLapses(i) ==
    /\ i \in Open
    /\ lapsed' = lapsed \cup {i}
    /\ UNCHANGED <<org, limit, role, status, sentTo, offered, req, overlapped>>
    /\ stale' = stale \cup {p \in Requests : Overtaken(p)}

\* the scheduled job: one UPDATE, whose condition holds when it takes effect
ExpireStaleInvitations ==
    /\ \E i \in lapsed : status[i] = "PENDING"
    /\ status' = [i \in Invitations |->
                    IF status[i] = "PENDING" /\ i \in lapsed THEN "EXPIRED" ELSE status[i]]
    /\ UNCHANGED <<org, limit, role, sentTo, offered, lapsed, req, overlapped>>
    /\ stale' = stale \cup {p \in Requests : Overtaken(p)}

-----------------------------------------------------------------------------
(***************************************************************************)
(* Roles, removal, deletion                                                *)
(***************************************************************************)
\* Mutant: the role of an owner may be changed by another owner
MaySetRoleOfOwner(a, u) == a # u /\ role[a] = "OWNER" /\ role[u] \in Roles

MaySetRole(a, u) ==
    /\ a # u
    /\ role[a] = "OWNER"
    /\ role[u] \in Roles \ {"OWNER"}

\* setting the role that was read leaves the row clean: nothing is written
UpdateMemberRole(r, a, u, g) ==
    /\ MaySetRole(a, u)
    /\ g # role[u]
    /\ Look(r, [op |-> "set_role", by |-> a, user |-> u, role |-> g])

WriteRole(r) ==
    /\ req[r].op = "set_role"
    /\ role[req[r].user] # "NONE"
    /\ role' = [role EXCEPT ![req[r].user] = req[r].role]
    /\ UNCHANGED <<org, limit, status, sentTo, offered, lapsed>>
    /\ Commit(r)

\* Mutant: owners may be removed too
MayRemoveOwner(a, u) ==
    /\ role[u] \in Roles
    /\ role[a] \in {"OWNER", "ADMIN"}
    /\ role[a] = "ADMIN" => role[u] = "MEMBER"

MayRemove(a, u) ==
    /\ role[u] \in Roles \ {"OWNER"}
    /\ role[a] \in {"OWNER", "ADMIN"}
    /\ role[a] = "ADMIN" => role[u] = "MEMBER"

RemoveMember(r, a, u) ==
    /\ MayRemove(a, u)
    /\ Look(r, [op |-> "remove", by |-> a, user |-> u])

DeleteMembership(r) ==
    /\ req[r].op = "remove"
    /\ role' = [role EXCEPT ![req[r].user] = "NONE"]
    /\ UNCHANGED <<org, limit, status, sentTo, offered, lapsed>>
    /\ Commit(r)

DeleteOrganization(r, a) ==
    /\ role[a] = "OWNER"
    /\ Look(r, [op |-> "delete", by |-> a])

\* rows inserted since the cascade loaded them keep the organization alive
DeleteRows(r) ==
    /\ req[r].op = "delete"
    /\ r \notin stale
    /\ org' = FALSE
    /\ role' = [u \in Users |-> "NONE"]
    /\ status' = [i \in Invitations |-> "gone"]
    /\ UNCHANGED <<limit, sentTo, offered, lapsed>>
    /\ Commit(r)

\* a refusal after the first reads, a constraint, a lost connection: nothing is kept
Rollback(r) ==
    /\ req[r] # Idle
    /\ req' = [req EXCEPT ![r] = Idle]
    /\ stale' = stale \ {r}
    /\ UNCHANGED <<org, limit, role, status, sentTo, offered, lapsed, overlapped>>

Next ==
    \/ \E r \in Requests, a \in Users, u \in Users, g \in Roles :
          CreateInvitation(r, a, u, g) \/ UpdateMemberRole(r, a, u, g)
    \/ \E r \in Requests, a \in Users, u \in Users : RemoveMember(r, a, u)
    \/ \E r \in Requests, a \in Users : DeleteOrganization(r, a)
    \/ \E r \in Requests, a \in Users, i \in Invitations : RevokeInvitation(r, a, i)
    \/ \E r \in Requests, i \in Invitations :
          SendInvitation(r, i) \/ AcceptInvitation(r, i) \/ DeclineInvitation(r, i)
    \/ \E r \in Requests :
          \/ AdmitInvitation(r) \/ Join(r) \/ SettleInvitation(r) \/ WriteRole(r)
          \/ DeleteMembership(r) \/ DeleteRows(r) \/ Rollback(r)
    \/ \E i \in Invitations : InvitationLapses(i)
    \/ ExpireStaleInvitations

Spec == Init /\ [][Next]_vars

-----------------------------------------------------------------------------
(***************************************************************************)
(* Properties                                                              *)
(***************************************************************************)
RequestOK(q) ==
    /\ q.op \in {"idle", "counted", "admitted", "accept", "decline", "revoke",
                 "set_role", "remove", "delete"}
    /\ q.op # "idle" => q.by \in Users
    /\ q.op \in {"counted", "admitted", "set_role", "remove"} => q.user \in Users
    /\ q.op \in {"counted", "admitted"} => q.role \in Roles \ {"OWNER"}
    /\ q.op = "counted" => q.members \in Nat
    /\ q.op = "set_role" => q.role \in Roles
    /\ q.op \in {"accept", "decline", "revoke"} => q.inv \in Invitations

(***************************************************************************)
(* Type invariant of the tables (MembershipModel, InvitationModel) and of  *)
(* what requests carry: no row is ever left without a known role or        *)
(* status, and nobody is offered OWNER by an invitation.                   *)
(***************************************************************************)
TypeOK ==
    /\ org \in BOOLEAN
    /\ limit \in Limits
    /\ role \in [Users -> Roles \cup {"NONE"}]
    /\ status \in [Invitations -> {"free", "PENDING", "ACCEPTED", "DECLINED", "REVOKED",
                                   "EXPIRED", "gone"}]
    /\ sentTo \in [Invitations -> Users]
    /\ offered \in [Invitations -> Roles \ {"OWNER"}]
    /\ lapsed \subseteq Invitations
    /\ DOMAIN req = Requests
    /\ \A r \in Requests : RequestOK(req[r])
    /\ stale \subseteq Requests
    /\ overlapped \in BOOLEAN

(***************************************************************************)
(* While the organization exists somebody owns it, however the requests    *)
(* of update_member_role, remove_member and accept_invitation overlap: the *)
(* checks "Cannot change the role of another owner" and "Cannot remove an  *)
(* OWNER" are made on a row that may have changed when it is written.      *)
(***************************************************************************)
HasOwner == org => \E u \in Users : role[u] = "OWNER"

(***************************************************************************)
(* The quota of create_invitation: members and open invitations together   *)
(* stay within max_members, so that accepting never needs another check.   *)
(* It takes a request that commits on overtaken findings to exceed it.     *)
(***************************************************************************)
SeatsWithinPlan ==
    ~overlapped => Cardinality(Members) + Cardinality(Open) <= limit

(***************************************************************************)
(* A member has no open invitation, nobody has two: one who is removed     *)
(* (remove_member) cannot come back by an invitation sent earlier, unless  *)
(* requests overlapped.                                                    *)
(***************************************************************************)
NoSpareInvitation ==
    ~overlapped => \A i \in Open :
        /\ role[sentTo[i]] = "NONE"
        /\ \A j \in Open \ {i} : sentTo[j] # sentTo[i]

(***************************************************************************)
(* "OWNER role cannot be removed" (remove_member) and "Cannot change       *)
(* another OWNER's role" (update_member_role): an owner stays one until    *)
(* the organization is deleted, unless a request acts on overtaken         *)
(* findings.                                                               *)
(***************************************************************************)
OwnerKept ==
    [][\A u \in Users : role[u] = "OWNER" /\ role'[u] # "OWNER" => ~org' \/ overlapped']_vars

(***************************************************************************)
(* "This invitation has already been processed": what accept, decline,     *)
(* revoke or the expiry job made of an invitation is final, unless a       *)
(* request acts on overtaken findings.                                     *)
(***************************************************************************)
ProcessedOnce ==
    [][\A i \in Invitations :
          /\ status[i] \in {"ACCEPTED", "DECLINED", "REVOKED", "EXPIRED"}
          /\ status'[i] # status[i]
          => ~org' \/ overlapped']_vars

=============================================================================
