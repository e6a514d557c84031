-------------------------- MODULE MembershipProofs --------------------------
(***************************************************************************)
(* Proofs about Membership, for any users, any number of invitations and   *)
(* of overlapping requests, and any limit.                                 *)
(***************************************************************************)
EXTENDS Membership, FiniteSetTheorems, TLAPS

(* Members and open invitations are finite sets.                           *)
LEMMA Finite ==
    /\ IsFiniteSet(Members) /\ Cardinality(Members) \in Nat
    /\ IsFiniteSet(Open) /\ Cardinality(Open) \in Nat
<1>1. Members \subseteq Users /\ Open \subseteq Invitations
  BY DEF Members, Open
<1>2. IsFiniteSet(Members) /\ IsFiniteSet(Open)
  BY <1>1, FS_Subset, MembershipAssumption
<1> QED
  BY <1>2, FS_CardinalityType

(* What a look leaves alone, and what it adds.                             *)
LEMMA LookType ==
    ASSUME TypeOK, NEW r \in Requests, NEW q, Look(r, q), RequestOK(q)
    PROVE  TypeOK'
BY DEF TypeOK, Look, RequestOK

(* A commit keeps the type of the variables it sets itself.                *)
LEMMA CommitType ==
    ASSUME TypeOK, NEW r \in Requests, Commit(r)
    PROVE  /\ DOMAIN req' = Requests
           /\ \A p \in Requests : RequestOK(req'[p])
           /\ stale' \subseteq Requests
           /\ overlapped' \in BOOLEAN
<1>1. \A p \in Requests : RequestOK(req'[p])
  BY DEF TypeOK, Commit, RequestOK, Idle
<1> QED
  BY <1>1 DEF TypeOK, Commit

(* Every step keeps the types.                                             *)
LEMMA TypeStep == TypeOK /\ [Next]_vars => TypeOK'
<1> SUFFICES ASSUME TypeOK, [Next]_vars PROVE TypeOK'
  OBVIOUS
<1>1. ASSUME NEW r \in Requests, NEW a \in Users, NEW u \in Users, NEW g \in Roles,
             CreateInvitation(r, a, u, g)
      PROVE  TypeOK'
  <2> DEFINE q == [op |-> "counted", by |-> a, user |-> u, role |-> g,
                   members |-> Cardinality(Members)]
  <2>1. RequestOK(q)
    BY <1>1, Finite DEF RequestOK, CreateInvitation, MayInvite
  <2> QED
    BY <1>1, <2>1, LookType DEF CreateInvitation
<1>2. ASSUME NEW r \in Requests, NEW a \in Users, NEW u \in Users, NEW g \in Roles,
             UpdateMemberRole(r, a, u, g)
      PROVE  TypeOK'
  <2>1. RequestOK([op |-> "set_role", by |-> a, user |-> u, role |-> g])
    BY DEF RequestOK
  <2> QED
    BY <1>2, <2>1, LookType DEF UpdateMemberRole
<1>3. ASSUME NEW r \in Requests, NEW a \in Users, NEW u \in Users, RemoveMember(r, a, u)
      PROVE  TypeOK'
  <2>1. RequestOK([op |-> "remove", by |-> a, user |-> u])
    BY DEF RequestOK
  <2> QED
    BY <1>3, <2>1, LookType DEF RemoveMember
<1>4. ASSUME NEW r \in Requests, NEW a \in Users, DeleteOrganization(r, a) PROVE TypeOK'
  <2>1. RequestOK([op |-> "delete", by |-> a])
    BY DEF RequestOK
  <2> QED
    BY <1>4, <2>1, LookType DEF DeleteOrganization
<1>5. ASSUME NEW r \in Requests, NEW a \in Users, NEW i \in Invitations,
             RevokeInvitation(r, a, i)
      PROVE  TypeOK'
  <2>1. RequestOK([op |-> "revoke", by |-> a, inv |-> i])
    BY DEF RequestOK
  <2> QED
    BY <1>5, <2>1, LookType DEF RevokeInvitation
<1>6. ASSUME NEW r \in Requests, NEW i \in Invitations, AcceptInvitation(r, i) PROVE TypeOK'
  <2>1. RequestOK([op |-> "accept", by |-> sentTo[i], inv |-> i])
    BY DEF RequestOK, TypeOK
  <2> QED
    BY <1>6, <2>1, LookType DEF AcceptInvitation
<1>7. ASSUME NEW r \in Requests, NEW i \in Invitations, DeclineInvitation(r, i) PROVE TypeOK'
  <2>1. RequestOK([op |-> "decline", by |-> sentTo[i], inv |-> i])
    BY DEF RequestOK, TypeOK
  <2> QED
    BY <1>7, <2>1, LookType DEF DeclineInvitation
<1>8. ASSUME NEW r \in Requests, AdmitInvitation(r) PROVE TypeOK'
  <2>1. \A p \in Requests : RequestOK(req'[p])
    BY <1>8 DEF TypeOK, AdmitInvitation, RequestOK
  <2> QED
    BY <1>8, <2>1 DEF TypeOK, AdmitInvitation, RequestOK
<1>9. ASSUME NEW r \in Requests, NEW i \in Invitations, SendInvitation(r, i) PROVE TypeOK'
  <2>1. RequestOK(req[r])
    BY DEF TypeOK
  <2> QED
    BY <1>9, <2>1, CommitType DEF TypeOK, SendInvitation, RequestOK
<1>10. ASSUME NEW r \in Requests, Join(r) PROVE TypeOK'
  <2>1. RequestOK(req[r])
    BY DEF TypeOK
  <2> QED
    BY <1>10, <2>1, CommitType DEF TypeOK, Join, RequestOK
<1>11. ASSUME NEW r \in Requests, SettleInvitation(r) PROVE TypeOK'
  <2>1. RequestOK(req[r])
    BY DEF TypeOK
  <2> QED
    BY <1>11, <2>1, CommitType DEF TypeOK, SettleInvitation, RequestOK
<1>12. ASSUME NEW r \in Requests, WriteRole(r) PROVE TypeOK'
  <2>1. RequestOK(req[r])
    BY DEF TypeOK
  <2> QED
    BY <1>12, <2>1, CommitType DEF TypeOK, WriteRole, RequestOK
<1>13. ASSUME NEW r \in Requests, DeleteMembership(r) PROVE TypeOK'
  <2>1. RequestOK(req[r])
    BY DEF TypeOK
  <2> QED
    BY <1>13, <2>1, CommitType DEF TypeOK, DeleteMembership, RequestOK
<1>14. ASSUME NEW r \in Requests, DeleteRows(r) PROVE TypeOK'
  BY <1>14, CommitType DEF TypeOK, DeleteRows
<1>15. ASSUME NEW r \in Requests, Rollback(r) PROVE TypeOK'
  <2>1. \A p \in Requests : RequestOK(req'[p])
    BY <1>15 DEF TypeOK, Rollback, RequestOK, Idle
  <2> QED
    BY <1>15, <2>1 DEF TypeOK, Rollback
<1>16. ASSUME NEW i \in Invitations, InvitationLapses(i) PROVE TypeOK'
  BY <1>16 DEF TypeOK, InvitationLapses
<1>17. CASE ExpireStaleInvitations
  BY <1>17 DEF TypeOK, ExpireStaleInvitations
<1>18. CASE UNCHANGED vars
  BY <1>18 DEF TypeOK, vars, RequestOK
<1> QED
  BY <1>1, <1>2, <1>3, <1>4, <1>5, <1>6, <1>7, <1>8, <1>9, <1>10, <1>11, <1>12, <1>13,
     <1>14, <1>15, <1>16, <1>17, <1>18 DEF Next

(* The initial state is well typed.                                        *)
LEMMA TypeInit == Init => TypeOK
<1>1. Init => org \in BOOLEAN /\ overlapped \in BOOLEAN
  BY Zenon DEF Init
<1>2. Init => \A r \in Requests : RequestOK(req[r])
  BY DEF Init, RequestOK, Idle
<1> QED
  BY <1>1, <1>2, MembershipAssumption DEF Init, TypeOK, Roles

(***************************************************************************)
(* Every row of memberships and invitations, and every request in flight   *)
(* (identity_service.py), is well formed in every reachable state.         *)
(***************************************************************************)
THEOREM TypeCorrect == Spec => []TypeOK
<1> QED
  BY TypeInit, TypeStep, PTL DEF Spec

-----------------------------------------------------------------------------
(***************************************************************************)
(* The organization keeps an owner.  The founder became OWNER in the       *)
(* transaction that created the organization, so that no request can ever  *)
(* have read another role of theirs, and only a request that has read      *)
(* another role may write or delete it.                                    *)
(***************************************************************************)
FounderOwns ==
    /\ org => role[Founder] = "OWNER"
    /\ ~org => \A u \in Users : role[u] = "NONE"
    /\ \A r \in Requests : req[r].op \in {"set_role", "remove"} => req[r].user # Founder

(* A look leaves the founder alone if what it starts does.                 *)
LEMMA FounderLook ==
    ASSUME TypeOK, FounderOwns, NEW r \in Requests, NEW q, Look(r, q),
           q.op \in {"set_role", "remove"} => q.user # Founder
    PROVE  FounderOwns'
BY DEF FounderOwns, Look, TypeOK

(* So does a commit that has left the founder's row alone.                 *)
LEMMA FounderCommit ==
    ASSUME TypeOK, FounderOwns, NEW r \in Requests, Commit(r),
           org' => role'[Founder] = "OWNER",
           ~org' => \A u \in Users : role'[u] = "NONE"
    PROVE  FounderOwns'
BY DEF FounderOwns, Commit, TypeOK, Idle

(* Every step leaves the founder's row alone.                              *)
LEMMA FounderStep == TypeOK /\ FounderOwns /\ [Next]_vars => FounderOwns'
<1> SUFFICES ASSUME TypeOK, FounderOwns, [Next]_vars PROVE FounderOwns'
  OBVIOUS
<1> USE MembershipAssumption
<1>1. ASSUME NEW r \in Requests, NEW a \in Users, NEW u \in Users, NEW g \in Roles,
             CreateInvitation(r, a, u, g)
      PROVE  FounderOwns'
  BY <1>1, FounderLook DEF CreateInvitation
<1>2. ASSUME NEW r \in Requests, NEW a \in Users, NEW u \in Users, NEW g \in Roles,
             UpdateMemberRole(r, a, u, g)
      PROVE  FounderOwns'
  <2>1. u # Founder
    BY <1>2 DEF UpdateMemberRole, MaySetRole, FounderOwns
  <2> QED
    BY <1>2, <2>1, FounderLook DEF UpdateMemberRole
<1>3. ASSUME NEW r \in Requests, NEW a \in Users, NEW u \in Users, RemoveMember(r, a, u)
      PROVE  FounderOwns'
  <2>1. u # Founder
    BY <1>3 DEF RemoveMember, MayRemove, FounderOwns, Roles
  <2> QED
    BY <1>3, <2>1, FounderLook DEF RemoveMember
<1>4. ASSUME NEW r \in Requests, NEW a \in Users, DeleteOrganization(r, a) PROVE FounderOwns'
  BY <1>4, FounderLook DEF DeleteOrganization
<1>5. ASSUME NEW r \in Requests, NEW a \in Users, NEW i \in Invitations,
             RevokeInvitation(r, a, i)
      PROVE  FounderOwns'
  BY <1>5, FounderLook DEF RevokeInvitation
<1>6. ASSUME NEW r \in Requests, NEW i \in Invitations,
             AcceptInvitation(r, i) \/ DeclineInvitation(r, i)
      PROVE  FounderOwns'
  BY <1>6, FounderLook DEF AcceptInvitation, DeclineInvitation
<1>7. ASSUME NEW r \in Requests, AdmitInvitation(r) PROVE FounderOwns'
  BY <1>7 DEF AdmitInvitation, FounderOwns, TypeOK
<1>8. ASSUME NEW r \in Requests, NEW i \in Invitations, SendInvitation(r, i) PROVE FounderOwns'
  BY <1>8, FounderCommit DEF SendInvitation, FounderOwns
<1>9. ASSUME NEW r \in Requests, Join(r) PROVE FounderOwns'
  BY <1>9, FounderCommit DEF Join, FounderOwns, TypeOK
<1>10. ASSUME NEW r \in Requests, SettleInvitation(r) PROVE FounderOwns'
  BY <1>10, FounderCommit DEF SettleInvitation, FounderOwns
<1>11. ASSUME NEW r \in Requests, WriteRole(r) PROVE FounderOwns'
  BY <1>11, FounderCommit DEF WriteRole, FounderOwns, TypeOK, RequestOK
<1>12. ASSUME NEW r \in Requests, DeleteMembership(r) PROVE FounderOwns'
  BY <1>12, FounderCommit DEF DeleteMembership, FounderOwns, TypeOK
<1>13. ASSUME NEW r \in Requests, DeleteRows(r) PROVE FounderOwns'
  BY <1>13, FounderCommit DEF DeleteRows
<1>14. ASSUME NEW r \in Requests, Rollback(r) PROVE FounderOwns'
  BY <1>14 DEF Rollback, FounderOwns, TypeOK, Idle
<1>15. CASE ExpireStaleInvitations \/ \E i \in Invitations : InvitationLapses(i)
  BY <1>15 DEF ExpireStaleInvitations, InvitationLapses, FounderOwns
<1>16. CASE UNCHANGED vars
  BY <1>16 DEF vars, FounderOwns
<1> QED
  BY <1>1, <1>2, <1>3, <1>4, <1>5, <1>6, <1>7, <1>8, <1>9, <1>10, <1>11, <1>12, <1>13,
     <1>14, <1>15, <1>16 DEF Next

(***************************************************************************)
(* Whatever update_member_role, remove_member and accept_invitation do at  *)
(* the same time, an organization that exists has an owner.                *)
(***************************************************************************)
THEOREM OrganizationHasOwner == Spec => []HasOwner
<1>1. Init => FounderOwns
  BY MembershipAssumption DEF Init, FounderOwns, Idle
<1>2. FounderOwns => HasOwner
  BY MembershipAssumption DEF FounderOwns, HasOwner
<1> QED
  BY <1>1, <1>2, TypeInit, TypeStep, FounderStep, PTL DEF Spec

-----------------------------------------------------------------------------
(***************************************************************************)
(* What a request has found still holds, as long as no commit has          *)
(* overtaken it.                                                           *)
(***************************************************************************)
Fits(q) ==
    /\ q.op \in {"counted", "admitted"} =>
          role[q.user] = "NONE" /\ \A i \in Open : sentTo[i] # q.user
    /\ q.op = "counted" => q.members = Cardinality(Members)
    /\ q.op = "admitted" => Cardinality(Members) + Cardinality(Open) < limit
    /\ q.op = "accept" =>
          q.inv \in Open /\ sentTo[q.inv] = q.by /\ role[q.by] = "NONE"
    /\ q.op \in {"decline", "revoke"} => status[q.inv] = "PENDING"
    /\ q.op \in {"set_role", "remove"} => role[q.user] \notin {"OWNER", "NONE"}

FindingsHold ==
    /\ \A p \in Requests \ stale : Fits(req[p])
    /\ \A p \in Requests :
          req[p].op \in {"accept", "decline", "revoke"} => status[req[p].inv] # "free"

SeatInv == TypeOK /\ FindingsHold /\ SeatsWithinPlan /\ NoSpareInvitation

(* What no step does: open an invitation again, or send it elsewhere.      *)
Ages ==
    /\ limit' = limit
    /\ lapsed \subseteq lapsed'
    /\ \A i \in Invitations : status[i] # "free" =>
          /\ status'[i] # "free"
          /\ sentTo'[i] = sentTo[i]
          /\ status'[i] = "PENDING" => status[i] = "PENDING"

(* Without a new invitation, what is open was open before.                 *)
LEMMA OpenShrinks ==
    ASSUME TypeOK, TypeOK', Ages, ~Sent
    PROVE  /\ Open' \subseteq Open
           /\ \A i \in Open' : sentTo'[i] = sentTo[i]
           /\ Cardinality(Open') \in Nat /\ Cardinality(Open') <= Cardinality(Open)
<1>1. Open' \subseteq Open /\ \A i \in Open' : sentTo'[i] = sentTo[i]
  BY DEF Open, Ages, Sent
<1>2. IsFiniteSet(Open)
  BY Finite
<1> QED
  BY <1>1, <1>2, FS_Subset, FS_CardinalityType

(* The findings of a request that is not overtaken keep holding.           *)
LEMMA FindingsKept ==
    ASSUME TypeOK, TypeOK', Ages, NEW p \in Requests, Fits(req[p]), ~Overtaken(p)
    PROVE  req'[p] = req[p] => Fits(req[p])'
<1> SUFFICES ASSUME req'[p] = req[p] PROVE Fits(req[p])'
  OBVIOUS
<1> DEFINE q == req[p]
<1>t. RequestOK(q)
  BY DEF TypeOK
<1>1. ASSUME q.op \in {"counted", "admitted"} PROVE Fits(q)'
  <2>1. role' = role /\ ~Sent
    BY <1>1 DEF Overtaken
  <2>2. Members' = Members /\ limit' = limit
    BY <2>1 DEF Members, Ages
  <2> QED
    BY <1>1, <2>1, <2>2, OpenShrinks, Finite, MembershipAssumption DEF Fits, TypeOK
<1>2. ASSUME q.op \in {"accept", "decline", "revoke"} PROVE Fits(q)'
  <2>1. status'[q.inv] = status[q.inv] /\ role'[q.by] = role[q.by]
    BY <1>2 DEF Overtaken
  <2>2. q.inv \notin lapsed => q.inv \notin lapsed'
    BY <1>2 DEF Overtaken
  <2>3. status[q.inv] = "PENDING"
    BY <1>2 DEF Fits, Open
  <2>4. sentTo'[q.inv] = sentTo[q.inv]
    BY <1>2, <1>t, <2>3 DEF Ages, RequestOK
  <2> QED
    BY <1>2, <2>1, <2>2, <2>3, <2>4 DEF Fits, Open
<1>3. ASSUME q.op \in {"set_role", "remove"} PROVE Fits(q)'
  BY <1>3 DEF Overtaken, Fits
<1>4. ASSUME q.op \in {"idle", "delete"} PROVE Fits(q)'
  BY <1>4 DEF Fits
<1> QED
  BY <1>1, <1>2, <1>3, <1>4, <1>t DEF RequestOK

(* A look adds findings that hold.                                         *)
LEMMA FindingsLook ==
    ASSUME SeatInv, NEW r \in Requests, NEW q, Look(r, q), Fits(q), TypeOK'
    PROVE  SeatInv'
<1>1. \A x : Fits(x)' <=> Fits(x)
  BY DEF Look, Fits, Open, Members
<1>2. req' = [req EXCEPT ![r] = q] /\ status' = status /\ stale' = stale
  BY DEF Look
<1>3. \A p \in Requests : req'[p] = IF p = r THEN q ELSE req[p]
  BY <1>2 DEF SeatInv, TypeOK
<1>4. q.op \in {"accept", "decline", "revoke"} => status[q.inv] # "free"
  BY DEF Fits, Open
<1>5. FindingsHold'
  BY <1>1, <1>2, <1>3, <1>4 DEF SeatInv, FindingsHold
<1>6. SeatsWithinPlan' /\ NoSpareInvitation'
  BY DEF SeatInv, Look, SeatsWithinPlan, NoSpareInvitation, Open, Members
<1> QED
  BY <1>5, <1>6 DEF SeatInv

(* A commit overtakes every request whose findings it changes.             *)
LEMMA FindingsCommit ==
    ASSUME TypeOK, FindingsHold, NEW r \in Requests, Commit(r), Ages, TypeOK'
    PROVE  FindingsHold'
<1>0. ASSUME NEW p \in Requests, req'[p].op \in {"accept", "decline", "revoke"}
      PROVE  status'[req'[p].inv] # "free"
  <2>1. p # r /\ req'[p] = req[p]
    BY <1>0 DEF Commit, Idle, TypeOK
  <2> QED
    BY <1>0, <2>1 DEF FindingsHold, Ages, TypeOK, RequestOK
<1> SUFFICES ASSUME NEW p \in Requests, p \notin stale' PROVE Fits(req[p])'
  BY <1>0 DEF FindingsHold
<1>1. CASE p = r
  BY <1>1 DEF Commit, Idle, TypeOK, Fits
<1>2. CASE p # r
  <2>1. req'[p] = req[p] /\ p \notin stale /\ ~Overtaken(p)
    BY <1>2 DEF Commit, TypeOK
  <2> QED
    BY <2>1, FindingsKept DEF FindingsHold
<1> QED
  BY <1>1, <1>2

(* Where nobody joins and nothing is sent, the limit cannot be exceeded.   *)
LEMMA SeatsKept ==
    ASSUME SeatInv, TypeOK', Ages, ~Sent, ~Joined, ~overlapped' => ~overlapped
    PROVE  SeatsWithinPlan' /\ NoSpareInvitation'
<1>1. Members' \subseteq Members
  BY DEF Members, Joined, SeatInv, TypeOK
<1>2. Cardinality(Members') \in Nat /\ Cardinality(Members') <= Cardinality(Members)
  BY <1>1, Finite, FS_Subset, FS_CardinalityType
<1>3. /\ Open' \subseteq Open /\ \A i \in Open' : sentTo'[i] = sentTo[i]
      /\ Cardinality(Open') \in Nat /\ Cardinality(Open') <= Cardinality(Open)
  BY OpenShrinks DEF SeatInv
<1>4. SeatsWithinPlan'
  BY <1>2, <1>3, Finite, MembershipAssumption DEF SeatInv, SeatsWithinPlan, Ages, TypeOK
<1>5. NoSpareInvitation'
  <2> SUFFICES ASSUME ~overlapped', NEW i \in Open'
               PROVE  role'[sentTo'[i]] = "NONE" /\ \A j \in Open' \ {i} : sentTo'[j] # sentTo'[i]
    BY DEF NoSpareInvitation
  <2>1. i \in Open /\ sentTo'[i] = sentTo[i] /\ sentTo[i] \in Users
    BY <1>3 DEF SeatInv, TypeOK, Open
  <2>2. role[sentTo[i]] = "NONE"
    BY <2>1 DEF SeatInv, NoSpareInvitation
  <2> QED
    BY <1>3, <2>1, <2>2 DEF SeatInv, NoSpareInvitation, Joined
<1> QED
  BY <1>4, <1>5

(* A request that has been admitted and not overtaken sends an invitation  *)
(* that has a seat left, to somebody who has neither seat nor invitation.  *)
LEMMA SeatsSend ==
    ASSUME SeatInv, NEW r \in Requests, NEW i \in Invitations, SendInvitation(r, i), TypeOK'
    PROVE  Ages /\ SeatsWithinPlan' /\ NoSpareInvitation'
<1> DEFINE u == req[r].user
<1>t. TypeOK /\ RequestOK(req[r]) /\ u \in Users
  BY DEF SeatInv, TypeOK, SendInvitation, RequestOK
<1>1. Ages
  BY <1>t DEF Ages, SendInvitation, TypeOK
<1> SUFFICES ASSUME ~overlapped' PROVE SeatsWithinPlan' /\ NoSpareInvitation'
  BY <1>1 DEF SeatsWithinPlan, NoSpareInvitation
<1>2. ~overlapped /\ r \notin stale
  BY DEF SendInvitation, Commit
<1>3. /\ role[u] = "NONE" /\ \A j \in Open : sentTo[j] # u
      /\ Cardinality(Members) + Cardinality(Open) < limit
  BY <1>2 DEF SeatInv, FindingsHold, Fits, SendInvitation
<1>4. Members' = Members /\ Open' \subseteq Open \cup {i} /\ i \notin Open
  BY <1>t DEF Members, Open, SendInvitation, TypeOK
<1>5. SeatsWithinPlan'
  <2>1. IsFiniteSet(Open \cup {i}) /\ Cardinality(Open \cup {i}) = Cardinality(Open) + 1
    BY <1>4, Finite, FS_AddElement
  <2>2. IsFiniteSet(Open') /\ Cardinality(Open') <= Cardinality(Open) + 1
    BY <1>4, <2>1, FS_Subset
  <2>3. Cardinality(Open') \in Nat
    BY <2>2, FS_CardinalityType
  <2> QED
    BY <1>1, <1>3, <1>4, <1>t, <2>2, <2>3, Finite, MembershipAssumption
       DEF SeatsWithinPlan, Ages, TypeOK
<1>6. NoSpareInvitation'
  <2>1. sentTo'[i] = u /\ \A j \in Open : sentTo'[j] = sentTo[j]
    BY <1>4, <1>t DEF SendInvitation, TypeOK, Open
  <2>2. role' = role
    BY DEF SendInvitation
  <2> QED
    BY <1>2, <1>3, <1>4, <2>1, <2>2 DEF NoSpareInvitation, SeatInv
<1> QED
  BY <1>5, <1>6

(* Accepting an invitation trades it for a membership.                     *)
LEMMA SeatsJoin ==
    ASSUME SeatInv, NEW r \in Requests, Join(r), TypeOK'
    PROVE  ~overlapped' => SeatsWithinPlan' /\ NoSpareInvitation'
<1> DEFINE u == req[r].by
           i == req[r].inv
<1> SUFFICES ASSUME ~overlapped' PROVE SeatsWithinPlan' /\ NoSpareInvitation'
  OBVIOUS
<1>t. TypeOK /\ u \in Users /\ i \in Invitations
  BY DEF SeatInv, TypeOK, RequestOK, Join
<1>1. ~overlapped /\ r \notin stale
  BY DEF Join, Commit
<1>2. i \in Open /\ sentTo[i] = u /\ role[u] = "NONE"
  BY <1>1 DEF SeatInv, FindingsHold, Fits, Join
<1>3. Members' = Members \cup {u} /\ u \notin Members
  BY <1>t, <1>2 DEF Members, Join, TypeOK, Roles
<1>4. Open' = Open \ {i}
  BY <1>t DEF Open, Join, TypeOK
<1>5. SeatsWithinPlan'
  <2>1. Cardinality(Members') = Cardinality(Members) + 1
    BY <1>3, Finite, FS_AddElement
  <2>2. Cardinality(Open') = Cardinality(Open) - 1
    BY <1>2, <1>4, Finite, FS_RemoveElement
  <2> QED
    BY <1>1, <1>t, <2>1, <2>2, Finite, MembershipAssumption
       DEF SeatsWithinPlan, SeatInv, Join, TypeOK
<1>6. NoSpareInvitation'
  <2>1. \A j \in Open' : j \in Open /\ sentTo[j] \in Users /\ sentTo[j] # u
    BY <1>1, <1>2, <1>4, <1>t DEF SeatInv, NoSpareInvitation, TypeOK, Open
  <2>2. sentTo' = sentTo /\ \A v \in Users \ {u} : role'[v] = role[v]
    BY <1>t DEF Join, TypeOK
  <2> QED
    BY <1>1, <2>1, <2>2 DEF SeatInv, NoSpareInvitation
<1> QED
  BY <1>5, <1>6

(***************************************************************************)
(* The three claims about requests that are not overtaken are kept by      *)
(* every step, and so are owners and processed invitations.                *)
(***************************************************************************)
OwnerStays ==
    \A u \in Users : role[u] = "OWNER" /\ role'[u] # "OWNER" => ~org' \/ overlapped'

ProcessedStays ==
    \A i \in Invitations :
        /\ status[i] \in {"ACCEPTED", "DECLINED", "REVOKED", "EXPIRED"}
        /\ status'[i] # status[i]
        => ~org' \/ overlapped'

(* Every step keeps SeatInv, and with it the two action properties hold of *)
(* the step.                                                               *)
LEMMA SeatStep == SeatInv /\ [Next]_vars => SeatInv' /\ OwnerStays /\ ProcessedStays
<1> SUFFICES ASSUME SeatInv, [Next]_vars PROVE SeatInv' /\ OwnerStays /\ ProcessedStays
  OBVIOUS
<1> DEFINE Goal == SeatInv' /\ OwnerStays /\ ProcessedStays
<1>t. TypeOK /\ TypeOK' /\ FindingsHold
  BY TypeStep DEF SeatInv
<1>0. ASSUME NEW r \in Requests, NEW q, Look(r, q), Fits(q) PROVE Goal
  BY <1>0, <1>t, FindingsLook DEF Look, OwnerStays, ProcessedStays
<1>1. ASSUME NEW r \in Requests, NEW a \in Users, NEW u \in Users, NEW g \in Roles,
             CreateInvitation(r, a, u, g)
      PROVE  Goal
  <2>1. Fits([op |-> "counted", by |-> a, user |-> u, role |-> g,
              members |-> Cardinality(Members)])
    BY <1>1 DEF CreateInvitation, MayInvite, Fits
  <2> QED
    BY <1>0, <1>1, <2>1 DEF CreateInvitation
<1>2. ASSUME NEW r \in Requests, NEW a \in Users, NEW u \in Users, NEW g \in Roles,
             UpdateMemberRole(r, a, u, g)
      PROVE  Goal
  <2>1. Fits([op |-> "set_role", by |-> a, user |-> u, role |-> g])
    BY <1>2 DEF UpdateMemberRole, MaySetRole, Fits, Roles
  <2> QED
    BY <1>0, <1>2, <2>1 DEF UpdateMemberRole
<1>3. ASSUME NEW r \in Requests, NEW a \in Users, NEW u \in Users, RemoveMember(r, a, u)
      PROVE  Goal
  <2>1. Fits([op |-> "remove", by |-> a, user |-> u])
    BY <1>3 DEF RemoveMember, MayRemove, Fits, Roles
  <2> QED
    BY <1>0, <1>3, <2>1 DEF RemoveMember
<1>4. ASSUME NEW r \in Requests, NEW a \in Users, DeleteOrganization(r, a) PROVE Goal
  <2>1. Fits([op |-> "delete", by |-> a])
    BY DEF Fits
  <2> QED
    BY <1>0, <1>4, <2>1 DEF DeleteOrganization
<1>5. ASSUME NEW r \in Requests, NEW a \in Users, NEW i \in Invitations,
             RevokeInvitation(r, a, i)
      PROVE  Goal
  <2>1. Fits([op |-> "revoke", by |-> a, inv |-> i])
    BY <1>5 DEF RevokeInvitation, Fits
  <2> QED
    BY <1>0, <1>5, <2>1 DEF RevokeInvitation
<1>6. ASSUME NEW r \in Requests, NEW i \in Invitations, AcceptInvitation(r, i) PROVE Goal
  <2>1. Fits([op |-> "accept", by |-> sentTo[i], inv |-> i])
    BY <1>6 DEF AcceptInvitation, Fits
  <2> QED
    BY <1>0, <1>6, <2>1 DEF AcceptInvitation
<1>7. ASSUME NEW r \in Requests, NEW i \in Invitations, DeclineInvitation(r, i) PROVE Goal
  <2>1. Fits([op |-> "decline", by |-> sentTo[i], inv |-> i])
    BY <1>7 DEF DeclineInvitation, Fits, Open
  <2> QED
    BY <1>0, <1>7, <2>1 DEF DeclineInvitation
<1>8. ASSUME NEW r \in Requests, AdmitInvitation(r) PROVE Goal
  <2> DEFINE q == [op |-> "admitted", by |-> req[r].by, user |-> req[r].user, role |-> req[r].role]
  <2>1. \A x : Fits(x)' <=> Fits(x)
    BY <1>8 DEF AdmitInvitation, Fits, Open, Members
  <2>2. r \notin stale => Fits(q)
    BY <1>8, <1>t DEF AdmitInvitation, HasSeat, FindingsHold, Fits
  <2>3. \A p \in Requests : req'[p] = IF p = r THEN q ELSE req[p]
    BY <1>8, <1>t DEF AdmitInvitation, TypeOK
  <2>4. stale' = stale /\ status' = status
    BY <1>8 DEF AdmitInvitation
  <2>5. FindingsHold'
    BY <1>t, <2>1, <2>2, <2>3, <2>4 DEF FindingsHold
  <2>6. SeatsWithinPlan' /\ NoSpareInvitation'
    BY <1>8 DEF AdmitInvitation, SeatInv, SeatsWithinPlan, NoSpareInvitation, Open, Members
  <2> QED
    BY <1>8, <1>t, <2>5, <2>6 DEF SeatInv, AdmitInvitation, OwnerStays, ProcessedStays
<1>9. ASSUME NEW r \in Requests, NEW i \in Invitations, SendInvitation(r, i) PROVE Goal
  <2>1. Ages /\ SeatsWithinPlan' /\ NoSpareInvitation'
    BY <1>9, <1>t, SeatsSend
  <2>2. FindingsHold'
    BY <1>9, <1>t, <2>1, FindingsCommit DEF SendInvitation
  <2> QED
    BY <1>9, <1>t, <2>1, <2>2 DEF SeatInv, SendInvitation, OwnerStays, ProcessedStays, TypeOK
<1>10. ASSUME NEW r \in Requests, Join(r) PROVE Goal
  <2>1. Ages
    BY <1>10, <1>t DEF Join, Ages, TypeOK, RequestOK
  <2>2. FindingsHold'
    BY <1>10, <1>t, <2>1, FindingsCommit DEF Join
  <2>3. SeatsWithinPlan' /\ NoSpareInvitation'
    BY <1>10, <1>t, SeatsJoin DEF SeatsWithinPlan, NoSpareInvitation
  <2>4. /\ \A u \in Users : role'[u] # role[u] => role[u] = "NONE"
        /\ \A i \in Invitations : status'[i] # status[i] => i = req[r].inv
    BY <1>10, <1>t DEF Join, TypeOK
  <2>5. ~overlapped' => status[req[r].inv] = "PENDING"
    BY <1>10, <1>t DEF Join, Commit, FindingsHold, Fits, Open
  <2>6. OwnerStays /\ ProcessedStays
    BY <1>t, <2>4, <2>5 DEF OwnerStays, ProcessedStays, TypeOK
  <2> QED
    BY <1>t, <2>2, <2>3, <2>6 DEF SeatInv
<1>11. ASSUME NEW r \in Requests, SettleInvitation(r) PROVE Goal
  <2>1. Ages /\ ~Sent /\ ~Joined
    BY <1>11, <1>t DEF SettleInvitation, Ages, TypeOK, RequestOK, Sent, Joined, FindingsHold
  <2>2. FindingsHold'
    BY <1>11, <1>t, <2>1, FindingsCommit DEF SettleInvitation
  <2>3. SeatsWithinPlan' /\ NoSpareInvitation'
    BY <1>11, <1>t, <2>1, SeatsKept DEF SettleInvitation, Commit
  <2>4. OwnerStays /\ ProcessedStays
    BY <1>11, <1>t DEF SettleInvitation, Commit, OwnerStays, ProcessedStays, FindingsHold, Fits, TypeOK
  <2> QED
    BY <1>t, <2>2, <2>3, <2>4 DEF SeatInv
<1>12. ASSUME NEW r \in Requests, WriteRole(r) PROVE Goal
  <2>1. Ages /\ ~Sent /\ ~Joined
    BY <1>12, <1>t DEF WriteRole, Ages, TypeOK, RequestOK, Sent, Joined
  <2>2. FindingsHold'
    BY <1>12, <1>t, <2>1, FindingsCommit DEF WriteRole
  <2>3. SeatsWithinPlan' /\ NoSpareInvitation'
    BY <1>12, <1>t, <2>1, SeatsKept DEF WriteRole, Commit
  <2>4. OwnerStays /\ ProcessedStays
    BY <1>12, <1>t DEF WriteRole, Commit, OwnerStays, ProcessedStays, FindingsHold, Fits, TypeOK
  <2> QED
    BY <1>t, <2>2, <2>3, <2>4 DEF SeatInv
<1>13. ASSUME NEW r \in Requests, DeleteMembership(r) PROVE Goal
  <2>1. Ages /\ ~Sent /\ ~Joined
    BY <1>13, <1>t DEF DeleteMembership, Ages, TypeOK, RequestOK, Sent, Joined
  <2>2. FindingsHold'
    BY <1>13, <1>t, <2>1, FindingsCommit DEF DeleteMembership
  <2>3. SeatsWithinPlan' /\ NoSpareInvitation'
    BY <1>13, <1>t, <2>1, SeatsKept DEF DeleteMembership, Commit
  <2>4. OwnerStays /\ ProcessedStays
    BY <1>13, <1>t DEF DeleteMembership, Commit, OwnerStays, ProcessedStays, FindingsHold, Fits, TypeOK
  <2> QED
    BY <1>t, <2>2, <2>3, <2>4 DEF SeatInv
<1>14. ASSUME NEW r \in Requests, DeleteRows(r) PROVE Goal
  <2>1. Ages /\ ~Joined
    BY <1>14, <1>t DEF DeleteRows, Ages, TypeOK, Joined
  <2>2. FindingsHold'
    BY <1>14, <1>t, <2>1, FindingsCommit DEF DeleteRows
  <2>3. Members' = {} /\ Open' = {}
    BY <1>14 DEF DeleteRows, Members, Open
  <2>4. SeatsWithinPlan' /\ NoSpareInvitation'
    BY <1>t, <2>1, <2>3, FS_EmptySet, MembershipAssumption
       DEF SeatsWithinPlan, NoSpareInvitation, TypeOK, Ages
  <2> QED
    BY <1>14, <1>t, <2>2, <2>4 DEF SeatInv, DeleteRows, OwnerStays, ProcessedStays
<1>15. ASSUME NEW r \in Requests, Rollback(r) PROVE Goal
  <2>1. \A x : Fits(x)' <=> Fits(x)
    BY <1>15 DEF Rollback, Fits, Open, Members
  <2>2. Fits(Idle)
    BY DEF Fits, Idle
  <2>3. \A p \in Requests : req'[p] = IF p = r THEN Idle ELSE req[p]
    BY <1>15, <1>t DEF Rollback, TypeOK
  <2>4. stale' = stale \ {r} /\ status' = status /\ Idle.op = "idle"
    BY <1>15 DEF Rollback, Idle
  <2>5. FindingsHold'
    BY <1>t, <2>1, <2>2, <2>3, <2>4 DEF FindingsHold
  <2>6. SeatsWithinPlan' /\ NoSpareInvitation'
    BY <1>15 DEF Rollback, SeatInv, SeatsWithinPlan, NoSpareInvitation, Open, Members
  <2> QED
    BY <1>15, <1>t, <2>5, <2>6 DEF SeatInv, Rollback, OwnerStays, ProcessedStays
<1>16. CASE ExpireStaleInvitations \/ \E i \in Invitations : InvitationLapses(i)
  <2>1. Ages /\ ~Sent /\ ~Joined
    BY <1>16, <1>t DEF ExpireStaleInvitations, InvitationLapses, Ages, TypeOK, Sent, Joined
  <2>2. req' = req /\ stale' = stale \cup {p \in Requests : Overtaken(p)} /\ overlapped' = overlapped
    BY <1>16 DEF ExpireStaleInvitations, InvitationLapses
  <2>3. FindingsHold'
    <3>1. \A p \in Requests \ stale' : Fits(req[p])'
      BY <1>t, <2>1, <2>2, FindingsKept DEF FindingsHold
    <3>2. \A p \in Requests :
             req[p].op \in {"accept", "decline", "revoke"} => status'[req[p].inv] # "free"
      BY <1>t, <2>1 DEF FindingsHold, Ages, TypeOK, RequestOK
    <3> QED
      BY <2>2, <3>1, <3>2 DEF FindingsHold
  <2>4. SeatsWithinPlan' /\ NoSpareInvitation'
    BY <1>t, <2>1, <2>2, SeatsKept
  <2>5. OwnerStays /\ ProcessedStays
    BY <1>16, <1>t DEF ExpireStaleInvitations, InvitationLapses, OwnerStays, ProcessedStays, TypeOK
  <2> QED
    BY <1>t, <2>3, <2>4, <2>5 DEF SeatInv
<1>17. CASE UNCHANGED vars
  <2>1. (\A x : Fits(x)' <=> Fits(x)) /\ Members' = Members /\ Open' = Open
    BY <1>17 DEF vars, Fits, Open, Members
  <2> QED
    BY <1>17, <1>t, <2>1 DEF vars, SeatInv, FindingsHold, SeatsWithinPlan, NoSpareInvitation,
                             OwnerStays, ProcessedStays
<1> QED
  BY <1>1, <1>2, <1>3, <1>4, <1>5, <1>6, <1>7, <1>8, <1>9, <1>10, <1>11, <1>12, <1>13,
     <1>14, <1>15, <1>16, <1>17 DEF Next

(* It holds to begin with: the founder fills one seat.                     *)
LEMMA SeatInit == Init => SeatInv
<1> SUFFICES ASSUME Init PROVE SeatInv
  OBVIOUS
<1>1. Members = {Founder} /\ Open = {}
  BY MembershipAssumption DEF Init, Members, Open
<1>2. Cardinality(Members) = 1 /\ Cardinality(Open) = 0
  BY <1>1, FS_Singleton, FS_EmptySet
<1>3. SeatsWithinPlan /\ NoSpareInvitation
  BY <1>1, <1>2, MembershipAssumption DEF Init, SeatsWithinPlan, NoSpareInvitation
<1>4. FindingsHold
  BY DEF Init, FindingsHold, Fits, Idle
<1> QED
  BY <1>3, <1>4, TypeInit DEF SeatInv

(***************************************************************************)
(* create_invitation keeps members and open invitations within the plan,   *)
(* whatever the order of requests, as long as none commits on findings     *)
(* another has overtaken.                                                  *)
(***************************************************************************)
THEOREM SeatsStayWithinPlan == Spec => []SeatsWithinPlan
<1>1. SeatInv => SeatsWithinPlan
  BY DEF SeatInv
<1> QED
  BY <1>1, SeatInit, SeatStep, PTL DEF Spec

(***************************************************************************)
(* Under the same condition a member has no open invitation and nobody has *)
(* two, so that remove_member is not undone by an old one.                 *)
(***************************************************************************)
THEOREM NobodyHasASpareInvitation == Spec => []NoSpareInvitation
<1>1. SeatInv => NoSpareInvitation
  BY DEF SeatInv
<1> QED
  BY <1>1, SeatInit, SeatStep, PTL DEF Spec

(***************************************************************************)
(* Under the same condition no owner is demoted or removed by              *)
(* update_member_role and remove_member.                                   *)
(***************************************************************************)
THEOREM OwnersAreKept == Spec => OwnerKept
<1>1. SeatInv /\ [Next]_vars =>
        [\A u \in Users : role[u] = "OWNER" /\ role'[u] # "OWNER" => ~org' \/ overlapped']_vars
  BY SeatStep DEF OwnerStays
<1> QED
  BY <1>1, SeatInit, SeatStep, PTL DEF Spec, OwnerKept

(***************************************************************************)
(* Under the same condition an invitation that has been accepted,          *)
(* declined, revoked or expired stays so.                                  *)
(***************************************************************************)
THEOREM InvitationsAreProcessedOnce == Spec => ProcessedOnce
<1>1. SeatInv /\ [Next]_vars =>
        [\A i \in Invitations :
            /\ status[i] \in {"ACCEPTED", "DECLINED", "REVOKED", "EXPIRED"}
            /\ status'[i] # status[i]
            => ~org' \/ overlapped']_vars
  BY SeatStep DEF ProcessedStays
<1> QED
  BY <1>1, SeatInit, SeatStep, PTL DEF Spec, ProcessedOnce

=============================================================================
