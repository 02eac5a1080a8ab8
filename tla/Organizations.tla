--------------------------- MODULE Organizations ---------------------------
(***************************************************************************)
(* Organizations of one tenant, their members and the invitations to them. *)
(* Each operation is one mutateState call and so one atomic step; one that *)
(* throws changes nothing (that includes the expired status acceptInvite   *)
(* sets before it throws).  Invitations are never removed: they are slots, *)
(* used in the order of their creation, and the slot stands for the token. *)
(* Names, plans, budgets and metadata of organizations are left out.       *)
(***************************************************************************)
EXTENDS Naturals

CONSTANTS Actors, OrgIds, Emails,
          NoInvite,
          MaxInvites,   \* bound on the invitations ever made
          InviteTicks   \* INVITE_EXPIRY_MS

ASSUME InvitesAssumption == MaxInvites \in Nat /\ InviteTicks \in Nat

VARIABLES
  status,   \* organizations: status, or "absent"
  role,     \* organization_members: role by organization and actor, or "none"
  invites,  \* organization_invites
  invited   \* number of slots used so far

orgVars == <<status, role, invites, invited>>

Slots == 1..MaxInvites
Statuses == {"active", "paused", "degraded"}
Roles == {"viewer", "operator", "admin"}

Invite == [org : OrgIds, email : Emails, role : Roles, life : 0..InviteTicks,
           status : {"pending", "accepted", "revoked"}]

ASSUME NoInviteAssumption == NoInvite \notin Invite

Exists(o) == status[o] # "absent"
IsAdmin(a, o) == role[o][a] = "admin"
Made == {i \in Slots : invites[i] # NoInvite}

OrgInit == /\ status = [o \in OrgIds |-> "absent"]
           /\ role = [o \in OrgIds |-> [a \in Actors |-> "none"]]
           /\ invites = [i \in Slots |-> NoInvite]
           /\ invited = 0

----------------------------------------------------------------------------

CreateOrganization(a, o) == /\ ~Exists(o)
                            /\ status' = [status EXCEPT ![o] = "active"]
                            /\ role' = [role EXCEPT ![o][a] = "admin"]
                            /\ UNCHANGED <<invites, invited>>

UpdateOrganization(a, o, s) == /\ Exists(o) /\ IsAdmin(a, o)
                               /\ status' = [status EXCEPT ![o] = s]
                               /\ UNCHANGED <<role, invites, invited>>

\* The invitations to the organization are left as they are.
DeleteOrganization(a, o) ==
  /\ Exists(o) /\ IsAdmin(a, o)
  /\ status' = [status EXCEPT ![o] = "absent"]
  /\ role' = [role EXCEPT ![o] = [m \in Actors |-> "none"]]
  /\ UNCHANGED <<invites, invited>>

\* Mutant: a member may always set its own role.
SetOwnRole(a, o, subject, r) ==
  /\ Exists(o)
  /\ IsAdmin(a, o) \/ (a = subject /\ role[o][a] # "none")
  /\ role' = [role EXCEPT ![o][subject] = r]
  /\ UNCHANGED <<status, invites, invited>>

\* The admin may name itself.
SetOrganizationMemberRole(a, o, subject, r) ==
  /\ Exists(o) /\ IsAdmin(a, o)
  /\ role' = [role EXCEPT ![o][subject] = r]
  /\ UNCHANGED <<status, invites, invited>>

RemoveOrganizationMember(a, o, subject) ==
  /\ Exists(o) /\ IsAdmin(a, o)
  /\ a # subject
  /\ role[o][subject] # "none"
  /\ role' = [role EXCEPT ![o][subject] = "none"]
  /\ UNCHANGED <<status, invites, invited>>

----------------------------------------------------------------------------
(* Invitations *)

Pending(o, email) == {i \in Made : /\ invites[i].org = o
                                   /\ invites[i].email = email
                                   /\ invites[i].status = "pending"}

CreateInvite(a, o, email, r) ==
  /\ Exists(o) /\ IsAdmin(a, o)
  /\ Pending(o, email) = {}
  /\ invited + 1 \in Slots
  /\ invites' = [invites EXCEPT ![invited + 1] =
                   [org |-> o, email |-> email, role |-> r,
                    life |-> InviteTicks, status |-> "pending"]]
  /\ invited' = invited + 1
  /\ UNCHANGED <<status, role>>

\* Mutant: whether the organization still exists is not looked at.
AcceptInviteAnyOrg(a, i) ==
  /\ i \in Made
  /\ invites[i].status = "pending" /\ invites[i].life > 0
  /\ invites' = [invites EXCEPT ![i].status = "accepted"]
  /\ role' = [role EXCEPT ![invites[i].org][a] = invites[i].role]
  /\ UNCHANGED <<status, invited>>

\* Whoever has the token gets the role, in place of any it had before.
AcceptInvite(a, i) ==
  /\ i \in Made
  /\ invites[i].status = "pending" /\ invites[i].life > 0
  /\ Exists(invites[i].org)
  /\ invites' = [invites EXCEPT ![i].status = "accepted"]
  /\ role' = [role EXCEPT ![invites[i].org][a] = invites[i].role]
  /\ UNCHANGED <<status, invited>>

RevokeInvite(a, i) == /\ i \in Made
                      /\ IsAdmin(a, invites[i].org)
                      /\ invites[i].status = "pending"
                      /\ invites' = [invites EXCEPT ![i].status = "revoked"]
                      /\ UNCHANGED <<status, role, invited>>

OrgTick == /\ invites' = [i \in Slots |->
                            IF i \in Made /\ invites[i].life > 0
                              THEN [invites[i] EXCEPT !.life = @ - 1]
                              ELSE invites[i]]
           /\ UNCHANGED <<status, role, invited>>

----------------------------------------------------------------------------

OrgNext == \/ \E a \in Actors, o \in OrgIds :
                \/ CreateOrganization(a, o)
                \/ \E s \in Statuses : UpdateOrganization(a, o, s)
                \/ DeleteOrganization(a, o)
                \/ \E subject \in Actors, r \in Roles :
                     SetOrganizationMemberRole(a, o, subject, r)
                \/ \E subject \in Actors : RemoveOrganizationMember(a, o, subject)
                \/ \E email \in Emails, r \in Roles : CreateInvite(a, o, email, r)
           \/ \E a \in Actors, i \in Slots : AcceptInvite(a, i) \/ RevokeInvite(a, i)
           \/ OrgTick

OrgSpec == OrgInit /\ [][OrgNext]_orgVars

----------------------------------------------------------------------------
(* Properties *)

OrgTypeOK == /\ status \in [OrgIds -> Statuses \cup {"absent"}]
             /\ role \in [OrgIds -> [Actors -> Roles \cup {"none"}]]
             /\ invites \in [Slots -> Invite \cup {NoInvite}]
             /\ invited \in Slots \cup {0}

\* Nobody is a member of an organization that does not exist: an invitation that
\* outlives its organization gives no role in it.
MembersHaveOrganization == \A o \in OrgIds, a \in Actors :
   role[o][a] # "none" => Exists(o)

\* No sequence of removals, role changes and invitations empties an organization
\* that was not deleted.
OrganizationsHaveMembers == \A o \in OrgIds :
   Exists(o) => \E a \in Actors : role[o][a] # "none"

\* There is at most one pending invitation for an address and an organization,
\* also when the organization was deleted and created again meanwhile.
OnePendingPerEmail == \A i, j \in Made :
   /\ invites[i].status = "pending" /\ invites[j].status = "pending"
   /\ invites[i].org = invites[j].org /\ invites[i].email = invites[j].email
   => i = j

\* What holds of the organizations in every state: types, members and
\* organizations belong together, and one open invitation per address.
OrgInvariant == /\ OrgTypeOK /\ MembersHaveOrganization
                /\ OrganizationsHaveMembers /\ OnePendingPerEmail

\* An invitation is settled once: after it was accepted or revoked it gives
\* nobody a role any more.
SettledOnce == \A i \in Made :
   invites[i].status # "pending" => invites'[i].status = invites[i].status

NoAdmin(o) == \A a \in Actors : ~IsAdmin(a, o)

\* The last admin may give up its role.  From then on the organization stays,
\* and it gets an admin again only by an invitation that was made before.
LeaderlessUntilInvited == \A o \in OrgIds : Exists(o) /\ NoAdmin(o) =>
   /\ Exists(o)'
   /\ \/ NoAdmin(o)'
      \/ \E i \in Made : /\ invites[i].org = o /\ invites[i].role = "admin"
                         /\ invites[i].status = "pending"
                         /\ invites'[i].status = "accepted"

\* What no step does: settle an invitation twice, or give an organization that
\* has lost its last admin another one out of nothing.
OrgSteps == [][SettledOnce /\ LeaderlessUntilInvited]_orgVars
=============================================================================
