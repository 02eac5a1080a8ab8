------------------------- MODULE ControlPlaneProofs -------------------------
(***************************************************************************)
(* Proofs about the control plane besides its two stores and its two       *)
(* gateways in the database: Organizations, TenantLedger and               *)
(* MemoryGateway, each in a part of its own.                               *)
(***************************************************************************)
EXTENDS Organizations, TenantLedger, MemoryGateway, FiniteSetTheorems,
        WellFoundedInduction, TLAPS

-----------------------------------------------------------------------------
\* Organizations
(***************************************************************************)
(* Proofs about Organizations, for any actors, organizations and addresses *)
(* and any number of invitations.                                          *)
(***************************************************************************)

\* Slots are used in order: an invitation that exists is not written over.
SlotsInOrder == \A i \in Made : i <= invited

\* The inductive invariant.
OrgInd == OrgInvariant /\ SlotsInOrder

\* What no step does to an invitation or a leaderless organization.
OrgStep == SettledOnce /\ LeaderlessUntilInvited

-----------------------------------------------------------------------------
LEMMA OrgStarts == OrgInit => OrgInd
  BY InvitesAssumption, NoInviteAssumption
     DEF OrgInit, OrgInd, OrgInvariant, OrgTypeOK, MembersHaveOrganization,
         OrganizationsHaveMembers, OnePendingPerEmail, SlotsInOrder, Made, Exists, Slots

\* What an invitation that exists is.
LEMMA MadeIsInvite ==
  ASSUME OrgTypeOK, NEW i \in Made
  PROVE  i \in Slots /\ invites[i] \in Invite
  BY DEF OrgTypeOK, Made

\* Steps that leave the invitations alone keep what is said of them.
LEMMA InvitesAlone ==
  ASSUME OrgInd, UNCHANGED <<invites, invited>>
  PROVE  OnePendingPerEmail' /\ SlotsInOrder' /\ SettledOnce /\ Made' = Made
         /\ invites' \in [Slots -> Invite \cup {NoInvite}] /\ invited' \in Slots \cup {0}
  BY DEF OrgInd, OrgInvariant, OrgTypeOK, OnePendingPerEmail, SlotsInOrder, Made, SettledOnce

\* Steps that leave organizations and roles alone keep what is said of them.
LEMMA MembersAlone ==
  ASSUME OrgInd, UNCHANGED <<status, role>>
  PROVE  MembersHaveOrganization' /\ OrganizationsHaveMembers' /\ LeaderlessUntilInvited
         /\ status' \in [OrgIds -> Statuses \cup {"absent"}]
         /\ role' \in [OrgIds -> [Actors -> Roles \cup {"none"}]]
  BY DEF OrgInd, OrgInvariant, OrgTypeOK, MembersHaveOrganization, OrganizationsHaveMembers,
         LeaderlessUntilInvited, Exists, NoAdmin, IsAdmin

-----------------------------------------------------------------------------
LEMMA CreateOrganizationKeeps ==
  ASSUME OrgInd, NEW a \in Actors, NEW o \in OrgIds, CreateOrganization(a, o)
  PROVE  OrgInd' /\ OrgStep
  <1>1. /\ status \in [OrgIds -> Statuses \cup {"absent"}]
        /\ role \in [OrgIds -> [Actors -> Roles \cup {"none"}]]
        /\ status' = [status EXCEPT ![o] = "active"]
        /\ role' = [role EXCEPT ![o][a] = "admin"]
        /\ status[o] = "absent"
        /\ UNCHANGED <<invites, invited>>
    BY DEF OrgInd, OrgInvariant, OrgTypeOK, CreateOrganization, Exists
  <1>2. OrgTypeOK'
    BY <1>1, InvitesAlone DEF OrgTypeOK, Statuses, Roles
  <1>3. MembersHaveOrganization' /\ OrganizationsHaveMembers'
    BY <1>1 DEF OrgInd, OrgInvariant, MembersHaveOrganization, OrganizationsHaveMembers, Exists
  <1>4. LeaderlessUntilInvited
    BY <1>1 DEF LeaderlessUntilInvited, Exists, NoAdmin, IsAdmin
  <1> QED
    BY <1>1, <1>2, <1>3, <1>4, InvitesAlone DEF OrgInd, OrgInvariant, OrgStep

LEMMA UpdateOrganizationKeeps ==
  ASSUME OrgInd, NEW a \in Actors, NEW o \in OrgIds, NEW s \in Statuses,
         UpdateOrganization(a, o, s)
  PROVE  OrgInd' /\ OrgStep
  <1>1. /\ status \in [OrgIds -> Statuses \cup {"absent"}]
        /\ role \in [OrgIds -> [Actors -> Roles \cup {"none"}]]
        /\ status' = [status EXCEPT ![o] = s] /\ s # "absent" /\ status[o] # "absent"
        /\ UNCHANGED <<role, invites, invited>>
    BY DEF OrgInd, OrgInvariant, OrgTypeOK, UpdateOrganization, Exists, Statuses
  <1>2. OrgTypeOK'
    BY <1>1, InvitesAlone DEF OrgTypeOK
  <1>3. \A p \in OrgIds : Exists(p)' <=> Exists(p)
    BY <1>1 DEF Exists
  <1>4. MembersHaveOrganization' /\ OrganizationsHaveMembers' /\ LeaderlessUntilInvited
    BY <1>1, <1>3 DEF OrgInd, OrgInvariant, MembersHaveOrganization,
       OrganizationsHaveMembers, LeaderlessUntilInvited, NoAdmin, IsAdmin
  <1> QED
    BY <1>1, <1>2, <1>4, InvitesAlone DEF OrgInd, OrgInvariant, OrgStep

LEMMA DeleteOrganizationKeeps ==
  ASSUME OrgInd, NEW a \in Actors, NEW o \in OrgIds, DeleteOrganization(a, o)
  PROVE  OrgInd' /\ OrgStep
  <1>1. /\ status \in [OrgIds -> Statuses \cup {"absent"}]
        /\ role \in [OrgIds -> [Actors -> Roles \cup {"none"}]]
        /\ status' = [status EXCEPT ![o] = "absent"]
        /\ role' = [role EXCEPT ![o] = [m \in Actors |-> "none"]]
        /\ role[o][a] = "admin"
        /\ UNCHANGED <<invites, invited>>
    BY DEF OrgInd, OrgInvariant, OrgTypeOK, DeleteOrganization, IsAdmin
  <1>2. OrgTypeOK'
    BY <1>1, InvitesAlone DEF OrgTypeOK
  <1>3. MembersHaveOrganization' /\ OrganizationsHaveMembers'
    BY <1>1 DEF OrgInd, OrgInvariant, MembersHaveOrganization, OrganizationsHaveMembers, Exists
  <1>4. LeaderlessUntilInvited
    BY <1>1 DEF LeaderlessUntilInvited, Exists, NoAdmin, IsAdmin
  <1> QED
    BY <1>1, <1>2, <1>3, <1>4, InvitesAlone DEF OrgInd, OrgInvariant, OrgStep

LEMMA SetRoleKeeps ==
  ASSUME OrgInd, NEW a \in Actors, NEW o \in OrgIds, NEW subject \in Actors, NEW r \in Roles,
         SetOrganizationMemberRole(a, o, subject, r)
  PROVE  OrgInd' /\ OrgStep
  <1>1. /\ status \in [OrgIds -> Statuses \cup {"absent"}]
        /\ role \in [OrgIds -> [Actors -> Roles \cup {"none"}]]
        /\ status[o] # "absent" /\ role[o][a] = "admin" /\ r # "none"
        /\ role' = [role EXCEPT ![o][subject] = r]
        /\ UNCHANGED <<status, invites, invited>>
    BY DEF OrgInd, OrgInvariant, OrgTypeOK, SetOrganizationMemberRole, IsAdmin, Exists, Roles
  <1>2. OrgTypeOK'
    BY <1>1, InvitesAlone DEF OrgTypeOK
  <1>3. MembersHaveOrganization' /\ OrganizationsHaveMembers'
    BY <1>1 DEF OrgInd, OrgInvariant, MembersHaveOrganization, OrganizationsHaveMembers, Exists
  <1>4. LeaderlessUntilInvited
    BY <1>1 DEF LeaderlessUntilInvited, Exists, NoAdmin, IsAdmin
  <1> QED
    BY <1>1, <1>2, <1>3, <1>4, InvitesAlone DEF OrgInd, OrgInvariant, OrgStep

LEMMA RemoveMemberKeeps ==
  ASSUME OrgInd, NEW a \in Actors, NEW o \in OrgIds, NEW subject \in Actors,
         RemoveOrganizationMember(a, o, subject)
  PROVE  OrgInd' /\ OrgStep
  <1>1. /\ status \in [OrgIds -> Statuses \cup {"absent"}]
        /\ role \in [OrgIds -> [Actors -> Roles \cup {"none"}]]
        /\ status[o] # "absent" /\ role[o][a] = "admin" /\ a # subject
        /\ role' = [role EXCEPT ![o][subject] = "none"]
        /\ UNCHANGED <<status, invites, invited>>
    BY DEF OrgInd, OrgInvariant, OrgTypeOK, RemoveOrganizationMember, IsAdmin, Exists
  <1>2. OrgTypeOK'
    BY <1>1, InvitesAlone DEF OrgTypeOK
  <1>3. MembersHaveOrganization' /\ OrganizationsHaveMembers'
    BY <1>1 DEF OrgInd, OrgInvariant, MembersHaveOrganization, OrganizationsHaveMembers, Exists
  <1>4. LeaderlessUntilInvited
    BY <1>1 DEF LeaderlessUntilInvited, Exists, NoAdmin, IsAdmin
  <1> QED
    BY <1>1, <1>2, <1>3, <1>4, InvitesAlone DEF OrgInd, OrgInvariant, OrgStep

-----------------------------------------------------------------------------
LEMMA CreateInviteKeeps ==
  ASSUME OrgInd, NEW a \in Actors, NEW o \in OrgIds, NEW email \in Emails, NEW r \in Roles,
         CreateInvite(a, o, email, r)
  PROVE  OrgInd' /\ OrgStep
  <1> DEFINE n == invited + 1
             new == [org |-> o, email |-> email, role |-> r,
                     life |-> InviteTicks, status |-> "pending"]
  <1>1. /\ n \in Slots /\ invited \in Nat
        /\ invites \in [Slots -> Invite \cup {NoInvite}]
        /\ Pending(o, email) = {}
        /\ invites' = [invites EXCEPT ![n] = new] /\ invited' = n
        /\ UNCHANGED <<status, role>>
    BY InvitesAssumption
       DEF OrgInd, OrgInvariant, OrgTypeOK, CreateInvite, Slots
  <1>2. new \in Invite /\ new # NoInvite
    BY InvitesAssumption, NoInviteAssumption DEF Invite
  <1>3. n \notin Made
    BY <1>1 DEF OrgInd, SlotsInOrder
  <1> HIDE DEF new
  <1>4. Made' = Made \cup {n} /\ invites'[n] = new
        /\ \A i \in Made : invites'[i] = invites[i]
    BY <1>1, <1>2, <1>3 DEF Made
  <1>5. OrgTypeOK'
    BY <1>1, <1>2, MembersAlone DEF OrgTypeOK
  <1>6. SlotsInOrder'
    BY <1>1, <1>4, InvitesAssumption DEF OrgInd, SlotsInOrder, Made, Slots
  <1>7. OnePendingPerEmail'
    <2> SUFFICES ASSUME NEW i \in Made', NEW j \in Made',
                        (/\ invites[i].status = "pending" /\ invites[j].status = "pending"
                         /\ invites[i].org = invites[j].org
                         /\ invites[i].email = invites[j].email)'
                 PROVE  i = j
      BY DEF OnePendingPerEmail
    <2>1. new.org = o /\ new.email = email
      BY DEF new
    <2>2. \A k \in Made : invites[k].status = "pending" /\ invites[k].org = o
                            => invites[k].email # email
      BY <1>1 DEF Pending
    <2>3. CASE i \in Made /\ j \in Made
      BY <2>3, <1>4 DEF OrgInd, OrgInvariant, OnePendingPerEmail
    <2>4. CASE i = n /\ j \in Made
      BY <2>4, <1>4, <2>1, <2>2
    <2>5. CASE j = n /\ i \in Made
      BY <2>5, <1>4, <2>1, <2>2
    <2> QED
      BY <1>4, <2>3, <2>4, <2>5
  <1>8. SettledOnce
    BY <1>4 DEF SettledOnce
  <1> QED
    BY <1>1, <1>5, <1>6, <1>7, <1>8, MembersAlone DEF OrgInd, OrgInvariant, OrgStep

\* Settling a pending invitation: no other one changes.
LEMMA Settles ==
  ASSUME OrgInd, NEW i \in Made, NEW s \in {"accepted", "revoked"},
         invites[i].status = "pending",
         invites' = [invites EXCEPT ![i].status = s], invited' = invited
  PROVE  /\ invites' \in [Slots -> Invite \cup {NoInvite}] /\ invited' \in Slots \cup {0}
         /\ invites'[i].status = s
         /\ OnePendingPerEmail' /\ SlotsInOrder' /\ SettledOnce
  <1> DEFINE new == [invites[i] EXCEPT !.status = s]
  <1>1. /\ i \in Slots /\ invites[i] \in Invite
        /\ invites \in [Slots -> Invite \cup {NoInvite}] /\ invited \in Slots \cup {0}
    BY MadeIsInvite DEF OrgInd, OrgInvariant, OrgTypeOK
  <1>2. new \in Invite /\ new.status = s /\ new # NoInvite /\ s # "pending"
    BY <1>1, NoInviteAssumption DEF Invite
  <1>3. invites' = [invites EXCEPT ![i] = new]
    OBVIOUS
  <1> HIDE DEF new
  <1>4. Made' = Made /\ invites'[i] = new /\ \A j \in Made \ {i} : invites'[j] = invites[j]
    BY <1>1, <1>2, <1>3 DEF Made
  <1>5. OnePendingPerEmail' /\ SlotsInOrder' /\ SettledOnce
    BY <1>2, <1>4 DEF OrgInd, OrgInvariant, OnePendingPerEmail, SlotsInOrder, SettledOnce
  <1> QED
    BY <1>1, <1>2, <1>3, <1>4, <1>5

LEMMA AcceptInviteKeeps ==
  ASSUME OrgInd, NEW a \in Actors, NEW i \in Slots, AcceptInvite(a, i)
  PROVE  OrgInd' /\ OrgStep
  <1> DEFINE o == invites[i].org
             r == invites[i].role
  <1>1. /\ i \in Made /\ invites[i].status = "pending"
        /\ invites' = [invites EXCEPT ![i].status = "accepted"] /\ invited' = invited
        /\ status' = status /\ role' = [role EXCEPT ![o][a] = r]
        /\ status[o] # "absent"
    BY DEF AcceptInvite, Exists
  <1>2. /\ status \in [OrgIds -> Statuses \cup {"absent"}]
        /\ role \in [OrgIds -> [Actors -> Roles \cup {"none"}]]
        /\ o \in OrgIds /\ r \in Roles /\ r # "none"
    BY <1>1, MadeIsInvite DEF OrgInd, OrgInvariant, OrgTypeOK, Invite, Roles
  <1>3. /\ invites' \in [Slots -> Invite \cup {NoInvite}] /\ invited' \in Slots \cup {0}
        /\ invites'[i].status = "accepted"
        /\ OnePendingPerEmail' /\ SlotsInOrder' /\ SettledOnce
    BY <1>1, Settles
  <1> HIDE DEF o, r
  <1>4. OrgTypeOK'
    BY <1>1, <1>2, <1>3 DEF OrgTypeOK
  <1>5. MembersHaveOrganization' /\ OrganizationsHaveMembers'
    BY <1>1, <1>2 DEF OrgInd, OrgInvariant, MembersHaveOrganization,
       OrganizationsHaveMembers, Exists
  <1>6. LeaderlessUntilInvited
    <2> SUFFICES ASSUME NEW p \in OrgIds, Exists(p), NoAdmin(p), ~NoAdmin(p)'
                 PROVE  /\ Exists(p)'
                        /\ \E j \in Made : /\ invites[j].org = p /\ invites[j].role = "admin"
                                           /\ invites[j].status = "pending"
                                           /\ invites'[j].status = "accepted"
      BY <1>1 DEF LeaderlessUntilInvited, Exists
    <2>1. p = o /\ r = "admin"
      BY <1>1, <1>2 DEF NoAdmin, IsAdmin
    <2> QED
      BY <1>1, <1>3, <2>1 DEF o, r, Exists
  <1> QED
    BY <1>3, <1>4, <1>5, <1>6 DEF OrgInd, OrgInvariant, OrgStep

LEMMA RevokeInviteKeeps ==
  ASSUME OrgInd, NEW a \in Actors, NEW i \in Slots, RevokeInvite(a, i)
  PROVE  OrgInd' /\ OrgStep
  <1>1. /\ i \in Made /\ invites[i].status = "pending"
        /\ invites' = [invites EXCEPT ![i].status = "revoked"]
        /\ UNCHANGED <<status, role, invited>>
    BY DEF RevokeInvite
  <1> QED
    BY <1>1, Settles, MembersAlone DEF OrgInd, OrgInvariant, OrgTypeOK, OrgStep

LEMMA OrgTickKeeps ==
  ASSUME OrgInd, OrgTick
  PROVE  OrgInd' /\ OrgStep
  <1>1. /\ invites \in [Slots -> Invite \cup {NoInvite}] /\ invited \in Slots \cup {0}
        /\ invites' = [i \in Slots |-> IF i \in Made /\ invites[i].life > 0
                                         THEN [invites[i] EXCEPT !.life = @ - 1]
                                         ELSE invites[i]]
        /\ UNCHANGED <<status, role, invited>>
    BY DEF OrgInd, OrgInvariant, OrgTypeOK, OrgTick
  <1>2. ASSUME NEW i \in Made
        PROVE  /\ invites'[i] \in Invite
               /\ invites'[i].status = invites[i].status
               /\ invites'[i].org = invites[i].org
               /\ invites'[i].email = invites[i].email
    <2>1. i \in Slots /\ invites[i] \in Invite
      BY MadeIsInvite DEF OrgInd, OrgInvariant
    <2>2. CASE invites[i].life > 0
      <3>1. invites'[i] = [invites[i] EXCEPT !.life = invites[i].life - 1]
        BY <1>1, <2>1, <2>2
      <3>2. invites[i].life - 1 \in 0..InviteTicks
        BY <2>1, <2>2, InvitesAssumption DEF Invite
      <3> QED
        BY <2>1, <3>1, <3>2 DEF Invite
    <2>3. CASE ~(invites[i].life > 0)
      BY <1>1, <2>1, <2>3
    <2> QED
      BY <2>2, <2>3
  <1>3. \A i \in Slots \ Made : invites'[i] = NoInvite
    BY <1>1 DEF Made
  <1>4. Made' = Made
    BY <1>1, <1>2, <1>3, NoInviteAssumption DEF Made
  <1>5. invites' \in [Slots -> Invite \cup {NoInvite}]
    BY <1>1, <1>2, <1>3 DEF Made
  <1>6. SettledOnce
    BY <1>2 DEF SettledOnce
  <1>7. SlotsInOrder'
    <2>1. invited' = invited
      BY <1>1
    <2> QED
      BY <1>4, <2>1 DEF OrgInd, SlotsInOrder
  <1>8. OnePendingPerEmail'
    <2> SUFFICES ASSUME NEW i \in Made, NEW j \in Made,
                        invites'[i].status = "pending", invites'[j].status = "pending",
                        invites'[i].org = invites'[j].org,
                        invites'[i].email = invites'[j].email
                 PROVE  i = j
      BY <1>4 DEF OnePendingPerEmail
    <2> QED
      BY <1>2 DEF OrgInd, OrgInvariant, OnePendingPerEmail
  <1> QED
    BY <1>1, <1>5, <1>6, <1>7, <1>8, MembersAlone
       DEF OrgInd, OrgInvariant, OrgTypeOK, OrgStep

-----------------------------------------------------------------------------
LEMMA OrgNextKeeps ==
  ASSUME OrgInd, OrgNext
  PROVE  OrgInd' /\ OrgStep
  BY CreateOrganizationKeeps, UpdateOrganizationKeeps, DeleteOrganizationKeeps, SetRoleKeeps,
     RemoveMemberKeeps, CreateInviteKeeps, AcceptInviteKeeps, RevokeInviteKeeps, OrgTickKeeps
     DEF OrgNext

LEMMA OrgStutters ==
  ASSUME OrgInd, UNCHANGED orgVars
  PROVE  OrgInd'
  BY InvitesAlone, MembersAlone DEF orgVars, OrgInd, OrgInvariant, OrgTypeOK

\* The organizations are right: members and organizations go together, through
\* deletion and creation, no sequence of calls empties an organization, and an
\* address has one pending invitation to it.
THEOREM OrgCorrect == OrgSpec => []OrgInvariant
  <1>1. OrgInd /\ [OrgNext]_orgVars => OrgInd'
    BY OrgNextKeeps, OrgStutters
  <1>2. OrgInd => OrgInvariant
    BY DEF OrgInd
  <1> QED
    BY OrgStarts, <1>1, <1>2, PTL DEF OrgSpec

\* No call settles an invitation twice, and an organization without an admin
\* gets one only by an invitation that was pending.
THEOREM OrgStepsCorrect == OrgSpec => OrgSteps
  <1>1. OrgInd /\ [OrgNext]_orgVars => OrgInd'
    BY OrgNextKeeps, OrgStutters
  <1>2. OrgInd /\ [OrgNext]_orgVars => [SettledOnce /\ LeaderlessUntilInvited]_orgVars
    BY OrgNextKeeps DEF OrgStep
  <1> QED
    BY OrgStarts, <1>1, <1>2, PTL DEF OrgSpec, OrgSteps

-----------------------------------------------------------------------------
\* TenantLedger
(***************************************************************************)
(* Fingerprints are unique for all subjects, bounds and instants.  The     *)
(* number in a fingerprint is the place of its capability, since mutations *)
(* add capabilities at the end, change them in place and remove none.  The *)
(* log accounts for the state: the invariant carries a replay of the log,  *)
(* in which the times the snapshots name show what the snapshots hold.     *)
(***************************************************************************)

Capability == [fingerprint : [seq : Nat, subject : Subjects, at : 0..MaxTenantTime],
               revoked : BOOLEAN]

\* The inductive invariant.
Numbered == /\ caps \in Seq(Capability)
            /\ tenantClock \in 0..MaxTenantTime
            /\ \A i \in 1..Len(caps) : caps[i].fingerprint.seq = i

\* Changing the revoked flags in place keeps the fingerprints.
LEMMA InPlace ==
  ASSUME Numbered, NEW c,
         c \in [1..Len(caps) -> Capability],
         \A i \in 1..Len(caps) : c[i].fingerprint = caps[i].fingerprint
  PROVE  /\ c \in Seq(Capability)
         /\ Len(c) = Len(caps)
         /\ \A i \in 1..Len(c) : c[i].fingerprint.seq = i
  <1> DEFINE n == Len(caps)
  <1>1. n \in Nat
    BY DEF Numbered
  <1>2. c \in [1..n -> Capability] /\ c \in Seq(Capability) /\ Len(c) = n
    BY <1>1
  <1> QED
    BY <1>2 DEF Numbered

\* A flag set in the record of a capability leaves its fingerprint.
LEMMA SameName ==
  ASSUME Numbered, NEW i \in 1..Len(caps), NEW b \in BOOLEAN
  PROVE  /\ caps[i] \in Capability
         /\ [caps[i] EXCEPT !.revoked = b] \in Capability
         /\ [caps[i] EXCEPT !.revoked = b].fingerprint = caps[i].fingerprint
  <1>1. caps[i] \in Capability
    BY DEF Numbered
  <1> QED
    BY <1>1 DEF Capability

LEMMA NumberedInit == TenantInit => Numbered
  BY BoundsAssumption DEF TenantInit, Numbered

LEMMA NumberedStep == Numbered /\ [TenantNext]_tenantVars => Numbered'
  <1> SUFFICES ASSUME Numbered, [TenantNext]_tenantVars PROVE Numbered'
    OBVIOUS
  <1> USE DEF Numbered
  <1>1. ASSUME NEW s \in Subjects, MintCapability(s) PROVE Numbered'
    <2> DEFINE new == [fingerprint |-> NewFingerprint(s), revoked |-> FALSE]
    <2>1. new \in Capability /\ new.fingerprint.seq = Len(caps) + 1
      BY DEF Capability, NewFingerprint
    <2>2. caps' = Append(caps, new) /\ tenantClock' = tenantClock
      BY <1>1 DEF MintCapability
    <2> HIDE DEF new
    <2>3. /\ caps' \in Seq(Capability) /\ Len(caps') = Len(caps) + 1
          /\ \A i \in 1..Len(caps) : caps'[i] = caps[i]
          /\ caps'[Len(caps) + 1] = new
      BY <2>1, <2>2
    <2> QED
      BY <2>1, <2>2, <2>3
  <1>2. ASSUME NEW f, RevokeCapability(f) PROVE Numbered'
    <2> DEFINE k == Newest(With(f))
    <2>1. caps' = [caps EXCEPT ![k].revoked = TRUE] /\ tenantClock' = tenantClock
      BY <1>2 DEF RevokeCapability
    <2> HIDE DEF k
    <2>2. caps' = [i \in 1..Len(caps) |->
                     IF i = k THEN [caps[i] EXCEPT !.revoked = TRUE]
                              ELSE caps[i]]
      <3>1. DOMAIN caps = 1..Len(caps)
        OBVIOUS
      <3> QED
        BY <2>1, <3>1, Zenon
    <2>3. \A i \in 1..Len(caps) :
            /\ caps[i] \in Capability
            /\ [caps[i] EXCEPT !.revoked = TRUE] \in Capability
            /\ [caps[i] EXCEPT !.revoked = TRUE].fingerprint
                 = caps[i].fingerprint
      BY SameName
    <2>4. /\ caps' \in [1..Len(caps) -> Capability]
          /\ \A i \in 1..Len(caps) : caps'[i].fingerprint = caps[i].fingerprint
      BY <2>2, <2>3
    <2> QED
      BY <2>1, <2>4, InPlace
  <1>3. ASSUME NEW h, RestoreSnapshot(h) PROVE Numbered'
    <2> DEFINE s == FoundSnapshot(h)
    <2>1. caps' = RestoredCaps(s) /\ tenantClock' = tenantClock
      BY <1>3 DEF RestoreSnapshot
    <2> HIDE DEF s
    <2>2. ASSUME NEW i \in 1..Len(caps), NEW b \in BOOLEAN
          PROVE  /\ [caps[i] EXCEPT !.revoked = b] \in Capability
                 /\ [caps[i] EXCEPT !.revoked = b].fingerprint
                      = caps[i].fingerprint
      BY SameName
    <2>3. \A i \in 1..Len(caps) :
            (caps[i].fingerprint \in s.revoked_caps) \in BOOLEAN
      OBVIOUS
    <2>4. \A i \in 1..Len(caps) :
            /\ [caps[i] EXCEPT !.revoked = caps[i].fingerprint \in s.revoked_caps]
                 \in Capability
            /\ [caps[i] EXCEPT !.revoked = caps[i].fingerprint \in s.revoked_caps]
                 .fingerprint = caps[i].fingerprint
      BY <2>2, <2>3, Zenon
    <2>5. /\ caps' \in [1..Len(caps) -> Capability]
          /\ \A i \in 1..Len(caps) : caps'[i].fingerprint = caps[i].fingerprint
      BY <2>1, <2>4, Zenon DEF RestoredCaps
    <2> QED
      BY <2>1, <2>5, InPlace
  <1>4. ASSUME caps' = caps, tenantClock' \in 0..MaxTenantTime PROVE Numbered'
    BY <1>4
  <1>5. CASE TenantTick
    BY <1>4, <1>5, BoundsAssumption DEF TenantTick
  <1>6. CASE UNCHANGED tenantVars
    BY <1>4, <1>6 DEF tenantVars
  <1>7. ASSUME NEW u, NEW n, SetBudgetLimit(u, n) PROVE Numbered'
    BY <1>4, <1>7 DEF SetBudgetLimit
  <1>8. ASSUME NEW p, \/ AddPolicy(p) \/ EvaluatePolicy(p) \/ AddPlan(p)
                      \/ RunPlan(p)
        PROVE  Numbered'
    BY <1>4, <1>8 DEF AddPolicy, EvaluatePolicy, AddPlan, RunPlan
  <1>9. CASE ResetBudgetWindow \/ CreateSnapshot \/ OtherEvent
    BY <1>4, <1>9 DEF ResetBudgetWindow, CreateSnapshot, OtherEvent
  <1> QED
    BY <1>1, <1>2, <1>3, <1>5, <1>6, <1>7, <1>8, <1>9 DEF TenantNext

\* No two capabilities ever have one fingerprint (mintCapability numbers them by
\* the length of the list), whatever is minted in one millisecond, revoked or
\* restored.
THEOREM CapabilitiesNamedOnce == TenantSpec => []FingerprintsUnique
  <1>1. Numbered => FingerprintsUnique
    BY DEF Numbered, FingerprintsUnique
  <1> QED
    BY <1>1, NumberedInit, NumberedStep, PTL DEF TenantSpec

-----------------------------------------------------------------------------
(* Replays of a log *)

Nothing == [active |-> {}, revoked |-> {}, budgets |-> EmptyBudgets]

\* What a replay f has seen when it comes to the entry d of a restore.
SeenBy(f, d) == IF d[1] = "snapshot.restore" THEN f[d[3]] ELSE f[0]

\* f is the replay of the first n entries of lg, as TellsOf makes it.
Replay(f, lg, n) ==
  f = [k \in 0..n |-> IF k = 0
                         THEN [active |-> {}, revoked |-> {}, budgets |-> EmptyBudgets]
                         ELSE LET d == lg[k] IN
                           After(f[k - 1], d,
                                 IF d[1] = "snapshot.restore" THEN f[d[3]] ELSE f[0])]

\* A restore names a time before it.
RestoresPast(lg, n) ==
  \A k \in 1..n : lg[k][1] = "snapshot.restore" => lg[k][3] \in 0..(k - 1)

LEMMA LeastTime ==
  ASSUME NEW T \in SUBSET Nat, T # {}
  PROVE  \E x \in T : \A y \in T : x <= y
  <1>1. PICK x \in T : \A y \in T : ~ (<<y, x>> \in OpToRel(<, Nat))
    BY WFMin, NatLessThanWellFounded, Zenon
  <1>2. \A y \in T : ~ (y < x)
    BY <1>1 DEF OpToRel
  <1> QED
    BY <1>2

LEMMA ReplayAt ==
  ASSUME NEW f, NEW lg, NEW n \in Nat, Replay(f, lg, n)
  PROVE  /\ f[0] = Nothing
         /\ \A k \in 1..n : f[k] = After(f[k - 1], lg[k], SeenBy(f, lg[k]))
         /\ DOMAIN f = 0..n
  <1> DEFINE G == [k \in 0..n |-> IF k = 0 THEN [active |-> {}, revoked |-> {}, budgets |-> EmptyBudgets]
                      ELSE LET d == lg[k] IN
                           After(f[k - 1], d,
                                 IF d[1] = "snapshot.restore" THEN f[d[3]] ELSE f[0])]
  <1>1. f = G
    BY DEF Replay
  <1>2. DOMAIN G = 0..n /\ G[0] = Nothing
    BY DEF Nothing
  <1>3. \A k \in 1..n : G[k] = After(f[k - 1], lg[k], SeenBy(f, lg[k]))
    BY DEF SeenBy
  <1> HIDE DEF G
  <1> QED
    BY <1>1, <1>2, <1>3, Zenon

\* And conversely.
LEMMA ReplayMade ==
  ASSUME NEW lg, NEW n \in Nat, NEW f, f = [k \in 0..n |-> f[k]], f[0] = Nothing,
         \A k \in 1..n : f[k] = After(f[k - 1], lg[k], SeenBy(f, lg[k]))
  PROVE  Replay(f, lg, n)
  <1>1. ASSUME NEW k \in 0..n
        PROVE  f[k] = IF k = 0 THEN [active |-> {}, revoked |-> {}, budgets |-> EmptyBudgets]
                      ELSE LET d == lg[k] IN
                           After(f[k - 1], d,
                                 IF d[1] = "snapshot.restore" THEN f[d[3]] ELSE f[0])
    <2>1. CASE k = 0
      BY <2>1 DEF Nothing
    <2>2. CASE k # 0
      <3>1. k \in 1..n
        BY <2>2
      <3> QED
        BY <2>2, <3>1 DEF SeenBy
    <2> QED
      BY <2>1, <2>2
  <1> QED
    BY <1>1, Zenon DEF Replay

\* A log has one replay: there is no first entry at which two differ.
LEMMA ReplayUnique ==
  ASSUME NEW lg, NEW n \in Nat, RestoresPast(lg, n), NEW f, NEW g,
         Replay(f, lg, n), Replay(g, lg, n)
  PROVE  f = g
  <1>1. /\ f[0] = Nothing /\ g[0] = Nothing /\ DOMAIN f = 0..n /\ DOMAIN g = 0..n
        /\ \A k \in 1..n : f[k] = After(f[k - 1], lg[k], SeenBy(f, lg[k]))
        /\ \A k \in 1..n : g[k] = After(g[k - 1], lg[k], SeenBy(g, lg[k]))
    BY ReplayAt
  <1> DEFINE Differ == {k \in 0..n : f[k] # g[k]}
  <1>2. Differ = {}
    <2> SUFFICES ASSUME Differ # {} PROVE FALSE
      OBVIOUS
    <2>0. Differ \in SUBSET Nat
      OBVIOUS
    <2>1. PICK k \in Differ : \A j \in Differ : k <= j
      <3> HIDE DEF Differ
      <3> QED
        BY <2>0, LeastTime
    <2>2. k \in 1..n /\ k - 1 \in 0..n
      BY <1>1, <2>1
    <2>3. \A j \in 0..(k - 1) : f[j] = g[j]
      BY <2>1, <2>2
    <2>4. f[k - 1] = g[k - 1]
      BY <2>2, <2>3
    <2>5. SeenBy(f, lg[k]) = SeenBy(g, lg[k])
      BY <1>1, <2>2, <2>3 DEF SeenBy, RestoresPast
    <2> QED
      BY <1>1, <2>1, <2>2, <2>4, <2>5
  <1>3. \A k \in 0..n : f[k] = g[k]
    BY <1>2
  <1>4. f = [k \in 0..n |-> f[k]] /\ g = [k \in 0..n |-> g[k]]
    BY <1>1 DEF Replay
  <1> QED
    BY <1>3, <1>4

\* If the entry d is of a restore, the time it names is no later than n.
InTime(d, n) == d[1] = "snapshot.restore" => d[3] \in 0..n

\* g goes on from f with the state after the entry d.
GoesOn(g, f, lg, d, n) == /\ Replay(g, lg, n + 1)
                          /\ \A k \in 0..n : g[k] = f[k]
                          /\ g[n + 1] = After(f[n], d, SeenBy(f, d))

Longer(lg, S, f, d, n) == /\ lg \in Seq(S \cup {d}) /\ Len(lg) = n + 1
                          /\ RestoresPast(lg, n + 1)
                          /\ \E g : GoesOn(g, f, lg, d, n)

\* The replay of a longer log goes on where the shorter one's ends.
LEMMA ReplayGoesOn ==
  ASSUME NEW S, NEW lg \in Seq(S), NEW d, NEW f, NEW n \in Nat, n = Len(lg),
         Replay(f, lg, n), RestoresPast(lg, n), InTime(d, n)
  PROVE  Longer(Append(lg, d), S, f, d, n)
  <1> DEFINE more == Append(lg, d)
  <1>1. /\ more \in Seq(S \cup {d}) /\ Len(more) = n + 1 /\ more[n + 1] = d
        /\ \A k \in 1..n : more[k] = lg[k]
    <2>1. lg \in Seq(S \cup {d})
      OBVIOUS
    <2> QED
      BY <2>1
  <1> HIDE DEF more
  <1>2. RestoresPast(more, n + 1)
    <2> SUFFICES ASSUME NEW k \in 1..(n + 1), more[k][1] = "snapshot.restore"
                 PROVE  more[k][3] \in 0..(k - 1)
      BY DEF RestoresPast
    <2>1. CASE k = n + 1
      BY <1>1, <2>1 DEF InTime
    <2>2. CASE k \in 1..n
      BY <1>1, <2>2 DEF RestoresPast
    <2> QED
      BY <2>1, <2>2
  <1>3. PICK g : g = [k \in 0..(n + 1) |->
                        IF k = n + 1 THEN After(f[n], d, SeenBy(f, d)) ELSE f[k]]
    OBVIOUS
  <1>4. /\ \A k \in 0..n : g[k] = f[k]
        /\ g[n + 1] = After(f[n], d, SeenBy(f, d))
    BY <1>3
  <1>5. g = [k \in 0..(n + 1) |-> g[k]]
    BY <1>3
  <1>6. /\ f[0] = Nothing
        /\ \A k \in 1..n : f[k] = After(f[k - 1], lg[k], SeenBy(f, lg[k]))
    BY ReplayAt
  <1>7. g[0] = Nothing
    BY <1>4, <1>6
  <1>8. ASSUME NEW k \in 1..(n + 1)
        PROVE  g[k] = After(g[k - 1], more[k], SeenBy(g, more[k]))
    <2>1. CASE k = n + 1
      <3>1. SeenBy(g, d) = SeenBy(f, d)
        BY <1>4 DEF SeenBy, InTime
      <3>2. g[k - 1] = f[n] /\ more[k] = d
        BY <1>1, <1>4, <2>1
      <3> QED
        BY <1>4, <2>1, <3>1, <3>2
    <2>2. CASE k \in 1..n
      <3>1. g[k] = f[k] /\ g[k - 1] = f[k - 1] /\ more[k] = lg[k]
        BY <1>1, <1>4, <2>2
      <3>2. SeenBy(g, lg[k]) = SeenBy(f, lg[k])
        BY <1>4, <2>2 DEF SeenBy, RestoresPast
      <3> QED
        BY <1>6, <2>2, <3>1, <3>2
    <2> QED
      BY <2>1, <2>2
  <1>9. Replay(g, more, n + 1)
    <2>1. n + 1 \in Nat
      OBVIOUS
    <2> HIDE DEF Replay
    <2> QED
      BY <1>5, <1>7, <1>8, <2>1, ReplayMade
  <1> QED
    BY <1>1, <1>2, <1>4, <1>9 DEF more, GoesOn, Longer

\* TellsOf is the last state of the replay.
LEMMA TellsIsReplay ==
  ASSUME NEW n \in Nat, RestoresPast(log, n), NEW f, Replay(f, log, n)
  PROVE  TellsOf(n) = f[n]
  <1>1. TellsOf(n) = (CHOOSE g : Replay(g, log, n))[n]
    BY DEF TellsOf, Replay
  <1>2. \A g : Replay(g, log, n) => g = f
    BY ReplayUnique
  <1>3. (CHOOSE g : Replay(g, log, n)) = f
    BY <1>2, Zenon
  <1> QED
    BY <1>1, <1>3

-----------------------------------------------------------------------------
(* The log accounts for the state *)

Names == {caps[i].fingerprint : i \in 1..Len(caps)}

\* What a replay of the log is to arrive at.
Present == [active |-> Fingerprints(FALSE), revoked |-> Fingerprints(TRUE),
            budgets |-> budgets]

\* The snapshot s shows what the replay f shows at the time that s names, no
\* later than n.
Told(f, s, n) == /\ s.logical_time \in 0..n
                 /\ f[s.logical_time].revoked = s.revoked_caps
                 /\ f[s.logical_time].budgets = RestoredBudgets(s)

Recounts(f) == /\ Replay(f, log, Len(log))
               /\ f[Len(log)] = Present
               /\ \A i \in 1..Len(snapshots) : Told(f, snapshots[i], Len(log))

LogKept == /\ \E S : log \in Seq(S)
           /\ Len(log) <= MaxEvents
           /\ RestoresPast(log, Len(log))
           /\ \E f : Recounts(f)

Policy == [rules : Rules, at : 0..MaxTenantTime]

StateKept == /\ Numbered
             /\ budgets \in TenantBudgets
             /\ policies \in Seq(Policy)
             /\ plans \subseteq [steps : StepCounts, at : 0..MaxTenantTime]
             /\ \E S : snapshots \in Seq(S)
             /\ \A i \in 1..Len(snapshots) :
                  /\ snapshots[i].revoked_caps \subseteq Names
                  /\ RestoredBudgets(snapshots[i]) \in TenantBudgets

TenantInd == StateKept /\ LogKept

\* An entry d that tells what happened keeps the log accounting for the state.
LEMMA Written ==
  ASSUME LogKept, NEW d, AppendLog(d), MaxEvents \in Nat,
         InTime(d, Len(log)),
         \A f : Recounts(f) =>
           /\ After(Present, d, SeenBy(f, d)) = Present'
           /\ \A i \in 1..Len(snapshots') : Told(f, snapshots'[i], Len(log))
  PROVE  LogKept'
  <1>1. PICK S : log \in Seq(S)
    BY DEF LogKept
  <1>2. PICK f : Recounts(f)
    BY DEF LogKept
  <1>3. PICK n \in Nat : n = Len(log) /\ n < MaxEvents
    BY <1>1 DEF AppendLog
  <1>4. log' = Append(log, d) /\ Replay(f, log, n) /\ RestoresPast(log, n)
        /\ f[n] = Present
    BY <1>2, <1>3 DEF AppendLog, Recounts, LogKept
  <1>5. /\ log' \in Seq(S \cup {d}) /\ Len(log') = n + 1
        /\ RestoresPast(log', n + 1)
        /\ \E g : GoesOn(g, f, log', d, n)
    <2>1. PICK lg \in Seq(S) : lg = log
      BY <1>1
    <2>2. Longer(Append(lg, d), S, f, d, n)
      <3>1. /\ n = Len(lg) /\ Replay(f, lg, n) /\ RestoresPast(lg, n)
            /\ InTime(d, n) /\ lg \in Seq(S) /\ n \in Nat
        BY <1>3, <1>4, <2>1
      <3> QED
        BY <3>1, ReplayGoesOn, Zenon
    <2> QED
      BY <1>4, <2>1, <2>2, Zenon DEF Longer
  <1>6. PICK g : /\ Replay(g, log', n + 1)
                 /\ \A k \in 0..n : g[k] = f[k]
                 /\ g[n + 1] = After(f[n], d, SeenBy(f, d))
    BY <1>5 DEF GoesOn
  <1>7. g[n + 1] = Present'
    BY <1>2, <1>4, <1>6
  <1>8. ASSUME NEW i \in 1..Len(snapshots') PROVE Told(g, snapshots'[i], n + 1)
    <2>1. Told(f, snapshots'[i], n)
      BY <1>2, <1>3
    <2> QED
      BY <1>3, <1>6, <2>1 DEF Told, RestoredBudgets
  <1>9. (\E h : Recounts(h))'
    <2>1. /\ Replay(g, log', Len(log')) /\ g[Len(log')] = Present'
          /\ \A i \in 1..Len(snapshots') : Told(g, snapshots'[i], Len(log'))
      BY <1>5, <1>6, <1>7, <1>8
    <2> QED
      BY <2>1 DEF Recounts
  <1>10. Len(log') <= MaxEvents /\ (\E T : log \in Seq(T))'
    BY <1>3, <1>5
  <1>11. RestoresPast(log, Len(log))'
    BY <1>5 DEF RestoresPast
  <1> QED
    BY <1>9, <1>10, <1>11 DEF LogKept

\* The present state with other budgets.
Spends(b) == [active |-> Fingerprints(FALSE), revoked |-> Fingerprints(TRUE),
              budgets |-> b]

\* What an entry of most kinds makes of the state before it.
LEMMA Entries ==
  ASSUME NEW at
  PROVE  /\ After(Present, <<"budget.reset_window">>, at)
              = Spends([u \in Units |-> [budgets[u] EXCEPT !.used = 0]])
         /\ \A c : After(Present, <<"cap.mint", c>>, at)
                     = [active |-> Fingerprints(FALSE) \cup {c},
                        revoked |-> Fingerprints(TRUE),
                        budgets |-> Charged(budgets, "exec", 1)]
         /\ \A c : After(Present, <<"cap.revoke", c>>, at)
                     = [active |-> Fingerprints(FALSE) \ {c},
                        revoked |-> Fingerprints(TRUE) \cup {c},
                        budgets |-> budgets]
         /\ \A p : After(Present, <<"policy.eval", p>>, at)
                     = Spends(Charged(budgets, "policy_eval", 1))
         /\ \A n : After(Present, <<"plan.run.complete", n>>, at)
                     = Spends(Charged(Charged(budgets, "plan_step", StepsCharged(n)),
                                      "exec", 1))
         /\ \A p : After(Present, <<"policy.add", p>>, at) = Spends(budgets)
         /\ \A p : After(Present, <<"plan.add", p>>, at) = Spends(budgets)
         /\ After(Present, <<"other">>, at) = Spends(budgets)
  <1> USE DEF After, Present, Spends
  <1>2. After(Present, <<"budget.reset_window">>, at)
          = Spends([u \in Units |-> [budgets[u] EXCEPT !.used = 0]])
    OBVIOUS
  <1>3. \A c : After(Present, <<"cap.mint", c>>, at)
                = [active |-> Fingerprints(FALSE) \cup {c},
                   revoked |-> Fingerprints(TRUE),
                   budgets |-> Charged(budgets, "exec", 1)]
    OBVIOUS
  <1>4. \A c : After(Present, <<"cap.revoke", c>>, at)
                = [active |-> Fingerprints(FALSE) \ {c},
                   revoked |-> Fingerprints(TRUE) \cup {c}, budgets |-> budgets]
    OBVIOUS
  <1>5. \A p : After(Present, <<"policy.eval", p>>, at)
                = Spends(Charged(budgets, "policy_eval", 1))
    OBVIOUS
  <1>6. \A n : After(Present, <<"plan.run.complete", n>>, at)
                = Spends(Charged(Charged(budgets, "plan_step", StepsCharged(n)),
                                 "exec", 1))
    BY DEF StepsCharged
  <1>8. /\ \A p : After(Present, <<"policy.add", p>>, at) = Spends(budgets)
        /\ \A p : After(Present, <<"plan.add", p>>, at) = Spends(budgets)
        /\ After(Present, <<"other">>, at) = Spends(budgets)
    OBVIOUS
  <1> HIDE DEF After, Present, Spends
  <1> QED
    BY <1>2, <1>3, <1>4, <1>5, <1>6, <1>8, Zenon

\* Charges and limits keep budgets in their type.
LEMMA BudgetsTyped ==
  ASSUME budgets \in TenantBudgets
  PROVE  /\ \A b \in TenantBudgets, u \in Units, n \in Nat : Charged(b, u, n) \in TenantBudgets
         /\ \A u \in Units, n \in Nat : [budgets EXCEPT ![u].limit = n] \in TenantBudgets
         /\ [u \in Units |-> [budgets[u] EXCEPT !.used = 0]] \in TenantBudgets
         /\ budgets = RestoredBudgets([budgets |-> BuildBudget])
  <1>1. ASSUME NEW b \in TenantBudgets, NEW u \in Units, NEW n \in Nat
        PROVE  Charged(b, u, n) \in TenantBudgets
    BY DEF TenantBudgets, Charged
  <1>2. ASSUME NEW u \in Units, NEW n \in Nat
        PROVE  [budgets EXCEPT ![u].limit = n] \in TenantBudgets
    BY DEF TenantBudgets
  <1>3. [u \in Units |-> [budgets[u] EXCEPT !.used = 0]] \in TenantBudgets
    BY DEF TenantBudgets
  <1>4. budgets = RestoredBudgets([budgets |-> BuildBudget])
    BY DEF TenantBudgets, RestoredBudgets, BuildBudget
  <1> QED
    BY <1>1, <1>2, <1>3, <1>4

\* A step that leaves capabilities and snapshots alone and writes what it does
\* to the budgets.
LEMMA Quiet ==
  ASSUME TenantInd, NEW d, AppendLog(d), d[1] # "snapshot.restore",
         tenantClock' = tenantClock, caps' = caps, snapshots' = snapshots,
         budgets' \in TenantBudgets, policies' \in Seq(Policy),
         plans' \subseteq [steps : StepCounts, at : 0..MaxTenantTime],
         \A at : After(Present, d, at) = Spends(budgets')
  PROVE  TenantInd'
  <1>1. Present' = Spends(budgets')
    BY DEF Present, Spends, Fingerprints
  <1>2. LogKept'
    <2>1. \A f : Recounts(f) =>
            /\ After(Present, d, SeenBy(f, d)) = Present'
            /\ \A i \in 1..Len(snapshots') : Told(f, snapshots'[i], Len(log))
      BY <1>1 DEF Recounts
    <2> QED
      BY <2>1, Written, BoundsAssumption DEF TenantInd, InTime
  <1>3. StateKept'
    BY DEF StateKept, Numbered, TenantInd, Names
  <1> QED
    BY <1>2, <1>3 DEF TenantInd

LEMMA BudgetSteps ==
  ASSUME TenantInd,
         \/ \E u \in Units, n \in Limits : SetBudgetLimit(u, n)
         \/ ResetBudgetWindow
         \/ \E r \in Rules : AddPolicy(r)
         \/ \E i \in 1..Len(policies) : EvaluatePolicy(policies[i])
         \/ \E n \in StepCounts : AddPlan(n)
         \/ \E p \in plans : RunPlan(p)
         \/ OtherEvent
  PROVE  TenantInd'
  <1>0. /\ budgets \in TenantBudgets /\ policies \in Seq(Policy) /\ tenantClock \in 0..MaxTenantTime
        /\ plans \subseteq [steps : StepCounts, at : 0..MaxTenantTime]
        /\ "exec" \in Units /\ "policy_eval" \in Units /\ "plan_step" \in Units
    BY DEF TenantInd, StateKept, Numbered, Units
  <1>1. ASSUME NEW u \in Units, NEW n \in Limits, SetBudgetLimit(u, n)
        PROVE  TenantInd'
    <2>1. budgets' \in TenantBudgets
      BY <1>0, <1>1, BudgetsTyped, BudgetLimitsAssumption DEF SetBudgetLimit
    <2>2. \A at : After(Present, <<"budget.set", u, n>>, at) = Spends(budgets')
      BY <1>1 DEF SetBudgetLimit, After, Present, Spends
    <2> QED
      BY <1>0, <1>1, <2>1, <2>2, Quiet DEF SetBudgetLimit
  <1>2. ASSUME ResetBudgetWindow PROVE TenantInd'
    <2>1. budgets' \in TenantBudgets
      BY <1>0, <1>2, BudgetsTyped DEF ResetBudgetWindow
    <2>2. \A at : After(Present, <<"budget.reset_window">>, at) = Spends(budgets')
      BY <1>2, Entries, Zenon DEF ResetBudgetWindow
    <2> QED
      BY <1>0, <1>2, <2>1, <2>2, Quiet DEF ResetBudgetWindow
  <1>3. ASSUME NEW r \in Rules, AddPolicy(r) PROVE TenantInd'
    <2>1. policies' \in Seq(Policy)
      BY <1>0, <1>3 DEF AddPolicy, Policy
    <2>2. \A at : After(Present, <<"policy.add", [rules |-> r, at |-> tenantClock]>>, at)
                   = Spends(budgets')
      BY <1>3, Entries, Zenon DEF AddPolicy
    <2> QED
      BY <1>0, <1>3, <2>1, <2>2, Quiet DEF AddPolicy
  <1>4. ASSUME NEW p, EvaluatePolicy(p) PROVE TenantInd'
    <2>1. budgets' \in TenantBudgets
      BY <1>0, <1>4, BudgetsTyped DEF EvaluatePolicy
    <2>2. \A at : After(Present, <<"policy.eval", p>>, at) = Spends(budgets')
      BY <1>4, Entries, Zenon DEF EvaluatePolicy
    <2> QED
      BY <1>0, <1>4, <2>1, <2>2, Quiet DEF EvaluatePolicy
  <1>5. ASSUME NEW n \in StepCounts, AddPlan(n) PROVE TenantInd'
    <2>1. plans' \subseteq [steps : StepCounts, at : 0..MaxTenantTime]
      BY <1>0, <1>5 DEF AddPlan
    <2>2. \A at : After(Present, <<"plan.add", [steps |-> n, at |-> tenantClock]>>, at)
                   = Spends(budgets')
      BY <1>5, Entries, Zenon DEF AddPlan
    <2> QED
      BY <1>0, <1>5, <2>1, <2>2, Quiet DEF AddPlan
  <1>6. ASSUME NEW p \in plans, RunPlan(p) PROVE TenantInd'
    <2>1. StepsCharged(p.steps) \in Nat
      BY <1>0, CountsAssumption DEF StepsCharged
    <2>2. budgets' \in TenantBudgets
      <3>1. Charged(budgets, "plan_step", StepsCharged(p.steps)) \in TenantBudgets
        BY <1>0, <2>1, BudgetsTyped
      <3> QED
        BY <1>0, <1>6, <3>1, BudgetsTyped DEF RunPlan
    <2>3. \A at : After(Present, <<"plan.run.complete", p.steps>>, at) = Spends(budgets')
      BY <1>6, Entries, Zenon DEF RunPlan
    <2> QED
      BY <1>0, <1>6, <2>2, <2>3, Quiet DEF RunPlan
  <1>7. ASSUME OtherEvent PROVE TenantInd'
    <2>1. \A at : After(Present, <<"other">>, at) = Spends(budgets')
      BY <1>7, Entries, Zenon DEF OtherEvent
    <2> QED
      BY <1>0, <1>7, <2>1, Quiet DEF OtherEvent
  <1> QED
    BY <1>1, <1>2, <1>3, <1>4, <1>5, <1>6, <1>7

\* The fingerprints in a list c of the capabilities with the flag b.
NamesIn(c, b) == {c[i].fingerprint : i \in {j \in 1..Len(c) : c[j].revoked = b}}

LEMMA InNames ==
  ASSUME NEW c, NEW b, NEW y
  PROVE  y \in NamesIn(c, b)
           <=> \E i \in 1..Len(c) : c[i].revoked = b /\ c[i].fingerprint = y
  BY Zenon DEF NamesIn

\* A capability added, one revoked, and all flags set from a set of names.
LEMMA Lists ==
  ASSUME NEW c \in Seq(Capability)
  PROVE  /\ NamesIn(c, TRUE) \cup NamesIn(c, FALSE)
                = {c[i].fingerprint : i \in 1..Len(c)}
         /\ \A x : LET e == Append(c, [fingerprint |-> x, revoked |-> FALSE])
                   IN  x \in [seq : Nat, subject : Subjects, at : 0..MaxTenantTime] =>
                         /\ NamesIn(e, FALSE) = NamesIn(c, FALSE) \cup {x}
                         /\ NamesIn(e, TRUE) = NamesIn(c, TRUE)
  <1>1. \A i \in 1..Len(c) : c[i].revoked = TRUE \/ c[i].revoked = FALSE
    BY DEF Capability
  <1>2. NamesIn(c, TRUE) \cup NamesIn(c, FALSE)
          = {c[i].fingerprint : i \in 1..Len(c)}
    BY <1>1 DEF NamesIn
  <1>3. ASSUME NEW x \in [seq : Nat, subject : Subjects, at : 0..MaxTenantTime],
               NEW e, e = Append(c, [fingerprint |-> x, revoked |-> FALSE])
        PROVE  /\ NamesIn(e, FALSE) = NamesIn(c, FALSE) \cup {x}
               /\ NamesIn(e, TRUE) = NamesIn(c, TRUE)
    <2> DEFINE new == [fingerprint |-> x, revoked |-> FALSE]
    <2>1. new \in Capability /\ new.fingerprint = x /\ new.revoked = FALSE
      BY DEF Capability
    <2> HIDE DEF new
    <2>2. PICK n \in Nat : n = Len(c)
      OBVIOUS
    <2>3. /\ Len(e) = n + 1 /\ e[n + 1] = new
          /\ \A i \in 1..n : e[i] = c[i]
      BY <1>3, <2>1, <2>2 DEF new
    <2>4. 1..Len(e) = (1..n) \cup {n + 1}
      BY <2>3
    <2>5. ASSUME NEW y PROVE y \in NamesIn(e, FALSE) <=> y \in NamesIn(c, FALSE) \cup {x}
      <3>1. ASSUME y \in NamesIn(e, FALSE) PROVE y \in NamesIn(c, FALSE) \cup {x}
        <4>1. PICK i \in 1..Len(e) : e[i].revoked = FALSE /\ e[i].fingerprint = y
          BY <3>1 DEF NamesIn
        <4>2. CASE i = n + 1
          BY <2>1, <2>3, <4>1, <4>2
        <4>3. CASE i \in 1..n
          <5>1. c[i].revoked = FALSE /\ c[i].fingerprint = y /\ i \in 1..Len(c)
            BY <2>2, <2>3, <4>1, <4>3
          <5> QED
            BY <5>1, InNames
        <4> QED
          BY <2>4, <4>1, <4>2, <4>3
      <3>2. ASSUME y \in NamesIn(c, FALSE) PROVE y \in NamesIn(e, FALSE)
        <4>1. PICK i \in 1..Len(c) : c[i].revoked = FALSE /\ c[i].fingerprint = y
          BY <3>2 DEF NamesIn
        <4>2. e[i].revoked = FALSE /\ e[i].fingerprint = y /\ i \in 1..Len(e)
          BY <2>2, <2>3, <2>4, <4>1
        <4> QED
          BY <4>2, InNames
      <3>3. x \in NamesIn(e, FALSE)
        <4>1. /\ n + 1 \in 1..Len(e)
              /\ e[n + 1].revoked = FALSE /\ e[n + 1].fingerprint = x
          BY <2>1, <2>2, <2>3, <2>4
        <4> QED
          BY <4>1, InNames
      <3> QED
        BY <3>1, <3>2, <3>3
    <2>6. ASSUME NEW y PROVE y \in NamesIn(e, TRUE) <=> y \in NamesIn(c, TRUE)
      <3>1. ASSUME y \in NamesIn(e, TRUE) PROVE y \in NamesIn(c, TRUE)
        <4>1. PICK i \in 1..Len(e) : e[i].revoked = TRUE /\ e[i].fingerprint = y
          BY <3>1 DEF NamesIn
        <4>2. i \in 1..n
          BY <2>1, <2>3, <2>4, <4>1
        <4>3. c[i].revoked = TRUE /\ c[i].fingerprint = y /\ i \in 1..Len(c)
          BY <2>2, <2>3, <4>1, <4>2
        <4> QED
          BY <4>3, InNames
      <3>2. ASSUME y \in NamesIn(c, TRUE) PROVE y \in NamesIn(e, TRUE)
        <4>1. PICK i \in 1..Len(c) : c[i].revoked = TRUE /\ c[i].fingerprint = y
          BY <3>2 DEF NamesIn
        <4>2. e[i].revoked = TRUE /\ e[i].fingerprint = y /\ i \in 1..Len(e)
          BY <2>2, <2>3, <2>4, <4>1
        <4> QED
          BY <4>2, InNames
      <3> QED
        BY <3>1, <3>2
    <2> QED
      BY <2>5, <2>6
  <1> QED
    BY <1>2, <1>3

\* e is c with the capability at k revoked.
RevokedAt(e, c, k) ==
  /\ Len(e) = Len(c)
  /\ \A i \in 1..Len(c) : e[i].fingerprint = c[i].fingerprint
  /\ \A i, j \in 1..Len(c) : c[i].fingerprint = c[j].fingerprint => i = j
  /\ e[k].revoked = TRUE
  /\ \A i \in 1..Len(c) : i # k => e[i].revoked = c[i].revoked

\* e is c with the capabilities in R revoked and the others active.
RevokedAll(e, c, R, all) ==
  /\ all = {c[i].fingerprint : i \in 1..Len(c)} /\ R \subseteq all
  /\ Len(e) = Len(c)
  /\ \A i \in 1..Len(c) : e[i].fingerprint = c[i].fingerprint
  /\ \A i \in 1..Len(c) : e[i].revoked = (c[i].fingerprint \in R)

\* A list with the names of another, and one of its capabilities revoked.
LEMMA OneRevoked ==
  ASSUME NEW c \in Seq(Capability), NEW e, NEW k \in 1..Len(c), RevokedAt(e, c, k)
  PROVE  /\ NamesIn(e, FALSE) = NamesIn(c, FALSE) \ {c[k].fingerprint}
         /\ NamesIn(e, TRUE) = NamesIn(c, TRUE) \cup {c[k].fingerprint}
  <1> USE DEF RevokedAt
  <1>1. ASSUME NEW y
        PROVE  y \in NamesIn(e, FALSE)
                 <=> y \in NamesIn(c, FALSE) /\ y # c[k].fingerprint
    <2>1. ASSUME y \in NamesIn(e, FALSE)
          PROVE  y \in NamesIn(c, FALSE) /\ y # c[k].fingerprint
      <3>1. PICK i \in 1..Len(c) : e[i].revoked = FALSE /\ e[i].fingerprint = y
        BY <2>1 DEF NamesIn
      <3>2. i # k /\ c[i].revoked = FALSE /\ c[i].fingerprint = y
        BY <3>1
      <3> QED
        BY <3>2, InNames
    <2>2. ASSUME y \in NamesIn(c, FALSE), y # c[k].fingerprint
          PROVE  y \in NamesIn(e, FALSE)
      <3>1. PICK i \in 1..Len(c) : c[i].revoked = FALSE /\ c[i].fingerprint = y
        BY <2>2 DEF NamesIn
      <3>2. e[i].revoked = FALSE /\ e[i].fingerprint = y
        BY <2>2, <3>1
      <3> QED
        BY <3>2, InNames
    <2> QED
      BY <2>1, <2>2
  <1>2. ASSUME NEW y
        PROVE  y \in NamesIn(e, TRUE)
                 <=> y \in NamesIn(c, TRUE) \/ y = c[k].fingerprint
    <2>1. ASSUME y \in NamesIn(e, TRUE), y # c[k].fingerprint
          PROVE  y \in NamesIn(c, TRUE)
      <3>1. PICK i \in 1..Len(c) : e[i].revoked = TRUE /\ e[i].fingerprint = y
        BY <2>1 DEF NamesIn
      <3>2. c[i].revoked = TRUE /\ c[i].fingerprint = y
        BY <2>1, <3>1
      <3> QED
        BY <3>2, InNames
    <2>2. ASSUME y \in NamesIn(c, TRUE) PROVE y \in NamesIn(e, TRUE)
      <3>1. PICK i \in 1..Len(c) : c[i].revoked = TRUE /\ c[i].fingerprint = y
        BY <2>2 DEF NamesIn
      <3>2. e[i].revoked = TRUE /\ e[i].fingerprint = y
        BY <3>1
      <3> QED
        BY <3>2, InNames
    <2>3. c[k].fingerprint \in NamesIn(e, TRUE)
      <3>1. e[k].revoked = TRUE /\ e[k].fingerprint = c[k].fingerprint
        OBVIOUS
      <3> QED
        BY <3>1, InNames
    <2> QED
      BY <2>1, <2>2, <2>3
  <1> QED
    BY <1>1, <1>2

\* Of the names all in the list e, those in R are revoked.
SplitBy(e, all, R) == NamesIn(e, FALSE) = all \ R /\ NamesIn(e, TRUE) = R

\* A list with the names of another, of which those in R are revoked.
LEMMA FlagsSet ==
  ASSUME NEW c \in Seq(Capability), NEW e, NEW all, NEW R, RevokedAll(e, c, R, all)
  PROVE  SplitBy(e, all, R)
  <1> USE DEF RevokedAll, SplitBy
  <1>1. ASSUME NEW y PROVE y \in NamesIn(e, FALSE) <=> y \in all /\ y \notin R
    <2>1. ASSUME y \in NamesIn(e, FALSE) PROVE y \in all /\ y \notin R
      <3>1. PICK i \in 1..Len(c) : e[i].revoked = FALSE /\ e[i].fingerprint = y
        BY <2>1 DEF NamesIn
      <3> QED
        BY <3>1
    <2>2. ASSUME y \in all, y \notin R PROVE y \in NamesIn(e, FALSE)
      <3>1. PICK i \in 1..Len(c) : c[i].fingerprint = y
        BY <2>2
      <3>2. e[i].revoked = FALSE /\ e[i].fingerprint = y
        <4>1. c[i].fingerprint \notin R
          BY <2>2, <3>1
        <4>2. e[i].revoked = (c[i].fingerprint \in R)
          OBVIOUS
        <4>3. e[i].revoked = FALSE
          <5>1. e[i].revoked \in BOOLEAN
            BY <4>2
          <5>2. ~ e[i].revoked
            BY <4>1, <4>2
          <5> QED
            BY <5>1, <5>2
        <4> QED
          BY <3>1, <4>3
      <3> QED
        BY <3>2, InNames
    <2> QED
      BY <2>1, <2>2
  <1>2. ASSUME NEW y PROVE y \in NamesIn(e, TRUE) <=> y \in R
    <2>1. ASSUME y \in NamesIn(e, TRUE) PROVE y \in R
      <3>1. PICK i \in 1..Len(c) : e[i].revoked = TRUE /\ e[i].fingerprint = y
        BY <2>1 DEF NamesIn
      <3> QED
        BY <3>1
    <2>2. ASSUME y \in R PROVE y \in NamesIn(e, TRUE)
      <3>1. PICK i \in 1..Len(c) : c[i].fingerprint = y
        BY <2>2
      <3>2. e[i].revoked = TRUE /\ e[i].fingerprint = y
        BY <2>2, <3>1
      <3> QED
        BY <3>2, InNames
    <2> QED
      BY <2>1, <2>2
  <1> QED
    BY <1>1, <1>2

\* The present in terms of lists.
LEMMA PresentIs ==
  ASSUME Numbered
  PROVE  /\ \A b : Fingerprints(b) = NamesIn(caps, b)
         /\ Present' = [active |-> NamesIn(caps', FALSE),
                        revoked |-> NamesIn(caps', TRUE), budgets |-> budgets']
         /\ Names = NamesIn(caps, TRUE) \cup NamesIn(caps, FALSE)
  <1>1. PICK c \in Seq(Capability) : c = caps
    BY DEF Numbered
  <1>2. NamesIn(c, TRUE) \cup NamesIn(c, FALSE) = {c[i].fingerprint : i \in 1..Len(c)}
    BY Lists
  <1>3. Names = NamesIn(caps, TRUE) \cup NamesIn(caps, FALSE)
    BY <1>1, <1>2 DEF Names
  <1> QED
    BY <1>3 DEF Fingerprints, NamesIn, Present

LEMMA MintStep ==
  ASSUME TenantInd, Numbered', NEW s \in Subjects, MintCapability(s)
  PROVE  TenantInd'
  <1> DEFINE x == NewFingerprint(s)
  <1>1. /\ Numbered /\ budgets \in TenantBudgets /\ "exec" \in Units
        /\ tenantClock \in 0..MaxTenantTime /\ caps \in Seq(Capability)
    BY DEF TenantInd, StateKept, Numbered, Units
  <1>2. x \in [seq : Nat, subject : Subjects, at : 0..MaxTenantTime]
    BY <1>1 DEF NewFingerprint
  <1>3. /\ caps' = Append(caps, [fingerprint |-> x, revoked |-> FALSE])
        /\ budgets' = Charged(budgets, "exec", 1)
        /\ AppendLog(<<"cap.mint", x>>)
        /\ snapshots' = snapshots /\ policies' = policies /\ plans' = plans
    BY DEF MintCapability
  <1> HIDE DEF x
  <1>4. /\ NamesIn(caps', FALSE) = NamesIn(caps, FALSE) \cup {x}
        /\ NamesIn(caps', TRUE) = NamesIn(caps, TRUE)
    <2>1. PICK c \in Seq(Capability) : c = caps
      BY <1>1
    <2>2. LET e == Append(c, [fingerprint |-> x, revoked |-> FALSE])
          IN  /\ NamesIn(e, FALSE) = NamesIn(c, FALSE) \cup {x}
              /\ NamesIn(e, TRUE) = NamesIn(c, TRUE)
      BY <1>2, Lists
    <2> QED
      BY <1>3, <2>1, <2>2
  <1>5. Present' = [active |-> Fingerprints(FALSE) \cup {x},
                    revoked |-> Fingerprints(TRUE),
                    budgets |-> Charged(budgets, "exec", 1)]
    BY <1>1, <1>3, <1>4, PresentIs
  <1>6. Names \subseteq Names'
    <2>1. Names' = NamesIn(caps', TRUE) \cup NamesIn(caps', FALSE)
      <3>1. PICK e \in Seq(Capability) : e = caps'
        BY DEF Numbered
      <3>2. NamesIn(e, TRUE) \cup NamesIn(e, FALSE)
              = {e[i].fingerprint : i \in 1..Len(e)}
        BY Lists
      <3> QED
        BY <3>1, <3>2 DEF Names
    <2> QED
      BY <1>1, <1>4, <2>1, PresentIs
  <1>7. LogKept'
    <2>1. \A f : Recounts(f) =>
            /\ After(Present, <<"cap.mint", x>>, SeenBy(f, <<"cap.mint", x>>)) = Present'
            /\ \A i \in 1..Len(snapshots') : Told(f, snapshots'[i], Len(log))
      BY <1>3, <1>5, Entries DEF Recounts
    <2> QED
      BY <1>3, <2>1, Written, BoundsAssumption DEF TenantInd, InTime
  <1>8. budgets' \in TenantBudgets
    BY <1>1, <1>3, BudgetsTyped
  <1> QED
    BY <1>3, <1>6, <1>7, <1>8 DEF TenantInd, StateKept

LEMMA RevokeStep ==
  ASSUME TenantInd, Numbered', NEW i \in 1..Len(caps),
         RevokeCapability(caps[i].fingerprint)
  PROVE  TenantInd'
  <1>1. Numbered /\ budgets \in TenantBudgets /\ caps \in Seq(Capability)
    BY DEF TenantInd, StateKept, Numbered
  <1>2. \A j, k \in 1..Len(caps) : caps[j].fingerprint = caps[k].fingerprint => j = k
    BY <1>1 DEF Numbered
  <1>3. With(caps[i].fingerprint) = {i}
    BY <1>2 DEF With
  <1>4. i \in Nat
    BY <1>1
  <1>5. Newest(With(caps[i].fingerprint)) = i
    <2>1. \A j \in {i} : j <= i
      BY <1>4
    <2> QED
      BY <1>3, <2>1 DEF Newest
  <1> DEFINE x == caps[i].fingerprint
  <1>6. /\ caps' = [caps EXCEPT ![i].revoked = TRUE]
        /\ AppendLog(<<"cap.revoke", x>>)
        /\ budgets' = budgets /\ snapshots' = snapshots /\ policies' = policies
        /\ plans' = plans
    BY <1>5 DEF RevokeCapability
  <1>7. /\ Len(caps') = Len(caps)
        /\ \A j \in 1..Len(caps) : caps'[j].fingerprint = caps[j].fingerprint
        /\ caps'[i].revoked = TRUE
        /\ \A j \in 1..Len(caps) : j # i => caps'[j].revoked = caps[j].revoked
    <2>1. Len(caps') = Len(caps) /\ DOMAIN caps = 1..Len(caps)
      BY <1>1, <1>6
    <2>2. \A j \in 1..Len(caps) : /\ caps[j] \in Capability
                                  /\ j # i => caps'[j] = caps[j]
      BY <1>1, <1>6, <2>1
    <2>3. caps'[i] = [caps[i] EXCEPT !.revoked = TRUE]
      BY <1>6, <2>1
    <2>4. caps'[i].fingerprint = caps[i].fingerprint /\ caps'[i].revoked = TRUE
      BY <2>2, <2>3 DEF Capability
    <2>5. ASSUME NEW j \in 1..Len(caps)
          PROVE  /\ caps'[j].fingerprint = caps[j].fingerprint
                 /\ j # i => caps'[j].revoked = caps[j].revoked
      <3>1. CASE j = i
        BY <2>4, <3>1
      <3>2. CASE j # i
        <4>1. caps'[j] = caps[j]
          BY <2>2, <3>2
        <4> QED
          BY <4>1
      <3> QED
        BY <3>1, <3>2
    <2> QED
      BY <2>1, <2>4, <2>5, Zenon
  <1>8. /\ NamesIn(caps', FALSE) = NamesIn(caps, FALSE) \ {x}
        /\ NamesIn(caps', TRUE) = NamesIn(caps, TRUE) \cup {x}
    <2>1. PICK c \in Seq(Capability) : c = caps
      BY <1>1
    <2>2. PICK e : e = caps'
      OBVIOUS
    <2>3. RevokedAt(e, c, i) /\ i \in 1..Len(c)
      BY <1>2, <1>7, <2>1, <2>2, Zenon DEF RevokedAt
    <2>4. /\ NamesIn(e, FALSE) = NamesIn(c, FALSE) \ {c[i].fingerprint}
          /\ NamesIn(e, TRUE) = NamesIn(c, TRUE) \cup {c[i].fingerprint}
      BY <2>3, OneRevoked, Zenon
    <2> QED
      BY <2>1, <2>2, <2>4, Zenon
  <1>11. Names' = Names
    BY <1>7 DEF Names
  <1> HIDE DEF x
  <1>9. Present' = [active |-> Fingerprints(FALSE) \ {x},
                    revoked |-> Fingerprints(TRUE) \cup {x}, budgets |-> budgets]
    <2>1. /\ Fingerprints(FALSE) = NamesIn(caps, FALSE)
          /\ Fingerprints(TRUE) = NamesIn(caps, TRUE)
          /\ Present' = [active |-> NamesIn(caps', FALSE),
                         revoked |-> NamesIn(caps', TRUE), budgets |-> budgets']
      BY <1>1, PresentIs, Zenon
    <2> QED
      BY <1>6, <1>8, <2>1, Zenon
  <1>10. LogKept'
    <2>1. \A f : Recounts(f) =>
            /\ After(Present, <<"cap.revoke", x>>, SeenBy(f, <<"cap.revoke", x>>)) = Present'
            /\ \A j \in 1..Len(snapshots') : Told(f, snapshots'[j], Len(log))
      BY <1>6, <1>9, Entries DEF Recounts
    <2> QED
      BY <1>6, <2>1, Written, BoundsAssumption DEF TenantInd, InTime
  <1> QED
    BY <1>6, <1>11, <1>10 DEF TenantInd, StateKept

\* A snapshot shows the present, and the last state of the replay is the present.
LEMMA CreateStep ==
  ASSUME TenantInd, Numbered', CreateSnapshot
  PROVE  TenantInd'
  <1>1. Numbered /\ budgets \in TenantBudgets
    BY DEF TenantInd, StateKept
  <1>2. PICK S : snapshots \in Seq(S)
    BY DEF TenantInd, StateKept
  <1>3. PICK s : s = [logical_time |-> Len(log), hash |-> SnapshotHash,
                      budgets |-> BuildBudget, active_caps |-> Fingerprints(FALSE),
                      revoked_caps |-> Fingerprints(TRUE)]
    OBVIOUS
  <1>4. /\ s.logical_time = Len(log) /\ s.revoked_caps = Fingerprints(TRUE)
        /\ s.budgets = BuildBudget
    BY <1>3
  <1> DEFINE d == <<"snapshot.create", SnapshotHash, Len(log)>>
  <1>5. /\ snapshots' = Append(snapshots, s) /\ AppendLog(d)
        /\ caps' = caps /\ budgets' = budgets /\ policies' = policies
        /\ plans' = plans
    BY <1>3 DEF CreateSnapshot
  <1>6. /\ snapshots' \in Seq(S \cup {s}) /\ Len(snapshots') = Len(snapshots) + 1
        /\ \A i \in 1..Len(snapshots) : snapshots'[i] = snapshots[i]
        /\ snapshots'[Len(snapshots) + 1] = s
        /\ 1..Len(snapshots') = (1..Len(snapshots)) \cup {Len(snapshots) + 1}
    <2>1. snapshots \in Seq(S \cup {s})
      BY <1>2
    <2>2. /\ snapshots' \in Seq(S \cup {s}) /\ Len(snapshots') = Len(snapshots) + 1
          /\ \A i \in 1..Len(snapshots) : snapshots'[i] = snapshots[i]
          /\ snapshots'[Len(snapshots) + 1] = s
      BY <1>5, <2>1
    <2> QED
      BY <1>2, <2>2
  <1>7. Present' = Spends(budgets)
    BY <1>5 DEF Present, Fingerprints, Spends
  <1>8. Len(log) \in Nat
    BY DEF TenantInd, LogKept
  <1>9. ASSUME NEW f, Recounts(f) PROVE Told(f, s, Len(log))
    <2>1. f[Len(log)] = Present
      BY <1>9 DEF Recounts
    <2>2. f[Len(log)].revoked = Fingerprints(TRUE) /\ f[Len(log)].budgets = budgets
      BY <2>1 DEF Present
    <2>3. RestoredBudgets(s) = budgets
      BY <1>1, <1>4 DEF TenantBudgets, RestoredBudgets, BuildBudget
    <2> QED
      BY <1>4, <1>8, <2>2, <2>3 DEF Told
  <1>10. LogKept'
    <2>1. \A at : After(Present, d, at) = Present'
      BY <1>7 DEF After, Present, Spends
    <2>2. d[1] # "snapshot.restore"
      OBVIOUS
    <2> HIDE DEF d
    <2>3. \A f : Recounts(f) =>
            /\ After(Present, d, SeenBy(f, d)) = Present'
            /\ \A i \in 1..Len(snapshots') : Told(f, snapshots'[i], Len(log))
      BY <1>6, <1>9, <2>1, Zenon DEF Recounts
    <2> QED
      BY <1>5, <2>2, <2>3, Written, BoundsAssumption DEF TenantInd, InTime
  <1>11. Names' = Names
    BY <1>5 DEF Names
  <1>12. s.revoked_caps \subseteq Names
    BY <1>1, <1>4, PresentIs
  <1>13. RestoredBudgets(s) \in TenantBudgets
    BY <1>1, <1>4 DEF TenantBudgets, RestoredBudgets, BuildBudget
  <1>14. \A i \in 1..Len(snapshots') :
           /\ snapshots'[i].revoked_caps \subseteq Names'
           /\ RestoredBudgets(snapshots'[i]) \in TenantBudgets
    BY <1>6, <1>11, <1>12, <1>13 DEF TenantInd, StateKept
  <1> QED
    BY <1>1, <1>5, <1>6, <1>10, <1>14 DEF TenantInd, StateKept

LEMMA NewestIs ==
  ASSUME NEW n \in Nat, NEW T \in SUBSET (1..n), T # {}
  PROVE  Newest(T) \in T
  <1> DEFINE D == {n - i : i \in T}
  <1>1. D \in SUBSET Nat /\ D # {}
    <2>1. PICK i : i \in T
      OBVIOUS
    <2>2. n - i \in D
      BY <2>1
    <2> QED
      BY <2>2
  <1>2. PICK x \in D : \A y \in D : x <= y
    <2> HIDE DEF D
    <2> QED
      BY <1>1, LeastTime
  <1>3. PICK m \in T : x = n - m
    OBVIOUS
  <1>4. \A j \in T : n - m <= n - j
    BY <1>2, <1>3
  <1>5. \A j \in T : j <= m
    BY <1>4
  <1> QED
    BY <1>5 DEF Newest

LEMMA RestoreStep ==
  ASSUME TenantInd, Numbered', NEW k \in 1..Len(snapshots),
         RestoreSnapshot(snapshots[k].hash)
  PROVE  TenantInd'
  <1> DEFINE h == snapshots[k].hash
             H == {i \in 1..Len(snapshots) : snapshots[i].hash = h}
  <1>1. Numbered /\ budgets \in TenantBudgets /\ caps \in Seq(Capability)
    BY DEF TenantInd, StateKept, Numbered
  <1>2. PICK n \in 1..Len(snapshots) : FoundSnapshot(h) = snapshots[n]
    <2>1. Len(snapshots) \in Nat
      BY DEF TenantInd, StateKept
    <2>2. H \in SUBSET (1..Len(snapshots)) /\ H # {}
      OBVIOUS
    <2>3. Newest(H) \in H
      <3> HIDE DEF H
      <3> QED
        BY <2>1, <2>2, NewestIs
    <2> QED
      BY <2>3 DEF FoundSnapshot
  <1>3. PICK s : s = snapshots[n]
    OBVIOUS
  <1> DEFINE d == <<"snapshot.restore", h, s.logical_time>>
  <1>4. /\ budgets' = RestoredBudgets(s) /\ caps' = RestoredCaps(s) /\ AppendLog(d)
        /\ snapshots' = snapshots /\ policies' = policies /\ plans' = plans
    BY <1>2, <1>3 DEF RestoreSnapshot
  <1> DEFINE R == s.revoked_caps
  <1>5. R \subseteq Names
    BY <1>3 DEF TenantInd, StateKept
  <1>6. /\ Len(caps') = Len(caps)
        /\ \A i \in 1..Len(caps) : /\ caps'[i].fingerprint = caps[i].fingerprint
                                   /\ caps'[i].revoked = (caps[i].fingerprint \in R)
    <2>1. \A i \in 1..Len(caps) :
            caps'[i] = [caps[i] EXCEPT !.revoked = caps[i].fingerprint \in R]
      BY <1>4 DEF RestoredCaps
    <2>2. Len(caps') = Len(caps)
      <3>1. DOMAIN caps' = 1..Len(caps)
        BY <1>4 DEF RestoredCaps
      <3>2. DOMAIN caps' = 1..Len(caps') /\ Len(caps') \in Nat /\ Len(caps) \in Nat
        BY <1>1 DEF Numbered
      <3> QED
        BY <3>1, <3>2
    <2>3. ASSUME NEW i \in 1..Len(caps), NEW b \in BOOLEAN
          PROVE  /\ [caps[i] EXCEPT !.revoked = b].fingerprint = caps[i].fingerprint
                 /\ [caps[i] EXCEPT !.revoked = b].revoked = b
      <3>1. caps[i] \in Capability
        BY <1>1
      <3> QED
        BY <3>1 DEF Capability
    <2>4. ASSUME NEW i \in 1..Len(caps)
          PROVE  /\ caps'[i].fingerprint = caps[i].fingerprint
                 /\ caps'[i].revoked = (caps[i].fingerprint \in R)
      <3>1. (caps[i].fingerprint \in R) \in BOOLEAN
        OBVIOUS
      <3>2. caps'[i] = [caps[i] EXCEPT !.revoked = caps[i].fingerprint \in R]
        BY <2>1
      <3>3. /\ [caps[i] EXCEPT !.revoked = caps[i].fingerprint \in R].fingerprint
                 = caps[i].fingerprint
            /\ [caps[i] EXCEPT !.revoked = caps[i].fingerprint \in R].revoked
                 = (caps[i].fingerprint \in R)
        BY <2>3, <3>1, Zenon
      <3> QED
        BY <3>2, <3>3, Zenon
    <2> QED
      BY <2>2, <2>4, Zenon
  <1>7. Names' = Names
    BY <1>6 DEF Names
  <1>8. NamesIn(caps', FALSE) = Names \ R /\ NamesIn(caps', TRUE) = R
    <2>1. PICK c \in Seq(Capability) : c = caps
      BY <1>1
    <2>2. PICK e : e = caps'
      OBVIOUS
    <2>3. PICK all : all = Names
      OBVIOUS
    <2>4. RevokedAll(e, c, R, all)
      <3>1. all = {c[i].fingerprint : i \in 1..Len(c)}
        BY <2>1, <2>3, Zenon DEF Names
      <3> QED
        BY <1>5, <1>6, <2>1, <2>2, <2>3, <3>1, Zenon DEF RevokedAll
    <2>5. SplitBy(e, all, R)
      <3> HIDE DEF R
      <3> QED
        BY <2>4, FlagsSet, Zenon
    <2> QED
      BY <2>2, <2>3, <2>5, Zenon DEF SplitBy
  <1>9. Present' = [active |-> (Fingerprints(FALSE) \cup Fingerprints(TRUE)) \ R,
                    revoked |-> R, budgets |-> RestoredBudgets(s)]
    <2>1. Fingerprints(FALSE) \cup Fingerprints(TRUE) = Names
      BY <1>1, PresentIs
    <2>2. Present' = [active |-> NamesIn(caps', FALSE),
                      revoked |-> NamesIn(caps', TRUE), budgets |-> budgets']
      BY <1>1, PresentIs, Zenon
    <2> HIDE DEF R
    <2> QED
      BY <1>4, <1>8, <2>1, <2>2, Zenon
  <1>10. ASSUME NEW f, Recounts(f)
         PROVE  /\ After(Present, d, SeenBy(f, d)) = Present'
                /\ \A i \in 1..Len(snapshots') : Told(f, snapshots'[i], Len(log))
                /\ s.logical_time \in 0..Len(log)
    <2>1. Told(f, s, Len(log))
      BY <1>3, <1>10 DEF Recounts
    <2>2. SeenBy(f, d) = f[s.logical_time]
      BY DEF SeenBy
    <2>3. PICK at : at = SeenBy(f, d)
      OBVIOUS
    <2>4. After(Present, d, at)
            = [active |-> (Fingerprints(FALSE) \cup Fingerprints(TRUE)) \ at.revoked,
               revoked |-> at.revoked, budgets |-> at.budgets]
      BY DEF After, Present
    <2>6. at.revoked = R /\ at.budgets = RestoredBudgets(s)
      BY <2>1, <2>2, <2>3 DEF Told
    <2>5. After(Present, d, SeenBy(f, d)) = Present'
      <3> HIDE DEF d, R
      <3> QED
        BY <1>9, <2>3, <2>4, <2>6, Zenon
    <2> QED
      BY <1>4, <1>10, <2>1, <2>5 DEF Recounts, Told
  <1>11. LogKept'
    <2>1. s.logical_time \in 0..Len(log)
      BY <1>10 DEF TenantInd, LogKept
    <2>2. InTime(d, Len(log))
      BY <2>1 DEF InTime
    <2> HIDE DEF d
    <2> QED
      BY <1>4, <1>10, <2>2, Written, BoundsAssumption DEF TenantInd
  <1>12. budgets' \in TenantBudgets
    BY <1>3, <1>4 DEF TenantInd, StateKept
  <1> QED
    BY <1>1, <1>4, <1>7, <1>11, <1>12 DEF TenantInd, StateKept

LEMMA TenantIndInit == TenantInit => TenantInd
  <1> SUFFICES ASSUME TenantInit PROVE TenantInd
    OBVIOUS
  <1> USE DEF TenantInit
  <1>1. EmptyBudgets \in TenantBudgets
    BY BudgetLimitsAssumption DEF EmptyBudgets, TenantBudgets
  <1>2. StateKept
    BY <1>1, NumberedInit DEF StateKept
  <1>3. PICK f : f = [k \in 0..0 |-> Nothing]
    OBVIOUS
  <1>4. f[0] = Nothing /\ f = [k \in 0..0 |-> f[k]]
    BY <1>3
  <1>5. Replay(f, log, 0)
    <2>1. \A k \in 1..0 : f[k] = After(f[k - 1], log[k], SeenBy(f, log[k]))
      OBVIOUS
    <2> QED
      BY <1>4, <2>1, ReplayMade
  <1>6. Present = Nothing
    <2>1. 1..Len(caps) = {}
      OBVIOUS
    <2>2. Fingerprints(TRUE) = {} /\ Fingerprints(FALSE) = {}
      BY <2>1, Zenon DEF Fingerprints
    <2> QED
      BY <2>2 DEF Present, Nothing
  <1>7. Recounts(f)
    BY <1>4, <1>5, <1>6 DEF Recounts
  <1>8. RestoresPast(log, 0)
    BY DEF RestoresPast
  <1>9. LogKept
    BY <1>7, <1>8, BoundsAssumption DEF LogKept
  <1> QED
    BY <1>2, <1>9 DEF TenantInd

LEMMA TenantIndStep == TenantInd /\ [TenantNext]_tenantVars => TenantInd'
  <1> SUFFICES ASSUME TenantInd, [TenantNext]_tenantVars PROVE TenantInd'
    OBVIOUS
  <1>1. Numbered'
    BY NumberedStep DEF TenantInd, StateKept
  <1>2. ASSUME UNCHANGED <<caps, budgets, policies, plans, snapshots, log>>
        PROVE  TenantInd'
    <2>1. Present' = Present /\ Names' = Names
      BY <1>2 DEF Present, Fingerprints, Names
    <2>2. LogKept'
      BY <1>2, <2>1 DEF TenantInd, LogKept, Recounts
    <2> QED
      BY <1>1, <1>2, <2>1, <2>2 DEF TenantInd, StateKept
  <1>3. CASE TenantTick
    BY <1>2, <1>3 DEF TenantTick
  <1>4. CASE UNCHANGED tenantVars
    BY <1>2, <1>4 DEF tenantVars
  <1> QED
    BY <1>1, <1>3, <1>4, BudgetSteps, MintStep, RevokeStep, CreateStep, RestoreStep
       DEF TenantNext

\* A tenant's fingerprints name one capability each, and replaying its log gives
\* its capabilities, their revocations and its budgets, whatever is minted,
\* revoked, charged, snapshotted and restored (mutateState and appendLog).
THEOREM TenantCorrect == TenantSpec => []TenantInvariant
  <1>1. ASSUME TenantInd PROVE TenantInvariant
    <2>1. Numbered /\ policies \in Seq(Policy)
      BY <1>1 DEF TenantInd, StateKept
    <2>2. PICK f : Recounts(f)
      BY <1>1 DEF TenantInd, LogKept
    <2>3. Len(log) \in Nat /\ Len(log) <= MaxEvents /\ RestoresPast(log, Len(log))
      BY <1>1 DEF TenantInd, LogKept
    <2>4. LogAccountsForState
      <3>1. PICK n \in Nat : n = Len(log)
        BY <2>3
      <3>2. TellsOf(n) = f[n]
        <4>1. RestoresPast(log, n) /\ Replay(f, log, n)
          BY <2>2, <2>3, <3>1 DEF Recounts
        <4> QED
          BY <4>1, TellsIsReplay
      <3>3. TellsOf(Len(log)) = Present
        BY <2>2, <3>1, <3>2, Zenon DEF Recounts
      <3> QED
        BY <3>3 DEF LogAccountsForState, Present
    <2>5. FingerprintsUnique
      BY <2>1 DEF Numbered, FingerprintsUnique
    <2>6. \A i \in 1..Len(snapshots) : snapshots[i].logical_time \in 0..MaxEvents
      BY <2>2, <2>3, BoundsAssumption DEF Recounts, Told
    <2>7. ASSUME NEW i \in 1..Len(caps)
          PROVE  caps[i].fingerprint \in Fingerprint /\ caps[i].revoked \in BOOLEAN
      <3>1. caps[i] \in Capability
        BY <2>1 DEF Numbered
      <3> QED
        BY <3>1 DEF Capability, Fingerprint
    <2>8. TenantTypeOK
      <3>1. \A i \in 1..Len(policies) : policies[i] \in Policy
        BY <2>1
      <3>2. /\ tenantClock \in 0..MaxTenantTime /\ budgets \in TenantBudgets
            /\ plans \subseteq [steps : StepCounts, at : 0..MaxTenantTime]
        BY <1>1 DEF TenantInd, StateKept, Numbered
      <3> QED
        BY <2>6, <2>7, <3>1, <3>2, Zenon DEF TenantTypeOK, Policy
    <2> QED
      BY <2>4, <2>5, <2>8 DEF TenantInvariant
  <1> QED
    BY <1>1, TenantIndInit, TenantIndStep, PTL DEF TenantSpec

-----------------------------------------------------------------------------
\* MemoryGateway
(***************************************************************************)
(* Proofs about MemoryGateway, for every finite set of requests and every  *)
(* time to live of the two maps.                                           *)
(***************************************************************************)

MemReq == [kind : {"none", "GET", "POST"},
           phase : {"none", "arrived", "handling", "hit", "storing", "answered", "over"},
           at : Nat, shows : Nat]

Going(x) == x.phase \in {"arrived", "handling", "storing"}

\* A request is not under way longer than MaxRequestTime, and shows no version
\* that is yet to come.
ReqOK(x, now, ver) == /\ x.at <= now /\ x.shows <= ver
                      /\ x.kind = "none" => x.phase \in {"none", "over"}
                      /\ Going(x) => now - x.at <= MaxRequestTime

MemTypes ==
  /\ memTime \in MemTimes /\ version \in Nat /\ restarts \in Nat
  /\ cached = NoEntry \/ cached \in [shows : 0..version, expires : 0..(memTime + CacheTtl)]
  /\ keyed = NoEntry \/ keyed \in [expires : 0..(memTime + KeyTtl)]
  /\ replacedAt \in [Versions -> MemTimes]
  /\ incoming \in [MemRequests -> MemReq]
  /\ \A r \in MemRequests : ReqOK(incoming[r], memTime, version)

\* The requests whose handler is over, or never ran and will not: each has
\* made at most one change.
Spent == {r \in MemRequests : incoming[r].phase \notin {"none", "arrived", "handling"}}
ChangesPaid == version <= Cardinality(Spent)

\* Version v was still current at time t.
Since(v, t, ver, rep) == v = ver \/ rep[v] >= t

FreshReq(x, ver, rep) ==
  x.kind = "GET" =>
    /\ x.phase = "storing" => Since(x.shows, x.at, ver, rep)
    /\ x.phase \in {"hit", "answered"} => Since(x.shows, x.at - CacheTtl + 1, ver, rep)

FreshEntry(k, ver, rep) == k # NoEntry => Since(k.shows, k.expires - CacheTtl, ver, rep)

\* An entry of the cache shows what was current when the request arrived that
\* stored it.
Fresh == /\ FreshEntry(cached, version, replacedAt)
         /\ \A r \in MemRequests : FreshReq(incoming[r], version, replacedAt)

Live(x) == x.kind = "POST" /\ Going(x)
Past(x) == x.kind = "POST" /\ x.phase \in {"handling", "storing"}
Done(x) == x.kind = "POST" /\ x.phase = "answered"

\* The run of a request that arrived at a is on record, or its time is over.
OnRecord(k, now, a) == a + KeyTtl <= now \/ (k # NoEntry /\ a + KeyTtl <= k.expires)

Apart(a, b) == a - b >= KeyTtl - MaxRequestTime

\* What the key protects when its requests come in turn.
InTurn ==
  /\ \A r, s \in MemRequests : Live(incoming[r]) /\ Live(incoming[s]) => r = s
  /\ \A r, s \in MemRequests :
       Live(incoming[r]) /\ Done(incoming[s]) => incoming[s].at <= incoming[r].at

KeyHolds ==
  /\ \A s \in MemRequests : Done(incoming[s]) => OnRecord(keyed, memTime, incoming[s].at)
  /\ \A r, s \in MemRequests :
       Past(incoming[r]) /\ Done(incoming[s]) => Apart(incoming[r].at, incoming[s].at)
  /\ \A r, s \in MemRequests :
       Done(incoming[r]) /\ Done(incoming[s]) /\ r # s =>
         Apart(incoming[r].at, incoming[s].at) \/ Apart(incoming[s].at, incoming[r].at)

Turns == /\ overlapped \in BOOLEAN
         /\ ~overlapped => InTurn
         /\ ~overlapped /\ restarts = 0 => KeyHolds

MemInd == MemTypes /\ ChangesPaid /\ Fresh /\ Turns

-----------------------------------------------------------------------------
LEMMA MemOf ==
  ASSUME MemTypes
  PROVE  /\ memTime \in Nat /\ memTime <= MaxMemTime /\ MaxMemTime \in Nat
         /\ version \in Nat /\ restarts \in Nat
         /\ CacheTtl \in Nat /\ CacheTtl > 0 /\ KeyTtl \in Nat /\ KeyTtl > 0
         /\ MaxRequestTime \in Nat
         /\ \A r \in MemRequests :
              /\ incoming[r] \in MemReq /\ incoming[r].at \in Nat /\ incoming[r].shows \in Nat
              /\ ReqOK(incoming[r], memTime, version)
<1>1. incoming \in [MemRequests -> MemReq]
  BY DEF MemTypes
<1>2. \A r \in MemRequests : incoming[r] \in MemReq
  BY <1>1
<1>3. \A r \in MemRequests : incoming[r].at \in Nat /\ incoming[r].shows \in Nat
  BY <1>2 DEF MemReq
<1> QED
  BY <1>2, <1>3, MemAssumption DEF MemTypes, MemTimes

LEMMA MemOneMoves ==
  ASSUME MemTypes, NEW r \in MemRequests, NEW x \in MemReq,
         incoming' = [incoming EXCEPT ![r] = x]
  PROVE  /\ incoming' \in [MemRequests -> MemReq] /\ incoming'[r] = x
         /\ \A d \in MemRequests : d # r => incoming'[d] = incoming[d]
  BY DEF MemTypes

LEMMA MemTypesStep ==
  ASSUME MemTypes, memTime' = memTime, version' \in Nat, version' >= version, restarts' \in Nat,
         cached' = NoEntry \/ cached' = cached
           \/ cached' \in [shows : 0..version', expires : 0..(memTime + CacheTtl)],
         keyed' = NoEntry \/ keyed' = keyed \/ keyed' \in [expires : 0..(memTime + KeyTtl)],
         replacedAt' \in [Versions -> MemTimes], incoming' \in [MemRequests -> MemReq],
         \A d \in MemRequests :
           incoming'[d] = incoming[d] \/ ReqOK(incoming'[d], memTime, version')
  PROVE  MemTypes'
<1>1. \A d \in MemRequests : ReqOK(incoming'[d], memTime', version')
  <2>1. ASSUME NEW d \in MemRequests, incoming'[d] = incoming[d]
        PROVE  ReqOK(incoming'[d], memTime', version')
    BY <2>1, MemOf DEF ReqOK
  <2> QED
    BY <2>1
<1>2. cached' = NoEntry \/ cached' \in [shows : 0..version', expires : 0..(memTime' + CacheTtl)]
  <2>1. 0..version \subseteq 0..version'
    BY MemOf
  <2> QED
    BY <2>1 DEF MemTypes
<1>3. keyed' = NoEntry \/ keyed' \in [expires : 0..(memTime' + KeyTtl)]
  BY DEF MemTypes
<1> QED
  BY <1>1, <1>2, <1>3 DEF MemTypes

\* The change counter.
LEMMA SpentFinite == /\ IsFiniteSet(Spent) /\ Cardinality(Spent) \in Nat
                     /\ Cardinality(Spent) <= Cardinality(MemRequests)
                     /\ Cardinality(MemRequests) \in Nat
<1>1. Spent \subseteq MemRequests
  BY DEF Spent
<1> QED
  BY <1>1, MemAssumption, FS_Subset, FS_CardinalityType

LEMMA SpentGrows ==
  ASSUME Spent \subseteq Spent'
  PROVE  Cardinality(Spent) <= Cardinality(Spent') /\ Cardinality(Spent') \in Nat
<1>1. Spent' \subseteq MemRequests
  BY DEF Spent
<1>2. IsFiniteSet(Spent')
  BY <1>1, MemAssumption, FS_Subset
<1> QED
  BY <1>2, FS_Subset, FS_CardinalityType

LEMMA SpentAdds ==
  ASSUME NEW r, r \notin Spent, Spent' = Spent \cup {r}
  PROVE  Cardinality(Spent') = Cardinality(Spent) + 1
  BY SpentFinite, FS_AddElement

LEMMA SpentOne ==
  ASSUME MemTypes, NEW r \in MemRequests, NEW x \in MemReq,
         incoming' = [incoming EXCEPT ![r] = x],
         r \in Spent => x.phase \notin {"none", "arrived", "handling"}
  PROVE  Spent' = IF x.phase \in {"none", "arrived", "handling"} THEN Spent ELSE Spent \cup {r}
<1>1. incoming'[r] = x /\ \A d \in MemRequests : d # r => incoming'[d] = incoming[d]
  BY MemOneMoves
<1>2. \A d \in MemRequests : (d \in Spent') <=>
        (d \in (IF x.phase \in {"none", "arrived", "handling"} THEN Spent ELSE Spent \cup {r}))
  BY <1>1 DEF Spent
<1>3. Spent \subseteq MemRequests /\ Spent' \subseteq MemRequests
  BY DEF Spent
<1> QED
  BY <1>2, <1>3

\* A version that was current at t still was, when another replaces it later.
LEMMA SinceChanges ==
  ASSUME NEW ver \in Versions, NEW rep \in [Versions -> MemTimes], NEW now \in MemTimes,
         NEW v \in Nat, NEW t \in Int, v <= ver, t <= now, Since(v, t, ver, rep)
  PROVE  Since(v, t, ver + 1, [rep EXCEPT ![ver] = now])
<1>1. CASE v = ver
  BY <1>1 DEF Since
<1>2. CASE v # ver
  <2>1. [rep EXCEPT ![ver] = now][v] = rep[v]
    <3>1. Cardinality(MemRequests) \in Nat
      BY SpentFinite
    <3>2. v \in Versions
      BY <3>1 DEF Versions
    <3> QED
      BY <1>2, <3>2
  <2> QED
    BY <1>2, <2>1 DEF Since
<1> QED
  BY <1>1, <1>2

\* One request moves on, and the others' turns are as before.
LEMMA TurnsStep ==
  ASSUME MemTypes, Turns, overlapped' = overlapped, memTime' \in Nat, memTime' >= memTime,
         restarts' = 0 => restarts = 0,
         restarts' = 0 => keyed' = keyed \/ (keyed # NoEntry /\ keyed.expires <= memTime'),
         \A d \in MemRequests :
           /\ Live(incoming'[d]) => Live(incoming[d])
           /\ Done(incoming'[d]) => Done(incoming[d])
           /\ Live(incoming'[d]) \/ Done(incoming'[d]) => incoming'[d].at = incoming[d].at
           /\ Past(incoming'[d]) => \/ Past(incoming[d])
                                    \/ ~overlapped /\ restarts = 0 =>
                                         \A s \in MemRequests : Done(incoming[s]) =>
                                           Apart(incoming[d].at, incoming[s].at)
  PROVE  Turns'
<1>1. overlapped' \in BOOLEAN
  BY DEF Turns
<1>2. ASSUME ~overlapped'
      PROVE  InTurn'
  BY <1>2 DEF Turns, InTurn
<1>3. ASSUME ~overlapped', restarts' = 0
      PROVE  KeyHolds'
  <2>1. KeyHolds /\ ~overlapped /\ restarts = 0
    BY <1>3 DEF Turns
  <2>2. ASSUME NEW s \in MemRequests, Done(incoming'[s])
        PROVE  OnRecord(keyed', memTime', incoming'[s].at)
    <3>1. PICK a \in Nat : a = incoming[s].at /\ a = incoming'[s].at
      BY <2>2, MemOf
    <3>2. OnRecord(keyed, memTime, a)
      BY <2>1, <2>2, <3>1 DEF KeyHolds
    <3>3. keyed = NoEntry \/ (keyed # NoEntry /\ keyed.expires \in Nat)
      BY MemOf DEF MemTypes
    <3>4. OnRecord(keyed', memTime', a)
      BY <1>3, <3>2, <3>3, MemOf DEF OnRecord
    <3> QED
      BY <3>1, <3>4
  <2>3. ASSUME NEW r \in MemRequests, NEW s \in MemRequests,
               Past(incoming'[r]), Done(incoming'[s])
        PROVE  Apart(incoming'[r].at, incoming'[s].at)
    <3>1. Live(incoming'[r])
      BY <2>3 DEF Past, Live, Going
    <3>2. incoming'[r].at = incoming[r].at /\ incoming'[s].at = incoming[s].at
      BY <2>3, <3>1
    <3>3. Apart(incoming[r].at, incoming[s].at)
      BY <2>1, <2>3 DEF KeyHolds
    <3> QED
      BY <3>2, <3>3
  <2>4. ASSUME NEW r \in MemRequests, NEW s \in MemRequests, r # s,
               Done(incoming'[r]), Done(incoming'[s])
        PROVE  \/ Apart(incoming'[r].at, incoming'[s].at)
               \/ Apart(incoming'[s].at, incoming'[r].at)
    <3>1. incoming'[r].at = incoming[r].at /\ incoming'[s].at = incoming[s].at
      BY <2>4
    <3>2. Apart(incoming[r].at, incoming[s].at) \/ Apart(incoming[s].at, incoming[r].at)
      BY <2>1, <2>4 DEF KeyHolds
    <3> QED
      BY <3>1, <3>2
  <2> QED
    BY <2>2, <2>3, <2>4 DEF KeyHolds
<1> QED
  BY <1>1, <1>2, <1>3 DEF Turns

\* A step that moves one request, without its change or its entries.
LEMMA InnerStep ==
  ASSUME MemInd, NEW r \in MemRequests, NEW x \in MemReq,
         incoming' = [incoming EXCEPT ![r] = x],
         UNCHANGED <<memTime, version, cached, keyed, replacedAt, restarts>>,
         UNCHANGED overlapped,
         ReqOK(x, memTime, version), FreshReq(x, version, replacedAt),
         x.phase \notin {"none", "arrived"}, r \in Spent => x.phase # "handling",
         ~Done(x), Live(x) => Live(incoming[r]) /\ x.at = incoming[r].at,
         Past(x) => \/ Past(incoming[r])
                    \/ ~overlapped /\ restarts = 0 =>
                         \A s \in MemRequests : Done(incoming[s]) => Apart(x.at, incoming[s].at)
  PROVE  MemInd'
<1>1. MemTypes /\ ChangesPaid /\ Fresh /\ Turns
  BY DEF MemInd
<1>2. /\ incoming' \in [MemRequests -> MemReq] /\ incoming'[r] = x
      /\ \A d \in MemRequests : d # r => incoming'[d] = incoming[d]
  BY <1>1, MemOneMoves
<1>3. MemTypes'
  <2>1. \A d \in MemRequests : incoming'[d] = incoming[d] \/ ReqOK(incoming'[d], memTime, version')
    BY <1>2
  <2>2. version' >= version /\ version' \in Nat /\ restarts' \in Nat
    BY <1>1, MemOf
  <2>3. replacedAt' \in [Versions -> MemTimes]
    BY <1>1 DEF MemTypes
  <2> QED
    BY <1>1, <1>2, <2>1, <2>2, <2>3, MemTypesStep
<1>4. ChangesPaid'
  <2>1. Spent' = Spent \/ Spent' = Spent \cup {r}
    BY <1>1, SpentOne
  <2>2. Spent \subseteq Spent'
    BY <2>1
  <2>3. Cardinality(Spent) <= Cardinality(Spent') /\ Cardinality(Spent') \in Nat
    BY <2>2, SpentGrows
  <2> QED
    BY <1>1, <2>3, MemOf, SpentFinite DEF ChangesPaid
<1>5. Fresh'
  BY <1>1, <1>2 DEF Fresh
<1>6. Turns'
  <2>1. Past(x) => Live(x)
    BY DEF Past, Live, Going
  <2>2. ASSUME NEW d \in MemRequests
        PROVE  /\ Live(incoming'[d]) => Live(incoming[d])
               /\ Done(incoming'[d]) => Done(incoming[d])
               /\ Live(incoming'[d]) \/ Done(incoming'[d]) => incoming'[d].at = incoming[d].at
               /\ Past(incoming'[d]) => \/ Past(incoming[d])
                                        \/ ~overlapped /\ restarts = 0 =>
                                             \A s \in MemRequests : Done(incoming[s]) =>
                                               Apart(incoming[d].at, incoming[s].at)
    <3>1. CASE d = r
      BY <1>2, <2>1, <3>1
    <3>2. CASE d # r
      BY <1>2, <3>2
    <3> QED
      BY <3>1, <3>2
  <2>3. memTime' \in Nat /\ memTime' >= memTime
    BY <1>1, MemOf
  <2> QED
    BY <1>1, <2>2, <2>3, TurnsStep
<1> QED
  BY <1>3, <1>4, <1>5, <1>6 DEF MemInd

-----------------------------------------------------------------------------
LEMMA MemInitInd == MemInit => MemInd
<1> SUFFICES ASSUME MemInit
             PROVE  MemInd
  OBVIOUS
<1>1. /\ Unborn \in MemReq /\ Unborn.kind = "none" /\ Unborn.phase = "none"
      /\ Unborn.at = 0 /\ Unborn.shows = 0
  BY DEF Unborn, MemReq
<1>2. incoming \in [MemRequests -> MemReq] /\ \A r \in MemRequests : incoming[r] = Unborn
  BY <1>1 DEF MemInit
<1>3. \A r \in MemRequests : ReqOK(incoming[r], memTime, version)
  BY <1>1, <1>2 DEF MemInit, ReqOK, Going
<1>4. MemTypes
  BY <1>2, <1>3, MemAssumption DEF MemInit, MemTypes, MemTimes
<1>5. ChangesPaid
  BY SpentFinite DEF MemInit, ChangesPaid
<1>6. Fresh
  BY <1>1, <1>2 DEF MemInit, Fresh, FreshEntry, FreshReq
<1>7. overlapped \in BOOLEAN
  BY DEF MemInit
<1>8. \A r \in MemRequests : ~Live(incoming[r]) /\ ~Done(incoming[r]) /\ ~Past(incoming[r])
  BY <1>1, <1>2 DEF Live, Done, Past
<1>9. InTurn /\ KeyHolds
  BY <1>8 DEF InTurn, KeyHolds
<1>10. Turns
  BY <1>7, <1>9 DEF Turns
<1> QED
  BY <1>4, <1>5, <1>6, <1>10 DEF MemInd

LEMMA OverIs ==
  /\ Over \in MemReq /\ Over.phase = "over" /\ Over.kind = "none"
  /\ Over.at = 0 /\ Over.shows = 0
  BY DEF Over, Unborn, MemReq

\* A request ends without an answer of its handler.
LEMMA EndsStep ==
  ASSUME MemInd, NEW r \in MemRequests, Ends(r),
         UNCHANGED <<memTime, version, cached, keyed, replacedAt, restarts>>,
         UNCHANGED overlapped
  PROVE  MemInd'
<1>1. incoming' = [incoming EXCEPT ![r] = Over]
  BY DEF Ends
<1>2. ReqOK(Over, memTime, version)
  BY OverIs, MemOf DEF MemInd, ReqOK, Going
<1>3. FreshReq(Over, version, replacedAt) /\ ~Done(Over) /\ ~Live(Over) /\ ~Past(Over)
  BY OverIs DEF FreshReq, Done, Live, Past
<1> QED
  BY <1>1, <1>2, <1>3, OverIs, InnerStep

LEMMA TurnedInd ==
  ASSUME MemInd, NEW r \in MemRequests, Turned(r)
  PROVE  MemInd'
  BY EndsStep DEF Turned

\* A hit shows what the entry was stored with, and that was current not longer
\* than CacheTtl before the request arrived.
LEMMA CacheLookupInd ==
  ASSUME MemInd, NEW r \in MemRequests, CacheLookup(r)
  PROVE  MemInd'
<1>1. /\ incoming[r].phase = "arrived" /\ incoming[r].kind = "GET"
      /\ UNCHANGED <<memTime, version, cached, keyed, replacedAt, restarts>>
  BY DEF CacheLookup
<1>2. UNCHANGED overlapped
  BY DEF CacheLookup
<1>3. PICK q \in MemReq : /\ q = incoming[r] /\ ReqOK(q, memTime, version)
                          /\ q.at \in Nat /\ q.shows \in Nat
  BY MemOf DEF MemInd
<1>4. r \notin Spent
  BY <1>1 DEF Spent
<1>5. CASE Counts(cached, r)
  <2>1. PICK v : v = cached.shows
    OBVIOUS
  <2>2. cached # NoEntry /\ cached.expires > q.at
    BY <1>3, <1>5 DEF Counts
  <2>3. cached \in [shows : 0..version, expires : 0..(memTime + CacheTtl)]
    BY <2>2 DEF MemInd, MemTypes
  <2>4. v \in Nat /\ v <= version /\ cached.expires \in Nat
    BY <2>1, <2>3, MemOf DEF MemInd
  <2>5. PICK h : h = [q EXCEPT !.phase = "hit"]
    OBVIOUS
  <2>6. h \in MemReq /\ h.phase = "hit" /\ h.kind = q.kind /\ h.at = q.at
    BY <2>5 DEF MemReq
  <2>7. PICK x : x = [h EXCEPT !.shows = v]
    OBVIOUS
  <2>8. x \in MemReq /\ x.phase = "hit" /\ x.kind = q.kind /\ x.at = q.at /\ x.shows = v
    BY <2>4, <2>6, <2>7 DEF MemReq
  <2>9. x = [q EXCEPT !.phase = "hit", !.shows = v]
    BY <2>5, <2>7
  <2>10. incoming' = [incoming EXCEPT ![r] = x]
    BY <1>3, <1>5, <2>1, <2>9 DEF CacheLookup
  <2>11. ReqOK(x, memTime, version)
    BY <1>1, <1>3, <2>4, <2>8 DEF ReqOK, Going
  <2>12. Since(v, cached.expires - CacheTtl, version, replacedAt)
    BY <2>1, <2>2 DEF MemInd, Fresh, FreshEntry
  <2>13. Since(v, q.at - CacheTtl + 1, version, replacedAt)
    <3>1. CASE v = version
      BY <3>1 DEF Since
    <3>2. CASE v # version
      <4>1. v \in Versions
        BY <2>4, MemOf, SpentFinite DEF MemInd, ChangesPaid, Versions
      <4>2. replacedAt[v] \in Nat
        BY <4>1 DEF MemInd, MemTypes, MemTimes
      <4>3. replacedAt[v] >= cached.expires - CacheTtl
        BY <2>12, <3>2 DEF Since
      <4> QED
        BY <1>3, <2>2, <2>4, <4>2, <4>3, MemOf DEF MemInd, Since
    <3> QED
      BY <3>1, <3>2
  <2>14. FreshReq(x, version, replacedAt)
    BY <2>8, <2>13 DEF FreshReq
  <2>15. ~Done(x) /\ ~Live(x) /\ ~Past(x)
    BY <2>8 DEF Done, Live, Past, Going
  <2> QED
    BY <1>1, <1>2, <2>8, <2>10, <2>11, <2>14, <2>15, InnerStep
<1>6. CASE ~Counts(cached, r)
  <2>1. PICK x : x = [q EXCEPT !.phase = "handling"]
    OBVIOUS
  <2>2. /\ x \in MemReq /\ x.phase = "handling" /\ x.kind = q.kind /\ x.at = q.at
        /\ x.shows = q.shows
    BY <2>1 DEF MemReq
  <2>3. incoming' = [incoming EXCEPT ![r] = x]
    BY <1>3, <1>6, <2>1 DEF CacheLookup, Phase
  <2>4. ReqOK(x, memTime, version)
    BY <1>1, <1>3, <2>2 DEF ReqOK, Going
  <2>5. FreshReq(x, version, replacedAt)
    BY <2>2 DEF FreshReq
  <2>6. ~Done(x) /\ ~Live(x) /\ ~Past(x)
    BY <1>1, <1>3, <2>2 DEF Done, Live, Past
  <2> QED
    BY <1>1, <1>2, <1>4, <2>2, <2>3, <2>4, <2>5, <2>6, InnerStep
<1> QED
  BY <1>5, <1>6

\* A request that finds no record of the key is KeyTtl younger than the last
\* one that ran, less the time since it arrived.
LEMMA KeyLookupInd ==
  ASSUME MemInd, NEW r \in MemRequests, KeyLookup(r)
  PROVE  MemInd'
<1>1. /\ incoming[r].phase = "arrived" /\ incoming[r].kind = "POST"
      /\ UNCHANGED <<memTime, version, cached, keyed, replacedAt, restarts>>
  BY DEF KeyLookup
<1>2. UNCHANGED overlapped
  BY DEF KeyLookup
<1>3. PICK q \in MemReq : /\ q = incoming[r] /\ ReqOK(q, memTime, version)
                          /\ q.at \in Nat /\ q.shows \in Nat
  BY MemOf DEF MemInd
<1>4. r \notin Spent
  BY <1>1 DEF Spent
<1>5. CASE Counts(keyed, r)
  <2>1. Ends(r)
    BY <1>5 DEF KeyLookup
  <2> QED
    BY <1>1, <1>2, <2>1, EndsStep
<1>6. CASE ~Counts(keyed, r)
  <2>1. PICK x : x = [q EXCEPT !.phase = "handling"]
    OBVIOUS
  <2>2. /\ x \in MemReq /\ x.phase = "handling" /\ x.kind = q.kind /\ x.at = q.at
        /\ x.shows = q.shows
    BY <2>1 DEF MemReq
  <2>3. incoming' = [incoming EXCEPT ![r] = x]
    BY <1>3, <1>6, <2>1 DEF KeyLookup, Phase
  <2>4. ReqOK(x, memTime, version)
    BY <1>1, <1>3, <2>2 DEF ReqOK, Going
  <2>5. FreshReq(x, version, replacedAt)
    BY <2>2 DEF FreshReq
  <2>6. ~Done(x) /\ Live(incoming[r]) /\ x.at = incoming[r].at
    BY <1>1, <1>3, <2>2 DEF Done, Live, Going
  <2>7. ASSUME ~overlapped, restarts = 0, NEW s \in MemRequests, Done(incoming[s])
        PROVE  Apart(x.at, incoming[s].at)
    <3>1. PICK a \in Nat : a = incoming[s].at
      BY MemOf DEF MemInd
    <3>2. OnRecord(keyed, memTime, a)
      BY <2>7, <3>1 DEF MemInd, Turns, KeyHolds
    <3>3. keyed # NoEntry => keyed.expires \in Nat /\ keyed.expires <= q.at
      BY <1>3, <1>6, MemOf DEF Counts, MemInd, MemTypes
    <3>4. memTime - q.at <= MaxRequestTime
      BY <1>1, <1>3 DEF ReqOK, Going
    <3>5. q.at - a >= KeyTtl - MaxRequestTime
      BY <1>3, <3>2, <3>3, <3>4, MemOf DEF MemInd, OnRecord
    <3> QED
      BY <2>2, <3>1, <3>5 DEF Apart
  <2> QED
    BY <1>1, <1>2, <1>4, <2>2, <2>3, <2>4, <2>5, <2>6, <2>7, InnerStep
<1> QED
  BY <1>5, <1>6

LEMMA HandlerReadsInd ==
  ASSUME MemInd, NEW r \in MemRequests, HandlerReads(r)
  PROVE  MemInd'
<1>1. /\ incoming[r].phase = "handling" /\ incoming[r].kind = "GET"
      /\ UNCHANGED <<memTime, version, cached, keyed, replacedAt, restarts>>
  BY DEF HandlerReads
<1>2. UNCHANGED overlapped
  BY DEF HandlerReads
<1>3. PICK q \in MemReq : /\ q = incoming[r] /\ ReqOK(q, memTime, version)
                          /\ q.at \in Nat /\ q.shows \in Nat
  BY MemOf DEF MemInd
<1>4. PICK v \in Nat : v = version
  BY MemOf DEF MemInd
<1>5. PICK h : h = [q EXCEPT !.phase = "storing"]
  OBVIOUS
<1>6. h \in MemReq /\ h.phase = "storing" /\ h.kind = q.kind /\ h.at = q.at
  BY <1>5 DEF MemReq
<1>7. PICK x : x = [h EXCEPT !.shows = v]
  OBVIOUS
<1>8. x \in MemReq /\ x.phase = "storing" /\ x.kind = q.kind /\ x.at = q.at /\ x.shows = v
  BY <1>6, <1>7 DEF MemReq
<1>9. x = [q EXCEPT !.phase = "storing", !.shows = v]
  BY <1>5, <1>7
<1>10. incoming' = [incoming EXCEPT ![r] = x]
  BY <1>3, <1>4, <1>9 DEF HandlerReads
<1>11. ReqOK(x, memTime, version)
  BY <1>1, <1>3, <1>4, <1>8 DEF ReqOK, Going
<1>12. FreshReq(x, version, replacedAt)
  BY <1>4, <1>8 DEF FreshReq, Since
<1>13. ~Done(x) /\ ~Live(x) /\ ~Past(x)
  BY <1>1, <1>3, <1>8 DEF Done, Live, Past
<1> QED
  BY <1>1, <1>2, <1>8, <1>10, <1>11, <1>12, <1>13, InnerStep

\* The handler of a POST ends, with its change or without it: what was current
\* at some time up to now still was.
LEMMA HandlerEndsInd ==
  ASSUME MemInd, NEW r \in MemRequests, NEW x \in MemReq,
         incoming' = [incoming EXCEPT ![r] = x], incoming[r].phase = "handling",
         incoming[r].kind = "POST", Changes,
         UNCHANGED <<memTime, cached, keyed, restarts>>, UNCHANGED overlapped,
         x.phase \in {"storing", "over"}, x.kind # "GET", x.at <= memTime, x.shows <= version,
         x.kind # "none" => x.at = incoming[r].at, x.kind = "none" => x.phase = "over"
  PROVE  MemInd'
<1>1. MemTypes /\ ChangesPaid /\ Fresh /\ Turns
  BY DEF MemInd
<1>2. /\ incoming' \in [MemRequests -> MemReq] /\ incoming'[r] = x
      /\ \A d \in MemRequests : d # r => incoming'[d] = incoming[d]
  BY <1>1, MemOneMoves
<1>3. r \notin Spent
  BY DEF Spent
<1>4. Spent' = Spent \cup {r}
  BY <1>1, <1>3, SpentOne
<1>5. Cardinality(Spent') = Cardinality(Spent) + 1
  BY <1>3, <1>4, SpentAdds
<1>6. version' = version + 1
  BY DEF Changes
<1>7. Cardinality(Spent') <= Cardinality(MemRequests) /\ Cardinality(MemRequests) \in Nat
  <2>1. Spent' \subseteq MemRequests
    BY DEF Spent
  <2> QED
    BY <2>1, MemAssumption, FS_Subset, FS_CardinalityType
<1>8. ChangesPaid'
  BY <1>1, <1>5, <1>6, MemOf, SpentFinite DEF ChangesPaid
<1>9. version \in Versions
  BY <1>1, <1>5, <1>7, MemOf, SpentFinite DEF ChangesPaid, Versions
<1>10. replacedAt \in [Versions -> MemTimes] /\ memTime \in MemTimes
  BY <1>1 DEF MemTypes
<1>11. replacedAt' = [replacedAt EXCEPT ![version] = memTime]
  BY DEF Changes
<1>12. replacedAt' \in [Versions -> MemTimes]
  BY <1>9, <1>10, <1>11
<1>13. ReqOK(x, memTime, version')
  <2>1. ReqOK(incoming[r], memTime, version) /\ x.shows \in Nat
    BY <1>1, MemOf DEF MemReq
  <2> QED
    BY <1>1, <1>6, <2>1, MemOf DEF ReqOK, Going
<1>14. MemTypes'
  <2>1. \A d \in MemRequests : incoming'[d] = incoming[d] \/ ReqOK(incoming'[d], memTime, version')
    BY <1>2, <1>13
  <2>2. version' >= version /\ version' \in Nat /\ restarts' \in Nat
    BY <1>1, <1>6, MemOf
  <2> QED
    BY <1>1, <1>2, <1>12, <2>1, <2>2, MemTypesStep
<1>15. ASSUME NEW v \in Nat, NEW t \in Int, v <= version, t <= memTime,
              Since(v, t, version, replacedAt)
       PROVE  Since(v, t, version', replacedAt')
  BY <1>6, <1>9, <1>10, <1>11, <1>15, SinceChanges
<1>16. FreshEntry(cached, version', replacedAt')
  <2>1. SUFFICES ASSUME cached # NoEntry
                 PROVE  Since(cached.shows, cached.expires - CacheTtl, version', replacedAt')
    BY DEF FreshEntry
  <2>2. cached \in [shows : 0..version, expires : 0..(memTime + CacheTtl)]
    BY <1>1, <2>1 DEF MemTypes
  <2>3. /\ cached.shows \in Nat /\ cached.shows <= version
        /\ cached.expires - CacheTtl \in Int /\ cached.expires - CacheTtl <= memTime
    BY <1>1, <2>2, MemOf
  <2>4. Since(cached.shows, cached.expires - CacheTtl, version, replacedAt)
    BY <1>1, <2>1 DEF Fresh, FreshEntry
  <2> QED
    BY <1>15, <2>3, <2>4
<1>17. ASSUME NEW d \in MemRequests
       PROVE  FreshReq(incoming'[d], version', replacedAt')
  <2>1. CASE d = r
    BY <1>2, <2>1 DEF FreshReq
  <2>2. CASE d # r
    <3>1. PICK q \in MemReq : q = incoming[d] /\ q = incoming'[d]
      BY <1>1, <1>2, <2>2, MemOf
    <3>2. q.at \in Nat /\ q.shows \in Nat /\ q.shows <= version /\ q.at <= memTime
      BY <1>1, <3>1, MemOf DEF ReqOK
    <3>3. q.at - CacheTtl + 1 \in Int /\ q.at - CacheTtl + 1 <= memTime
      BY <1>1, <3>2, MemOf
    <3>4. FreshReq(q, version, replacedAt)
      BY <1>1, <3>1 DEF Fresh
    <3>5. FreshReq(q, version', replacedAt')
      BY <1>15, <3>2, <3>3, <3>4 DEF FreshReq
    <3> QED
      BY <3>1, <3>5
  <2> QED
    BY <2>1, <2>2
<1>18. Fresh'
  BY <1>16, <1>17 DEF Fresh
<1>19. Turns'
  <2>1. /\ ~Done(x) /\ Live(incoming[r]) /\ Past(incoming[r])
        /\ Live(x) => x.at = incoming[r].at
    BY DEF Done, Live, Past, Going
  <2>2. ASSUME NEW d \in MemRequests
        PROVE  /\ Live(incoming'[d]) => Live(incoming[d])
               /\ Done(incoming'[d]) => Done(incoming[d])
               /\ Live(incoming'[d]) \/ Done(incoming'[d]) => incoming'[d].at = incoming[d].at
               /\ Past(incoming'[d]) => Past(incoming[d])
    <3>1. CASE d = r
      BY <1>2, <2>1, <3>1
    <3>2. CASE d # r
      BY <1>2, <3>2
    <3> QED
      BY <3>1, <3>2
  <2>3. memTime' \in Nat /\ memTime' >= memTime
    BY <1>1, MemOf
  <2> QED
    BY <1>1, <2>2, <2>3, TurnsStep
<1> QED
  BY <1>8, <1>14, <1>18, <1>19 DEF MemInd

LEMMA HandlerInd ==
  ASSUME MemInd, NEW r \in MemRequests, HandlerChanges(r) \/ HandlerBreaks(r)
  PROVE  MemInd'
<1>1. /\ incoming[r].phase = "handling" /\ incoming[r].kind = "POST"
      /\ UNCHANGED <<memTime, cached, keyed, restarts>>
  BY DEF HandlerChanges, HandlerBreaks
<1>2. UNCHANGED overlapped
  BY DEF HandlerChanges, HandlerBreaks
<1>3. Changes \/ UNCHANGED <<version, replacedAt>>
  BY DEF HandlerChanges, HandlerBreaks
<1>4. PICK q \in MemReq : /\ q = incoming[r] /\ ReqOK(q, memTime, version)
                          /\ q.at \in Nat /\ q.shows \in Nat
  BY MemOf DEF MemInd
<1>5. CASE HandlerChanges(r)
  <2>1. PICK x : x = [q EXCEPT !.phase = "storing"]
    OBVIOUS
  <2>2. /\ x \in MemReq /\ x.phase = "storing" /\ x.kind = "POST" /\ x.at = q.at
        /\ x.shows = q.shows
    BY <1>1, <1>4, <2>1 DEF MemReq
  <2>3. incoming' = [incoming EXCEPT ![r] = x]
    BY <1>4, <1>5, <2>1 DEF HandlerChanges, Phase
  <2>4. ReqOK(x, memTime, version)
    BY <1>1, <1>4, <2>2 DEF ReqOK, Going
  <2>5. CASE Changes
    BY <1>1, <1>2, <1>4, <2>2, <2>3, <2>4, <2>5, HandlerEndsInd DEF ReqOK
  <2>6. CASE UNCHANGED <<version, replacedAt>>
    <3>1. FreshReq(x, version, replacedAt)
      BY <2>2 DEF FreshReq
    <3>2. ~Done(x) /\ Live(incoming[r]) /\ Past(incoming[r]) /\ x.at = incoming[r].at
      BY <1>1, <1>4, <2>2 DEF Done, Live, Past, Going
    <3> QED
      BY <1>1, <1>2, <2>2, <2>3, <2>4, <2>6, <3>1, <3>2, InnerStep
  <2> QED
    BY <1>3, <2>5, <2>6
<1>6. CASE HandlerBreaks(r)
  <2>1. Ends(r)
    BY <1>6 DEF HandlerBreaks
  <2>2. CASE Changes
    <3>1. incoming' = [incoming EXCEPT ![r] = Over]
      BY <2>1 DEF Ends
    <3>2. Over.at <= memTime /\ Over.shows <= version
      BY OverIs, MemOf DEF MemInd
    <3> QED
      BY <1>1, <1>2, <2>2, <3>1, <3>2, OverIs, HandlerEndsInd
  <2>3. CASE UNCHANGED <<version, replacedAt>>
    BY <1>1, <1>2, <2>1, <2>3, EndsStep
  <2> QED
    BY <1>3, <2>2, <2>3
<1> QED
  BY <1>5, <1>6

\* The answer of a GET goes into the cache with the time of its arrival.
LEMMA StoreCacheInd ==
  ASSUME MemInd, NEW r \in MemRequests, StoreAnswer(r), incoming[r].kind = "GET"
  PROVE  MemInd'
<1>1. /\ incoming[r].phase = "storing"
      /\ cached' = [shows |-> incoming[r].shows, expires |-> incoming[r].at + CacheTtl]
      /\ Phase(r, "answered")
      /\ UNCHANGED <<memTime, version, keyed, replacedAt, restarts>>
  BY DEF StoreAnswer
<1>2. UNCHANGED overlapped
  BY DEF StoreAnswer
<1>3. PICK q \in MemReq : /\ q = incoming[r] /\ ReqOK(q, memTime, version)
                          /\ q.at \in Nat /\ q.shows \in Nat
  BY MemOf DEF MemInd
<1>4. PICK x : x = [q EXCEPT !.phase = "answered"]
  OBVIOUS
<1>5. /\ x \in MemReq /\ x.phase = "answered" /\ x.kind = "GET" /\ x.at = q.at
      /\ x.shows = q.shows
  BY <1>3, <1>4 DEF MemReq
<1>6. incoming' = [incoming EXCEPT ![r] = x]
  BY <1>1, <1>3, <1>4 DEF Phase
<1>7. MemTypes /\ ChangesPaid /\ Fresh /\ Turns
  BY DEF MemInd
<1>8. /\ incoming' \in [MemRequests -> MemReq] /\ incoming'[r] = x
      /\ \A d \in MemRequests : d # r => incoming'[d] = incoming[d]
  BY <1>5, <1>6, <1>7, MemOneMoves
<1>9. ReqOK(x, memTime, version)
  BY <1>1, <1>3, <1>5 DEF ReqOK, Going
<1>10. cached' \in [shows : 0..version', expires : 0..(memTime + CacheTtl)]
  BY <1>1, <1>3, <1>7, MemOf DEF ReqOK
<1>11. MemTypes'
  <2>1. \A d \in MemRequests : incoming'[d] = incoming[d] \/ ReqOK(incoming'[d], memTime, version')
    BY <1>1, <1>8, <1>9
  <2>2. version' >= version /\ version' \in Nat /\ restarts' \in Nat
    BY <1>1, <1>7, MemOf
  <2>3. replacedAt' \in [Versions -> MemTimes]
    BY <1>1, <1>7 DEF MemTypes
  <2> QED
    BY <1>1, <1>7, <1>8, <1>10, <2>1, <2>2, <2>3, MemTypesStep
<1>12. ChangesPaid'
  <2>1. Spent' = Spent \cup {r} /\ r \in Spent
    BY <1>1, <1>5, <1>6, <1>7, SpentOne DEF Spent
  <2>2. Spent' = Spent
    BY <2>1
  <2> QED
    BY <1>1, <1>7, <2>2 DEF ChangesPaid
<1>13. Since(q.shows, q.at, version, replacedAt)
  BY <1>1, <1>3, <1>7 DEF Fresh, FreshReq
<1>14. Since(q.shows, q.at - CacheTtl + 1, version, replacedAt)
  <2>1. CASE q.shows = version
    BY <2>1 DEF Since
  <2>2. CASE q.shows # version
    <3>1. q.shows \in Versions
      BY <1>3, <1>7, MemOf, SpentFinite DEF ChangesPaid, Versions, ReqOK
    <3>2. replacedAt[q.shows] \in Nat /\ replacedAt[q.shows] >= q.at
      BY <1>7, <1>13, <2>2, <3>1 DEF MemTypes, MemTimes, Since
    <3> QED
      BY <1>3, <1>7, <3>2, MemOf DEF Since
  <2> QED
    BY <2>1, <2>2
<1>15. Fresh'
  <2>1. FreshReq(x, version, replacedAt)
    BY <1>5, <1>14 DEF FreshReq
  <2>2. cached'.shows = q.shows /\ cached'.expires - CacheTtl = q.at
    BY <1>1, <1>3, <1>7, MemOf
  <2>3. FreshEntry(cached', version, replacedAt)
    BY <1>13, <2>2 DEF FreshEntry
  <2> QED
    BY <1>1, <1>7, <1>8, <2>1, <2>3 DEF Fresh
<1>16. Turns'
  <2>1. ~Done(x) /\ ~Live(x) /\ ~Past(x)
    BY <1>5 DEF Done, Live, Past
  <2>2. ASSUME NEW d \in MemRequests
        PROVE  /\ Live(incoming'[d]) => Live(incoming[d])
               /\ Done(incoming'[d]) => Done(incoming[d])
               /\ Live(incoming'[d]) \/ Done(incoming'[d]) => incoming'[d].at = incoming[d].at
               /\ Past(incoming'[d]) => Past(incoming[d])
    <3>1. CASE d = r
      BY <1>8, <2>1, <3>1
    <3>2. CASE d # r
      BY <1>8, <3>2
    <3> QED
      BY <3>1, <3>2
  <2>3. memTime' \in Nat /\ memTime' >= memTime
    BY <1>1, <1>7, MemOf
  <2> QED
    BY <1>1, <1>2, <1>7, <2>2, <2>3, TurnsStep
<1> QED
  BY <1>11, <1>12, <1>15, <1>16 DEF MemInd

\* The run of a POST goes on record: it is the youngest.
LEMMA StoreKeyInd ==
  ASSUME MemInd, NEW r \in MemRequests, StoreAnswer(r), incoming[r].kind # "GET"
  PROVE  MemInd'
<1>1. /\ incoming[r].phase = "storing"
      /\ keyed' = [expires |-> incoming[r].at + KeyTtl]
      /\ Phase(r, "answered")
      /\ UNCHANGED <<memTime, version, cached, replacedAt, restarts>>
  BY DEF StoreAnswer
<1>2. UNCHANGED overlapped
  BY DEF StoreAnswer
<1>3. PICK q \in MemReq : /\ q = incoming[r] /\ ReqOK(q, memTime, version)
                          /\ q.at \in Nat /\ q.shows \in Nat
  BY MemOf DEF MemInd
<1>4. PICK x : x = [q EXCEPT !.phase = "answered"]
  OBVIOUS
<1>5. /\ x \in MemReq /\ x.phase = "answered" /\ x.kind = q.kind /\ x.at = q.at
      /\ x.shows = q.shows
  BY <1>3, <1>4 DEF MemReq
<1>6. incoming' = [incoming EXCEPT ![r] = x]
  BY <1>1, <1>3, <1>4 DEF Phase
<1>7. MemTypes /\ ChangesPaid /\ Fresh /\ Turns
  BY DEF MemInd
<1>8. /\ incoming' \in [MemRequests -> MemReq] /\ incoming'[r] = x
      /\ \A d \in MemRequests : d # r => incoming'[d] = incoming[d]
  BY <1>5, <1>6, <1>7, MemOneMoves
<1>9. ReqOK(x, memTime, version)
  BY <1>1, <1>3, <1>5 DEF ReqOK, Going
<1>10. /\ keyed' \in [expires : 0..(memTime + KeyTtl)]
       /\ keyed'.expires = q.at + KeyTtl
  BY <1>1, <1>3, <1>7, MemOf DEF ReqOK
<1>11. keyed' # NoEntry
  BY <1>1, <1>3, <1>7, MemOf, MemAssumption
<1>12. MemTypes'
  <2>1. \A d \in MemRequests : incoming'[d] = incoming[d] \/ ReqOK(incoming'[d], memTime, version')
    BY <1>1, <1>8, <1>9
  <2>2. version' >= version /\ version' \in Nat /\ restarts' \in Nat
    BY <1>1, <1>7, MemOf
  <2>3. replacedAt' \in [Versions -> MemTimes]
    BY <1>1, <1>7 DEF MemTypes
  <2> QED
    BY <1>1, <1>7, <1>8, <1>10, <2>1, <2>2, <2>3, MemTypesStep
<1>13. ChangesPaid'
  <2>1. Spent' = Spent \cup {r} /\ r \in Spent
    BY <1>1, <1>5, <1>6, <1>7, SpentOne DEF Spent
  <2>2. Spent' = Spent
    BY <2>1
  <2> QED
    BY <1>1, <1>7, <2>2 DEF ChangesPaid
<1>14. Fresh'
  <2>1. FreshReq(x, version, replacedAt)
    BY <1>3, <1>5 DEF FreshReq
  <2> QED
    BY <1>1, <1>7, <1>8, <2>1 DEF Fresh
<1>15. Turns'
  <2>1. ~Live(x) /\ ~Past(x)
    BY <1>5 DEF Live, Past, Going
  <2>2. overlapped' \in BOOLEAN
    BY <1>2, <1>7 DEF Turns
  <2>3. ASSUME ~overlapped', NEW d \in MemRequests, Live(incoming'[d])
        PROVE  d # r /\ Live(incoming[d]) /\ incoming'[d] = incoming[d]
    BY <1>8, <2>1, <2>3
  <2>4. ASSUME NEW d \in MemRequests, Past(incoming'[d])
        PROVE  d # r /\ Past(incoming[d]) /\ incoming'[d] = incoming[d] /\ Live(incoming[d])
    BY <1>8, <2>1, <2>4 DEF Past, Live, Going
  <2>5. ASSUME NEW d \in MemRequests, Done(incoming'[d])
        PROVE  \/ d # r /\ Done(incoming[d]) /\ incoming'[d] = incoming[d]
               \/ d = r /\ Live(incoming[r]) /\ Past(incoming[r])
    BY <1>1, <1>3, <1>5, <1>8, <2>5 DEF Done, Live, Past, Going
  <2>6. ASSUME ~overlapped'
        PROVE  /\ \A d \in MemRequests : Live(incoming'[d]) => ~Live(incoming[r])
               /\ \A d \in MemRequests : Live(incoming[d]) /\ Live(incoming[r]) => d = r
               /\ \A d, s \in MemRequests :
                    Live(incoming[d]) /\ Done(incoming[s]) => incoming[s].at <= incoming[d].at
    BY <1>2, <1>7, <2>3, <2>6 DEF Turns, InTurn
  <2>7. ASSUME ~overlapped'
        PROVE  InTurn'
    <3>1. \A d, s \in MemRequests : Live(incoming'[d]) /\ Live(incoming'[s]) => d = s
      BY <1>2, <1>7, <2>3, <2>7 DEF Turns, InTurn
    <3>2. \A d, s \in MemRequests :
            Live(incoming'[d]) /\ Done(incoming'[s]) => incoming'[s].at <= incoming'[d].at
      BY <2>3, <2>5, <2>6, <2>7
    <3> QED
      BY <3>1, <3>2 DEF InTurn
  <2>8. ASSUME ~overlapped', restarts' = 0
        PROVE  KeyHolds'
    <3>1. KeyHolds
      BY <1>1, <1>2, <1>7, <2>8 DEF Turns
    <3>2. ASSUME NEW s \in MemRequests, Done(incoming'[s])
          PROVE  OnRecord(keyed', memTime', incoming'[s].at)
      <4>1. PICK a \in Nat : a = incoming[s].at
        BY <1>7, MemOf
      <4>2. incoming'[s].at = a
        BY <1>3, <1>5, <1>8, <4>1
      <4>3. a <= q.at
        <5>1. Live(incoming[r])
          BY <1>1, <1>3 DEF Live, Going, ReqOK, MemReq
        <5> QED
          BY <1>3, <2>5, <2>6, <2>8, <3>2, <4>1, <5>1
      <4>4. a + KeyTtl <= keyed'.expires
        BY <1>3, <1>7, <1>10, <4>3, MemOf
      <4> QED
        BY <1>11, <4>2, <4>4 DEF OnRecord
    <3>3. ASSUME NEW d \in MemRequests, NEW s \in MemRequests,
                 Past(incoming'[d]), Done(incoming'[s])
          PROVE  Apart(incoming'[d].at, incoming'[s].at)
      <4>1. d # r /\ Past(incoming[d]) /\ Live(incoming[d]) /\ incoming'[d] = incoming[d]
        BY <2>4, <3>3
      <4>2. s # r /\ Done(incoming[s]) /\ incoming'[s] = incoming[s]
        BY <2>5, <2>6, <2>8, <3>3, <4>1
      <4> QED
        BY <3>1, <4>1, <4>2 DEF KeyHolds
    <3>4. ASSUME NEW d \in MemRequests, NEW s \in MemRequests, d # s,
                 Done(incoming'[d]), Done(incoming'[s])
          PROVE  \/ Apart(incoming'[d].at, incoming'[s].at)
                 \/ Apart(incoming'[s].at, incoming'[d].at)
      <4>1. incoming'[d].at = incoming[d].at /\ incoming'[s].at = incoming[s].at
        BY <1>3, <1>5, <1>8
      <4>2. CASE d = r
        BY <2>5, <3>1, <3>4, <4>1, <4>2 DEF KeyHolds
      <4>3. CASE s = r
        BY <2>5, <3>1, <3>4, <4>1, <4>3 DEF KeyHolds
      <4>4. CASE d # r /\ s # r
        BY <2>5, <3>1, <3>4, <4>1, <4>4 DEF KeyHolds
      <4> QED
        BY <4>2, <4>3, <4>4
    <3> QED
      BY <3>2, <3>3, <3>4 DEF KeyHolds
  <2> QED
    BY <2>2, <2>7, <2>8 DEF Turns
<1> QED
  BY <1>12, <1>13, <1>14, <1>15 DEF MemInd

\* A request arrives, and entries whose time is over may be cleaned away.
LEMMA ArriveInd ==
  ASSUME MemInd, NEW r \in MemRequests, NEW kind \in {"GET", "POST"}, Arrive(r, kind)
  PROVE  MemInd'
<1>1. /\ incoming[r] = Unborn
      /\ cached' = cached \/ cached' = NoEntry
      /\ keyed' = keyed \/ (keyed' = NoEntry /\ keyed # NoEntry /\ keyed.expires <= memTime)
      /\ UNCHANGED <<memTime, version, replacedAt, restarts>>
  BY DEF Arrive, Cleaned
<1>2. PICK x : x = [kind |-> kind, phase |-> "arrived", at |-> memTime, shows |-> 0]
  OBVIOUS
<1>3. incoming' = [incoming EXCEPT ![r] = x]
  BY <1>2 DEF Arrive
<1>4. MemTypes /\ ChangesPaid /\ Fresh /\ Turns
  BY DEF MemInd
<1>5. /\ x \in MemReq /\ x.kind = kind /\ x.phase = "arrived" /\ x.at = memTime /\ x.shows = 0
  BY <1>2, <1>4, MemOf DEF MemReq
<1>6. /\ incoming' \in [MemRequests -> MemReq] /\ incoming'[r] = x
      /\ \A d \in MemRequests : d # r => incoming'[d] = incoming[d]
  BY <1>3, <1>4, <1>5, MemOneMoves
<1>7. ReqOK(x, memTime, version)
  BY <1>4, <1>5, MemOf DEF ReqOK
<1>8. MemTypes'
  <2>1. \A d \in MemRequests : incoming'[d] = incoming[d] \/ ReqOK(incoming'[d], memTime, version')
    BY <1>1, <1>6, <1>7
  <2>2. version' >= version /\ version' \in Nat /\ restarts' \in Nat
    BY <1>1, <1>4, MemOf
  <2>3. replacedAt' \in [Versions -> MemTimes]
    BY <1>1, <1>4 DEF MemTypes
  <2> QED
    BY <1>1, <1>4, <1>6, <2>1, <2>2, <2>3, MemTypesStep
<1>9. ChangesPaid'
  <2>1. r \notin Spent
    BY <1>1 DEF Spent, Unborn
  <2>2. Spent' = Spent
    BY <1>3, <1>4, <1>5, <2>1, SpentOne
  <2> QED
    BY <1>1, <1>4, <2>2 DEF ChangesPaid
<1>10. Fresh'
  <2>1. FreshReq(x, version, replacedAt)
    BY <1>5 DEF FreshReq
  <2>2. FreshEntry(cached', version, replacedAt)
    BY <1>1, <1>4 DEF Fresh, FreshEntry
  <2> QED
    BY <1>1, <1>4, <1>6, <2>1, <2>2 DEF Fresh
<1>11. Turns'
  <2>1. ~Done(x) /\ ~Past(x)
    BY <1>5 DEF Done, Past
  <2>2. memTime' \in Nat /\ memTime' >= memTime
    BY <1>1, <1>4, MemOf
  <2>3. CASE kind = "GET"
    <3>1. overlapped' = overlapped
      BY <2>3, <1>4 DEF Arrive, Turns
    <3>2. ~Live(x)
      BY <1>5, <2>3 DEF Live
    <3>3. ASSUME NEW d \in MemRequests
          PROVE  /\ Live(incoming'[d]) => Live(incoming[d])
                 /\ Done(incoming'[d]) => Done(incoming[d])
                 /\ Live(incoming'[d]) \/ Done(incoming'[d]) => incoming'[d].at = incoming[d].at
                 /\ Past(incoming'[d]) => Past(incoming[d])
      <4>1. CASE d = r
        BY <1>6, <2>1, <3>2, <4>1
      <4>2. CASE d # r
        BY <1>6, <4>2
      <4> QED
        BY <4>1, <4>2
    <3> QED
      BY <1>1, <1>4, <2>2, <3>1, <3>3, TurnsStep
  <2>4. CASE kind = "POST"
    <3>1. overlapped' = (overlapped \/ UnderWay("POST") # {})
      BY <2>4 DEF Arrive
    <3>2. overlapped' \in BOOLEAN
      BY <3>1, <1>4 DEF Turns
    <3>3. \A d \in MemRequests : (d \in UnderWay("POST")) <=> Live(incoming[d])
      BY DEF UnderWay, Live, Going
    <3>4. ASSUME ~overlapped'
          PROVE  ~overlapped /\ \A d \in MemRequests : ~Live(incoming[d])
      BY <3>1, <3>3, <3>4, <1>4 DEF Turns
    <3>5. ASSUME ~overlapped', NEW d \in MemRequests
          PROVE  /\ Live(incoming'[d]) => d = r
                 /\ Done(incoming'[d]) => d # r /\ incoming'[d] = incoming[d]
                 /\ ~Past(incoming'[d])
      <4>1. CASE d = r
        BY <1>6, <2>1, <4>1
      <4>2. CASE d # r
        <5>1. incoming'[d] = incoming[d] /\ ~Live(incoming[d])
          BY <1>6, <3>4, <3>5, <4>2
        <5> QED
          BY <4>2, <5>1 DEF Past, Live, Going
      <4> QED
        BY <4>1, <4>2
    <3>6. ASSUME ~overlapped'
          PROVE  InTurn'
      <4>1. ASSUME NEW d \in MemRequests, NEW s \in MemRequests,
                   Live(incoming'[d]), Done(incoming'[s])
            PROVE  incoming'[s].at <= incoming'[d].at
        <5>1. incoming'[d].at = memTime /\ incoming'[s].at = incoming[s].at
          BY <1>5, <1>6, <3>5, <3>6, <4>1
        <5>2. incoming[s].at <= memTime
          BY <1>4, MemOf DEF ReqOK
        <5> QED
          BY <5>1, <5>2
      <4> QED
        BY <3>5, <3>6, <4>1 DEF InTurn
    <3>7. ASSUME ~overlapped', restarts' = 0
          PROVE  KeyHolds'
      <4>1. KeyHolds
        BY <1>1, <1>4, <3>4, <3>7 DEF Turns
      <4>2. ASSUME NEW s \in MemRequests, Done(incoming'[s])
            PROVE  OnRecord(keyed', memTime', incoming'[s].at)
        <5>1. PICK a \in Nat : a = incoming[s].at /\ a = incoming'[s].at /\ Done(incoming[s])
          BY <1>4, <3>5, <3>7, <4>2, MemOf
        <5>2. OnRecord(keyed, memTime, a)
          BY <4>1, <5>1 DEF KeyHolds
        <5>3. keyed = NoEntry \/ (keyed # NoEntry /\ keyed.expires \in Nat)
          BY <1>4, MemOf DEF MemTypes
        <5>4. OnRecord(keyed', memTime', a)
          BY <1>1, <1>4, <5>2, <5>3, MemOf DEF OnRecord
        <5> QED
          BY <5>1, <5>4
      <4>3. ASSUME NEW d \in MemRequests, NEW s \in MemRequests, d # s,
                   Done(incoming'[d]), Done(incoming'[s])
            PROVE  \/ Apart(incoming'[d].at, incoming'[s].at)
                   \/ Apart(incoming'[s].at, incoming'[d].at)
        <5>1. incoming'[d] = incoming[d] /\ incoming'[s] = incoming[s]
          BY <3>5, <3>7, <4>3
        <5> QED
          BY <4>1, <4>3, <5>1 DEF KeyHolds
      <4> QED
        BY <3>5, <3>7, <4>2, <4>3 DEF KeyHolds
    <3> QED
      BY <3>2, <3>6, <3>7 DEF Turns
  <2> QED
    BY <2>3, <2>4
<1> QED
  BY <1>8, <1>9, <1>10, <1>11 DEF MemInd

\* The process ends: the requests under way are over.
LEMMA RestartGatewayInd ==
  ASSUME MemInd, RestartGateway
  PROVE  MemInd'
<1>1. /\ restarts' = restarts + 1 /\ cached' = NoEntry /\ keyed' = NoEntry
      /\ UNCHANGED <<memTime, version, replacedAt>>
  BY DEF RestartGateway
<1>2. UNCHANGED overlapped
  BY DEF RestartGateway
<1>3. MemTypes /\ ChangesPaid /\ Fresh /\ Turns
  BY DEF MemInd
<1>4. \A d \in MemRequests : incoming'[d] = Over \/ incoming'[d] = incoming[d]
  BY DEF RestartGateway
<1>5. incoming' \in [MemRequests -> MemReq]
  <2>1. \A d \in MemRequests : incoming[d] \in MemReq
    BY <1>3, MemOf
  <2> QED
    BY <2>1, OverIs DEF RestartGateway
<1>6. ReqOK(Over, memTime, version)
  BY <1>3, OverIs, MemOf DEF ReqOK, Going
<1>7. MemTypes'
  <2>1. \A d \in MemRequests : incoming'[d] = incoming[d] \/ ReqOK(incoming'[d], memTime, version')
    BY <1>1, <1>4, <1>6
  <2>2. version' >= version /\ version' \in Nat /\ restarts' \in Nat
    BY <1>1, <1>3, MemOf
  <2>3. replacedAt' \in [Versions -> MemTimes]
    BY <1>1, <1>3 DEF MemTypes
  <2> QED
    BY <1>1, <1>3, <1>5, <2>1, <2>2, <2>3, MemTypesStep
<1>8. ChangesPaid'
  <2>1. Spent \subseteq Spent'
    BY <1>4, OverIs DEF Spent
  <2>2. Cardinality(Spent) <= Cardinality(Spent') /\ Cardinality(Spent') \in Nat
    BY <2>1, SpentGrows
  <2> QED
    BY <1>1, <1>3, <2>2, MemOf, SpentFinite DEF ChangesPaid
<1>9. Fresh'
  <2>1. FreshReq(Over, version, replacedAt)
    BY OverIs DEF FreshReq
  <2> QED
    BY <1>1, <1>3, <1>4, <2>1 DEF Fresh, FreshEntry
<1>10. Turns'
  <2>1. ~Done(Over) /\ ~Live(Over) /\ ~Past(Over)
    BY OverIs DEF Done, Live, Past
  <2>2. ASSUME NEW d \in MemRequests
        PROVE  /\ Live(incoming'[d]) => Live(incoming[d])
               /\ Done(incoming'[d]) => Done(incoming[d])
               /\ Live(incoming'[d]) \/ Done(incoming'[d]) => incoming'[d].at = incoming[d].at
               /\ Past(incoming'[d]) => Past(incoming[d])
    BY <1>4, <2>1
  <2>3. memTime' \in Nat /\ memTime' >= memTime /\ restarts' # 0
    BY <1>1, <1>3, MemOf
  <2> QED
    BY <1>2, <1>3, <2>2, <2>3, TurnsStep
<1> QED
  BY <1>7, <1>8, <1>9, <1>10 DEF MemInd

\* Time passes while no request has taken too long, or nothing happens.
LEMMA MemTickInd ==
  ASSUME MemInd, MemTick \/ UNCHANGED memGateVars
  PROVE  MemInd'
<1>1. UNCHANGED <<version, cached, keyed, incoming, replacedAt, restarts>>
  BY DEF MemTick, memGateVars
<1>2. UNCHANGED overlapped
  BY DEF MemTick, memGateVars
<1>3. MemTypes /\ ChangesPaid /\ Fresh /\ Turns
  BY DEF MemInd
<1>4. memTime' \in MemTimes /\ memTime' \in Nat /\ memTime' >= memTime
  BY <1>3, MemOf DEF MemTick, memGateVars, MemTypes, MemTimes
<1>5. ASSUME NEW d \in MemRequests
      PROVE  ReqOK(incoming[d], memTime', version)
  <2>1. PICK q \in MemReq : /\ q = incoming[d] /\ ReqOK(q, memTime, version)
                            /\ q.at \in Nat /\ q.shows \in Nat
    BY <1>3, MemOf
  <2>2. CASE memTime' = memTime
    BY <2>1, <2>2
  <2>3. CASE memTime' # memTime
    <3>1. /\ memTime' = memTime + 1
          /\ \A r \in UnderWay("GET") \cup UnderWay("POST") :
                memTime - incoming[r].at < MaxRequestTime
      BY <2>3 DEF MemTick, memGateVars
    <3>2. Going(q) => memTime - q.at < MaxRequestTime
      <4>1. Going(q) => q.kind = "GET" \/ q.kind = "POST"
        BY <2>1 DEF MemReq, ReqOK, Going
      <4> QED
        BY <2>1, <3>1, <4>1 DEF UnderWay, Going
    <3> QED
      BY <1>3, <2>1, <3>1, <3>2, MemOf DEF ReqOK
  <2> QED
    BY <2>2, <2>3
<1>6. MemTypes'
  <2>1. /\ 0..(memTime + CacheTtl) \subseteq 0..(memTime' + CacheTtl)
        /\ 0..(memTime + KeyTtl) \subseteq 0..(memTime' + KeyTtl)
    BY <1>3, <1>4, MemOf
  <2>2. /\ cached' = NoEntry \/ cached' \in [shows : 0..version', expires : 0..(memTime' + CacheTtl)]
        /\ keyed' = NoEntry \/ keyed' \in [expires : 0..(memTime' + KeyTtl)]
    BY <1>1, <1>3, <2>1 DEF MemTypes
  <2> QED
    BY <1>1, <1>3, <1>4, <1>5, <2>2 DEF MemTypes
<1>7. ChangesPaid'
  BY <1>1, <1>3 DEF ChangesPaid, Spent
<1>8. Fresh'
  BY <1>1, <1>3 DEF Fresh
<1>9. Turns'
  BY <1>1, <1>2, <1>3, <1>4, TurnsStep
<1> QED
  BY <1>6, <1>7, <1>8, <1>9 DEF MemInd

LEMMA MemStepInd == MemInd /\ [MemNext]_memGateVars => MemInd'
<1> SUFFICES ASSUME MemInd, [MemNext]_memGateVars
             PROVE  MemInd'
  OBVIOUS
<1>1. ASSUME NEW r \in MemRequests, Arrive(r, "GET") \/ Arrive(r, "POST")
      PROVE  MemInd'
  BY <1>1, ArriveInd
<1>2. ASSUME NEW r \in MemRequests, StoreAnswer(r)
      PROVE  MemInd'
  BY <1>2, StoreCacheInd, StoreKeyInd
<1>3. ASSUME NEW r \in MemRequests,
             \/ CacheLookup(r) \/ KeyLookup(r) \/ Turned(r)
             \/ HandlerReads(r) \/ HandlerChanges(r) \/ HandlerBreaks(r)
      PROVE  MemInd'
  BY <1>3, CacheLookupInd, KeyLookupInd, TurnedInd, HandlerReadsInd, HandlerInd
<1> QED
  BY <1>1, <1>2, <1>3, RestartGatewayInd, MemTickInd DEF MemNext

LEMMA MemIndImplies == MemInd => MemInvariant
<1> SUFFICES ASSUME MemInd
             PROVE  MemInvariant
  OBVIOUS
<1>1. MemTypes /\ ChangesPaid /\ Fresh /\ Turns
  BY DEF MemInd
<1>2. version \in Versions /\ 0..version \subseteq Versions
  BY <1>1, MemOf, SpentFinite DEF ChangesPaid, Versions
<1>3. MemTypeOK
  BY <1>1, <1>2, MemOf DEF MemTypes, MemTypeOK, ReqOK
<1>4. ASSUME NEW r \in MemRequests, incoming[r].kind = "GET",
             incoming[r].phase \in {"hit", "storing", "answered"}
      PROVE  \/ incoming[r].shows = version
             \/ replacedAt[incoming[r].shows] > incoming[r].at - CacheTtl
  <2>1. PICK q \in MemReq : /\ q = incoming[r] /\ ReqOK(q, memTime, version)
                            /\ q.at \in Nat /\ q.shows \in Nat
    BY <1>1, MemOf
  <2>2. FreshReq(q, version, replacedAt)
    BY <1>1, <2>1 DEF Fresh
  <2>3. replacedAt[q.shows] \in Nat
    <3>1. q.shows \in Versions
      BY <1>1, <1>2, <2>1, MemOf DEF ReqOK
    <3> QED
      BY <1>1, <3>1 DEF MemTypes, MemTimes
  <2>4. q.shows = version \/ replacedAt[q.shows] >= q.at
        \/ replacedAt[q.shows] >= q.at - CacheTtl + 1
    BY <1>4, <2>1, <2>2 DEF FreshReq, Since
  <2> QED
    BY <1>1, <2>1, <2>3, <2>4, MemOf
<1>5. StalenessBounded
  BY <1>4 DEF StalenessBounded
<1>6. SerialRunsOnce
  <2>1. SUFFICES ASSUME ~overlapped, restarts = 0, NEW r \in Ran, NEW s \in Ran, r # s
                 PROVE  \/ incoming[r].at - incoming[s].at >= KeyTtl - MaxRequestTime
                        \/ incoming[s].at - incoming[r].at >= KeyTtl - MaxRequestTime
    BY DEF SerialRunsOnce
  <2>2. Done(incoming[r]) /\ Done(incoming[s]) /\ r \in MemRequests /\ s \in MemRequests
    BY DEF Ran, Done
  <2>3. KeyHolds
    BY <1>1, <2>1 DEF Turns
  <2> QED
    BY <2>1, <2>2, <2>3 DEF KeyHolds, Apart
<1> QED
  BY <1>3, <1>5, <1>6 DEF MemInvariant

\* A GET shows nothing that was replaced CacheTtl or more before it arrived, and
\* a key runs once in KeyTtl, less the time of a request, when its requests come
\* in turn: for every number of requests, and however long each takes.
THEOREM MemoryGatewayCorrect == MemSpec => []MemInvariant
<1>1. MemSpec => []MemInd
  BY MemInitInd, MemStepInd, PTL DEF MemSpec
<1> QED
  BY <1>1, MemIndImplies, PTL
=============================================================================
