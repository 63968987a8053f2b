---------------------------- MODULE Memberships -----------------------------
(***************************************************************************)
(* service/system/sys_membership.go, sys_tenant_application.go and         *)
(* utils/casbin/policy.go: the members of one tenant, with what a start of *)
(* the process does to them (initialize/system.go).  Who has which role is *)
(* kept twice, in the rows of sys_memberships and in the grouping policies *)
(* of Casbin, and no transaction covers both.                              *)
(*                                                                         *)
(* The processes are the requests of administrators and applicants; each   *)
(* statement and each call of the enforcer is a step.  Users, roles and    *)
(* organizations exist and stay active; which organization a member is in  *)
(* is left out.  The enforcer's memory and its table change together.      *)
(***************************************************************************)
EXTENDS FiniteSets, Naturals

CONSTANTS
  Users, Roles, Owner,
  DefaultRole,   \* the role of an approved applicant
  FirstOwner,    \* the user who created the tenant
  Bootstrap,     \* the accounts the configuration makes owners: one, or none
  Requests, Kind, \* "save", "assign", "apply", "approve" or "reject"
  UserOf,        \* the member or applicant a request is about
  RoleOf,        \* the role a save gives
  MaxCrashes     \* bound: restarts of the process

ASSUME MembershipsAssumption ==
  /\ Owner \in Roles /\ DefaultRole \in Roles
  /\ FirstOwner \in Users /\ Bootstrap \subseteq Users
  /\ Kind \in [Requests -> {"save", "assign", "apply", "approve", "reject"}]
  /\ UserOf \in [Requests -> Users] /\ RoleOf \in [Requests -> Roles]
  /\ MaxCrashes \in Nat

CONSTANTS NoRole, NoRow  \* RoleID 0, and no row

ASSUME ValuesAssumption == NoRole \notin Roles /\ NoRow \notin Roles

VARIABLES
  role,         \* of each user's row
  grants,       \* the roles Casbin gives each user
  application,  \* each user's request to join: its status
  pc, previous, \* where a request is, and the role in the row it read
  crashes,
  \* History, for the properties only:
  overlapped,   \* two saves were under way together
  held,         \* the roles each user's row has had
  broken,       \* users of whom a save ended after it wrote the row, since
                \* the last start
  admitted,     \* applicants an approval wrote a row for, since they applied
  contested     \* applicants whose application was changed during a review

historyVars == <<overlapped, held, broken, admitted, contested>>
storeVars == <<role, grants, application>>
vars == <<storeVars, pc, previous, crashes, historyVars>>

IsMember(u) == role[u] \in Roles

Init ==
  /\ role = [u \in Users |-> IF u = FirstOwner THEN Owner ELSE NoRow]
  /\ grants = [u \in Users |-> IF u = FirstOwner THEN {Owner} ELSE {}]
  /\ application = [u \in Users |-> "none"]
  /\ pc = [r \in Requests |-> "idle"]
  /\ previous = [r \in Requests |-> NoRow]
  /\ crashes = 0
  /\ held = [u \in Users |-> IF u = FirstOwner THEN {Owner} ELSE {}]
  /\ overlapped = FALSE /\ broken = {} /\ admitted = {} /\ contested = {}

At(r, stage) == pc[r] = stage
Read(r, row, stage) ==
  /\ previous' = [previous EXCEPT ![r] = row]
  /\ pc' = [pc EXCEPT ![r] = stage]
\* A request that is done holds nothing.
Goto(r, stage) == Read(r, IF stage = "done" THEN NoRow ELSE previous[r], stage)
Of(kinds) == {r \in Requests : Kind[r] \in kinds}

Saving == {r \in Requests : pc[r] \in {"countOwners", "writeRow", "grant"}}
Reviewing(u) ==
  {r \in Of({"approve", "reject"}) : UserOf[r] = u /\ pc[r] \notin {"idle", "done"}}
Given(r) == IF Kind[r] = "approve" THEN DefaultRole ELSE RoleOf[r]

(***************************************************************************)
(* saveMembership, by AddMembership or by an approval.                     *)
(***************************************************************************)

\* Only an owner who is given another role is counted.
ReadPrevious(r) ==
  /\ \/ At(r, "idle") /\ Kind[r] = "save"
     \/ At(r, "admit")
  /\ LET row == role[UserOf[r]]
     IN  Read(r, row, IF row = Owner /\ Given(r) # Owner THEN "countOwners" ELSE "writeRow")
  /\ overlapped' = (overlapped \/ Saving # {})
  /\ UNCHANGED <<storeVars, crashes, held, broken, admitted, contested>>

\* Mutation: off by one.
CountOwnersOne(r) ==
  /\ At(r, "countOwners")
  /\ Goto(r, IF Cardinality({u \in Users : role[u] = Owner}) < 1 THEN "done" ELSE "writeRow")
  /\ UNCHANGED <<storeVars, crashes, historyVars>>

CountOwners(r) ==
  /\ At(r, "countOwners")
  /\ Goto(r, IF Cardinality({u \in Users : role[u] = Owner}) <= 1 THEN "done" ELSE "writeRow")
  /\ UNCHANGED <<storeVars, crashes, historyVars>>

\* A row that was not there when it was looked for is created, and the unique
\* index refuses a second one.  A row that was there is updated through the
\* record it was read into (Model(&previous).Updates), which then holds the
\* values written: from here on the role before is known to nobody.
WriteRow(r) ==
  LET u == UserOf[r]
  IN  /\ At(r, "writeRow")
      /\ IF previous[r] = NoRow /\ role[u] # NoRow
         THEN Goto(r, "done") /\ UNCHANGED <<role, held, admitted>>
         ELSE /\ role' = [role EXCEPT ![u] = Given(r)]
              /\ held' = [held EXCEPT ![u] = @ \cup {Given(r)}]
              /\ admitted' = IF Kind[r] = "approve" THEN admitted \cup {u} ELSE admitted
              /\ Read(r, IF previous[r] = NoRow THEN NoRow ELSE Given(r), "grant")
      /\ UNCHANGED <<grants, application, crashes, overlapped, broken, contested>>

\* The policies ReplaceMembershipRole removes: of a previous role other than
\* the new one.
Revoked(r) == {previous[r]} \ {NoRole, Given(r)}

\* Mutation: the enforcer is called only when the row held no role before.
GrantToNewMembers(r) ==
  /\ At(r, "grant")
  /\ grants' = IF previous[r] \in Roles THEN grants
               ELSE [grants EXCEPT ![UserOf[r]] = @ \cup {Given(r)}]
  /\ Goto(r, IF Kind[r] = "approve" THEN "mark" ELSE "done")
  /\ UNCHANGED <<role, application, crashes, historyVars>>

Grant(r) ==
  /\ At(r, "grant")
  /\ grants' = [grants EXCEPT ![UserOf[r]] = (@ \ Revoked(r)) \cup {Given(r)}]
  /\ Goto(r, IF Kind[r] = "approve" THEN "mark" ELSE "done")
  /\ UNCHANGED <<role, application, crashes, historyVars>>

(***************************************************************************)
(* AssignOrganization creates a row without a role, or keeps the role.     *)
(***************************************************************************)

AssignRead(r) ==
  /\ At(r, "idle") /\ Kind[r] = "assign"
  /\ Read(r, role[UserOf[r]], "assignWrite")
  /\ UNCHANGED <<storeVars, crashes, historyVars>>

AssignWrite(r) ==
  LET u == UserOf[r]
  IN  /\ At(r, "assignWrite")
      /\ role' = IF previous[r] = NoRow /\ role[u] = NoRow
                 THEN [role EXCEPT ![u] = NoRole] ELSE role
      /\ Goto(r, "done")
      /\ UNCHANGED <<grants, application, crashes, historyVars>>

(***************************************************************************)
(* Applications.                                                           *)
(***************************************************************************)

\* A member with a role cannot apply; a decided application is opened again.
ApplyCheck(r) ==
  /\ At(r, "idle") /\ Kind[r] = "apply"
  /\ Goto(r, IF IsMember(UserOf[r]) THEN "done" ELSE "applyWrite")
  /\ UNCHANGED <<storeVars, crashes, historyVars>>

ApplyWrite(r) ==
  LET u == UserOf[r]
  IN  /\ At(r, "applyWrite")
      /\ application' = [application EXCEPT ![u] = "pending"]
      /\ admitted' = admitted \ {u}
      /\ contested' = IF Reviewing(u) # {} THEN contested \cup {u} ELSE contested
      /\ Goto(r, "done")
      /\ UNCHANGED <<role, grants, crashes, overlapped, held, broken>>

ReadApplication(r) ==
  LET u == UserOf[r]
  IN  /\ At(r, "idle") /\ Kind[r] \in {"approve", "reject"}
      /\ application[u] = "pending"
      /\ Goto(r, IF Kind[r] = "approve" THEN "admit" ELSE "mark")
      /\ contested' = IF Reviewing(u) # {} THEN contested \cup {u} ELSE contested
      /\ UNCHANGED <<storeVars, crashes, overlapped, held, broken, admitted>>

\* Mutation: the status is the one an application is given at first.
MarkApplicationRejected(r) ==
  /\ At(r, "mark")
  /\ application' = [application EXCEPT ![UserOf[r]] = "rejected"]
  /\ Goto(r, "done")
  /\ UNCHANGED <<role, grants, crashes, historyVars>>

\* The row is updated by its id, whatever its status has become.
MarkApplication(r) ==
  /\ At(r, "mark")
  /\ application' = [application EXCEPT ![UserOf[r]] =
                       IF Kind[r] = "approve" THEN "approved" ELSE "rejected"]
  /\ Goto(r, "done")
  /\ UNCHANGED <<role, grants, crashes, historyVars>>

(***************************************************************************)
(* Failures.  A statement or the enforcer fails, and the request ends.     *)
(***************************************************************************)

WroteRow(r) == At(r, "grant")

RequestFails(r) ==
  /\ pc[r] \notin {"idle", "done"}
  /\ broken' = IF WroteRow(r) THEN broken \cup {UserOf[r]} ELSE broken
  /\ contested' = IF Kind[r] = "approve" /\ pc[r] \in {"grant", "mark"}
                  THEN contested \cup {UserOf[r]} ELSE contested
  /\ Goto(r, "done")
  /\ UNCHANGED <<storeVars, crashes, overlapped, held, admitted>>

Cut == {r \in Requests : pc[r] \notin {"idle", "done"}}

\* Mutation: users without a row are granted their role, too.
RestartGrantsAll ==
  /\ crashes < MaxCrashes /\ crashes' = crashes + 1
  /\ role' = [u \in Users |-> IF u \in Bootstrap THEN Owner ELSE role[u]]
  /\ grants' = [u \in Users |-> grants[u] \cup {role'[u]}]
  /\ held' = [u \in Users |-> IF u \in Bootstrap THEN held[u] \cup {Owner} ELSE held[u]]
  /\ pc' = [r \in Requests |-> IF r \in Cut THEN "done" ELSE pc[r]]
  /\ previous' = [r \in Requests |-> NoRow]
  /\ broken' = {}
  /\ contested' = contested \cup
       {UserOf[r] : r \in {q \in Cut : Kind[q] = "approve" /\ UserOf[q] \in admitted}}
  /\ UNCHANGED <<application, overlapped, admitted>>

\* The process ends.  Its next start makes the configured account an owner
\* again (BootstrapOwner) and grants every active member's role, before it
\* serves a request, and takes no grant away (EnsureBuiltinPolicies).
Restart ==
  /\ crashes < MaxCrashes /\ crashes' = crashes + 1
  /\ role' = [u \in Users |-> IF u \in Bootstrap THEN Owner ELSE role[u]]
  /\ grants' = [u \in Users |-> grants[u] \cup ({role'[u]} \ {NoRow})]
  /\ held' = [u \in Users |-> IF u \in Bootstrap THEN held[u] \cup {Owner} ELSE held[u]]
  /\ pc' = [r \in Requests |-> IF r \in Cut THEN "done" ELSE pc[r]]
  /\ previous' = [r \in Requests |-> NoRow]
  /\ broken' = {}
  /\ contested' = contested \cup
       {UserOf[r] : r \in {q \in Cut : Kind[q] = "approve" /\ UserOf[q] \in admitted}}
  /\ UNCHANGED <<application, overlapped, admitted>>

RequestNext(r) ==
  \/ ReadPrevious(r) \/ CountOwners(r) \/ WriteRow(r) \/ Grant(r)
  \/ AssignRead(r) \/ AssignWrite(r) \/ ApplyCheck(r) \/ ApplyWrite(r)
  \/ ReadApplication(r) \/ MarkApplication(r) \/ RequestFails(r)

Next == Restart \/ \E r \in Requests : RequestNext(r)

Spec == Init /\ [][Next]_vars

(***************************************************************************)
(* Properties.                                                             *)
(***************************************************************************)

Stages == {"idle", "done", "admit", "countOwners", "writeRow", "grant", "assignWrite",
           "applyWrite", "mark"}

\* Rows and grants hold roles, and a request is at a stage.
TypeOK ==
  /\ role \in [Users -> Roles \cup {NoRole, NoRow}]
  /\ grants \in [Users -> SUBSET (Roles \cup {NoRole})]
  /\ application \in [Users -> {"none", "pending", "approved", "rejected"}]
  /\ pc \in [Requests -> Stages]
  /\ previous \in [Requests -> Roles \cup {NoRole, NoRow}]
  /\ crashes \in 0..MaxCrashes /\ overlapped \in BOOLEAN
  /\ held \in [Users -> SUBSET Roles]
  /\ broken \subseteq Users /\ admitted \subseteq Users /\ contested \subseteq Users

\* Casbin grants a user only roles the user's row has had (sys_membership.go:
\* 224-253), and while no save is at work on the user the row's role is among
\* them, even if saves have overlapped; but for a user of whom a save ended
\* between the row and the grant, until the next start (policy.go:208-217).
GrantsCoverRole ==
  \A u \in Users :
    /\ grants[u] \cap Roles \subseteq held[u]
    /\ u \notin {UserOf[r] : r \in Saving} /\ role[u] \in Roles =>
         role[u] \in grants[u] \/ u \in broken

\* The tenant keeps an owner (sys_membership.go:204-215): the owners are counted
\* in one statement and the row is written in another, so that only saves which
\* overlap can take the last one's role.
TenantHasOwner == (\E u \in Users : role[u] = Owner) \/ overlapped

\* A rejected applicant was not admitted by that application
\* (sys_tenant_application.go:99-129), unless two reviews of it overlapped, the
\* user applied again during one, or an approval ended half-way and the
\* application, still pending, was then rejected.
RejectedIsNotAdmitted ==
  \A u \in Users : application[u] = "rejected" => u \notin admitted \/ u \in contested
=============================================================================
