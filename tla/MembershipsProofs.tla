------------------------- MODULE MembershipsProofs --------------------------
(***************************************************************************)
(* The safety properties of Memberships for any users, roles and requests  *)
(* and any number of restarts.                                             *)
(***************************************************************************)
EXTENDS Memberships, FiniteSetTheorems, TLAPS

-----------------------------------------------------------------------------
(* The inductive invariant *)

\* Only reviews are at the stages of a review.
StagesFollowKind ==
  \A r \in Requests :
    /\ Kind[r] = "reject" => pc[r] \in {"idle", "mark", "done"}
    /\ pc[r] \in {"admit", "mark"} => Kind[r] \in {"approve", "reject"}

SavesAreAlone == ~overlapped => \A r, s \in Saving : r = s

\* Whoever is about to take an owner's role leaves another owner.
OwnerStays ==
  ~overlapped =>
    /\ \E u \in Users : role[u] = Owner
    /\ \A r \in Requests :
         pc[r] = "writeRow" /\ role[UserOf[r]] = Owner /\ Given(r) # Owner
           => \E v \in Users : v # UserOf[r] /\ role[v] = Owner

\* A save that has written its row knows no other role than the one it gave,
\* and a grant follows a row.
GrantsFollowRows ==
  /\ \A u \in Users : ((grants[u] \cup {role[u]}) \cap Roles) \subseteq held[u]
  /\ \A r \in Requests : WroteRow(r) =>
       /\ previous[r] \in {NoRow, Given(r)}
       /\ Given(r) \in held[UserOf[r]]

\* Whose role is not granted yet has a save that is about to grant it.
RolesAreGranted ==
  \A u \in Users \ broken :
    role[u] \in Roles =>
      \/ role[u] \in grants[u]
      \/ \E r \in Requests : WroteRow(r) /\ UserOf[r] = u /\ Given(r) = role[u]

Admitting(r) == Kind[r] = "approve" /\ pc[r] \in {"grant", "mark"}

\* Without a contest, one review at a time looks at a pending application, and
\* only an approval that has written its row, or is done, has admitted anybody.
ReviewIsAlone ==
  \A u \in Users \ contested :
    /\ \A r, s \in Reviewing(u) : r = s
    /\ Reviewing(u) # {} => application[u] = "pending"
    /\ u \in admitted =>
         \/ application[u] = "approved"
         \/ \E r \in Reviewing(u) : Admitting(r)

IInv ==
  /\ TypeOK
  /\ StagesFollowKind
  /\ SavesAreAlone
  /\ OwnerStays
  /\ GrantsFollowRows
  /\ RolesAreGranted
  /\ ReviewIsAlone

-----------------------------------------------------------------------------
LEMMA GivenIsRole ==
  ASSUME NEW r \in Requests PROVE Given(r) \in Roles
BY MembershipsAssumption DEF Given

LEMMA InitIInv == Init => IInv
<1> SUFFICES ASSUME Init PROVE IInv
  OBVIOUS
<1> USE MembershipsAssumption, ValuesAssumption DEF Init
<1>1. TypeOK
  <2>1. role \in [Users -> Roles \cup {NoRole, NoRow}]
    OBVIOUS
  <2>2. grants \in [Users -> SUBSET (Roles \cup {NoRole})]
    OBVIOUS
  <2>3. pc \in [Requests -> Stages]
    BY DEF Stages
  <2>4. previous \in [Requests -> Roles \cup {NoRole, NoRow}]
    OBVIOUS
  <2>5. application \in [Users -> {"none", "pending", "approved", "rejected"}]
    OBVIOUS
  <2>6. crashes \in 0..MaxCrashes
    OBVIOUS
  <2>7. held \in [Users -> SUBSET Roles]
    OBVIOUS
  <2> QED
    BY <2>1, <2>2, <2>3, <2>4, <2>5, <2>6, <2>7, Zenon DEF TypeOK
<1>2. StagesFollowKind
  BY DEF StagesFollowKind
<1>3. SavesAreAlone
  BY DEF SavesAreAlone, Saving
<1>4. OwnerStays
  BY DEF OwnerStays
<1>5. GrantsFollowRows
  BY DEF GrantsFollowRows, WroteRow, At
<1>6. RolesAreGranted
  BY DEF RolesAreGranted
<1>7. ReviewIsAlone
  BY DEF ReviewIsAlone, Reviewing, Of
<1> QED
  BY <1>1, <1>2, <1>3, <1>4, <1>5, <1>6, <1>7 DEF IInv

LEMMA NextTypeOK == TypeOK /\ [Next]_vars => TypeOK'
<1> SUFFICES ASSUME TypeOK, [Next]_vars PROVE TypeOK'
  OBVIOUS
<1> USE MembershipsAssumption, GivenIsRole DEF TypeOK, Stages
<1>1. ASSUME NEW r \in Requests, ReadPrevious(r) PROVE TypeOK'
  <2>1. overlapped' \in BOOLEAN
    BY <1>1, Zenon DEF ReadPrevious
  <2>2. /\ previous' \in [Requests -> Roles \cup {NoRole, NoRow}]
        /\ pc' \in [Requests -> Stages]
    BY <1>1 DEF ReadPrevious, At, Read
  <2> QED
    BY <1>1, <2>1, <2>2, Zenon DEF ReadPrevious, storeVars
<1>2. ASSUME NEW r \in Requests, CountOwners(r) PROVE TypeOK'
  BY <1>2 DEF CountOwners, At, Goto, Read, storeVars, historyVars
<1>3. ASSUME NEW r \in Requests, WriteRow(r) PROVE TypeOK'
  BY <1>3 DEF WriteRow, At, Goto, Read
<1>5. ASSUME NEW r \in Requests, Grant(r) PROVE TypeOK'
  BY <1>5 DEF Grant, Revoked, At, Goto, Read, historyVars
<1>6. ASSUME NEW r \in Requests, AssignRead(r) PROVE TypeOK'
  BY <1>6 DEF AssignRead, At, Read, storeVars, historyVars
<1>7. ASSUME NEW r \in Requests, AssignWrite(r) PROVE TypeOK'
  BY <1>7 DEF AssignWrite, At, Goto, Read, historyVars
<1>8. ASSUME NEW r \in Requests, ApplyCheck(r) PROVE TypeOK'
  BY <1>8 DEF ApplyCheck, At, Goto, Read, storeVars, historyVars
<1>9. ASSUME NEW r \in Requests, ApplyWrite(r) PROVE TypeOK'
  BY <1>9 DEF ApplyWrite, At, Goto, Read
<1>10. ASSUME NEW r \in Requests, ReadApplication(r) PROVE TypeOK'
  BY <1>10 DEF ReadApplication, At, Goto, Read, storeVars
<1>11. ASSUME NEW r \in Requests, MarkApplication(r) PROVE TypeOK'
  BY <1>11 DEF MarkApplication, At, Goto, Read, historyVars
<1>12. ASSUME NEW r \in Requests, RequestFails(r) PROVE TypeOK'
  BY <1>12 DEF RequestFails, WroteRow, At, Goto, Read, storeVars
<1>13. CASE Restart
  BY <1>13 DEF Restart, Cut, WroteRow, At
<1>14. CASE UNCHANGED vars
  BY <1>14 DEF vars, storeVars, historyVars
<1> QED
  BY <1>1, <1>2, <1>3, <1>5, <1>6, <1>7, <1>8, <1>9, <1>10, <1>11, <1>12, <1>13, <1>14
  DEF Next, RequestNext

LEMMA NextStages == IInv /\ [Next]_vars => StagesFollowKind'
<1> SUFFICES ASSUME IInv, [Next]_vars PROVE StagesFollowKind'
  OBVIOUS
<1> USE MembershipsAssumption DEF IInv, TypeOK, Stages, StagesFollowKind
<1>1. ASSUME NEW r \in Requests, ReadPrevious(r) PROVE StagesFollowKind'
  BY <1>1 DEF ReadPrevious, At, Read, storeVars
<1>2. ASSUME NEW r \in Requests, CountOwners(r) PROVE StagesFollowKind'
  BY <1>2 DEF CountOwners, At, Goto, Read, storeVars, historyVars
<1>3. ASSUME NEW r \in Requests, WriteRow(r) PROVE StagesFollowKind'
  BY <1>3 DEF WriteRow, At, Goto, Read
<1>5. ASSUME NEW r \in Requests, Grant(r) PROVE StagesFollowKind'
  BY <1>5 DEF Grant, Revoked, At, Goto, Read, historyVars
<1>6. ASSUME NEW r \in Requests, AssignRead(r) PROVE StagesFollowKind'
  BY <1>6 DEF AssignRead, At, Read, storeVars, historyVars
<1>7. ASSUME NEW r \in Requests, AssignWrite(r) PROVE StagesFollowKind'
  BY <1>7 DEF AssignWrite, At, Goto, Read, historyVars
<1>8. ASSUME NEW r \in Requests, ApplyCheck(r) PROVE StagesFollowKind'
  BY <1>8 DEF ApplyCheck, At, Goto, Read, storeVars, historyVars
<1>9. ASSUME NEW r \in Requests, ApplyWrite(r) PROVE StagesFollowKind'
  BY <1>9 DEF ApplyWrite, At, Goto, Read
<1>10. ASSUME NEW r \in Requests, ReadApplication(r) PROVE StagesFollowKind'
  BY <1>10 DEF ReadApplication, At, Goto, Read, storeVars
<1>11. ASSUME NEW r \in Requests, MarkApplication(r) PROVE StagesFollowKind'
  BY <1>11 DEF MarkApplication, At, Goto, Read, historyVars
<1>12. ASSUME NEW r \in Requests, RequestFails(r) PROVE StagesFollowKind'
  BY <1>12 DEF RequestFails, WroteRow, At, Goto, Read, storeVars
<1>13. CASE Restart
  BY <1>13 DEF Restart, Cut, WroteRow, At
<1>14. CASE UNCHANGED vars
  BY <1>14 DEF vars, storeVars, historyVars
<1> QED
  BY <1>1, <1>2, <1>3, <1>5, <1>6, <1>7, <1>8, <1>9, <1>10, <1>11, <1>12, <1>13, <1>14
  DEF Next, RequestNext

\* Only the read of the old row begins a save.
LEMMA SavesEnd ==
  ASSUME TypeOK, [Next]_vars
  PROVE  \/ Saving' \subseteq Saving /\ overlapped' = overlapped
         \/ \E r \in Requests : ReadPrevious(r)
<1> DEFINE Fewer == Saving' \subseteq Saving /\ overlapped' = overlapped
<1> USE DEF TypeOK, Stages, Saving
<1>2. ASSUME NEW r \in Requests, CountOwners(r) PROVE Fewer
  BY <1>2 DEF CountOwners, At, Goto, Read, storeVars, historyVars
<1>3. ASSUME NEW r \in Requests, WriteRow(r) PROVE Fewer
  BY <1>3 DEF WriteRow, At, Goto, Read
<1>5. ASSUME NEW r \in Requests, Grant(r) PROVE Fewer
  BY <1>5 DEF Grant, Revoked, At, Goto, Read, historyVars
<1>6. ASSUME NEW r \in Requests, AssignRead(r) PROVE Fewer
  BY <1>6 DEF AssignRead, At, Read, storeVars, historyVars
<1>7. ASSUME NEW r \in Requests, AssignWrite(r) PROVE Fewer
  BY <1>7 DEF AssignWrite, At, Goto, Read, historyVars
<1>8. ASSUME NEW r \in Requests, ApplyCheck(r) PROVE Fewer
  BY <1>8 DEF ApplyCheck, At, Goto, Read, storeVars, historyVars
<1>9. ASSUME NEW r \in Requests, ApplyWrite(r) PROVE Fewer
  BY <1>9 DEF ApplyWrite, At, Goto, Read
<1>10. ASSUME NEW r \in Requests, ReadApplication(r) PROVE Fewer
  BY <1>10 DEF ReadApplication, At, Goto, Read, storeVars
<1>11. ASSUME NEW r \in Requests, MarkApplication(r) PROVE Fewer
  BY <1>11 DEF MarkApplication, At, Goto, Read, historyVars
<1>12. ASSUME NEW r \in Requests, RequestFails(r) PROVE Fewer
  BY <1>12 DEF RequestFails, WroteRow, At, Goto, Read, storeVars
<1>13. CASE Restart
  BY <1>13 DEF Restart, Cut
<1>14. CASE UNCHANGED vars
  BY <1>14 DEF vars, storeVars, historyVars
<1> QED
  BY <1>2, <1>3, <1>5, <1>6, <1>7, <1>8, <1>9, <1>10, <1>11, <1>12, <1>13, <1>14
  DEF Next, RequestNext

LEMMA NextSavesAreAlone == IInv /\ [Next]_vars => SavesAreAlone'
<1> SUFFICES ASSUME IInv, [Next]_vars PROVE SavesAreAlone'
  OBVIOUS
<1>1. CASE Saving' \subseteq Saving /\ overlapped' = overlapped
  BY <1>1 DEF IInv, SavesAreAlone
<1>2. ASSUME NEW r \in Requests, ReadPrevious(r) PROVE SavesAreAlone'
  <2>1. overlapped' = (overlapped \/ Saving # {})
    BY <1>2 DEF ReadPrevious
  <2>2. \A q \in Requests : q # r => pc'[q] = pc[q]
    BY <1>2 DEF ReadPrevious, Read, IInv, TypeOK
  <2>3. Saving' \subseteq Saving \cup {r}
    BY <2>2 DEF Saving
  <2> QED
    BY <2>1, <2>3 DEF SavesAreAlone
<1> QED
  BY <1>1, <1>2, SavesEnd DEF IInv

\* A second owner is somebody else.
LEMMA AnotherOwner ==
  ASSUME TypeOK, NEW u \in Users, ~(Cardinality({v \in Users : role[v] = Owner}) <= 1)
  PROVE  \E v \in Users : v # u /\ role[v] = Owner
<1> DEFINE Owners == {v \in Users : role[v] = Owner}
<1>1. SUFFICES ASSUME Owners \subseteq {u} PROVE FALSE
  OBVIOUS
<1>2. Owners = {} \/ Owners = {u}
  BY <1>1
<1>3. Cardinality({}) = 0 /\ Cardinality({u}) = 1
  BY FS_EmptySet, FS_Singleton
<1> QED
  BY <1>2, <1>3

LEMMA NextOwnerStays == IInv /\ [Next]_vars => OwnerStays'
<1> SUFFICES ASSUME IInv, [Next]_vars PROVE OwnerStays'
  OBVIOUS
<1> USE MembershipsAssumption, ValuesAssumption, GivenIsRole DEF IInv, TypeOK, Stages, OwnerStays
<1>1. ASSUME NEW r \in Requests, ReadPrevious(r) PROVE OwnerStays'
  BY <1>1 DEF ReadPrevious, At, Read, storeVars, Given
<1>2. ASSUME NEW r \in Requests, CountOwners(r) PROVE OwnerStays'
  BY <1>2, AnotherOwner DEF CountOwners, At, Goto, Read, storeVars, historyVars, Given
<1>3. ASSUME NEW r \in Requests, WriteRow(r) PROVE OwnerStays'
  <2> SUFFICES ASSUME ~overlapped' PROVE OwnerStays'
    OBVIOUS
  <2>1. ~overlapped
    BY <1>3 DEF WriteRow
  <2>2. \A q \in Requests : q # r => pc[q] # "writeRow"
    BY <1>3, <2>1 DEF SavesAreAlone, Saving, WriteRow, At
  <2>3. \A q \in Requests : pc'[q] # "writeRow"
    BY <1>3, <2>2 DEF WriteRow, Goto, Read
  <2>4. \E u \in Users : role'[u] = Owner
    BY <1>3, <2>1 DEF WriteRow, At
  <2> QED
    BY <2>3, <2>4
<1>5. ASSUME NEW r \in Requests, Grant(r) PROVE OwnerStays'
  BY <1>5 DEF Grant, Revoked, At, Goto, Read, historyVars, Given
<1>6. ASSUME NEW r \in Requests, AssignRead(r) PROVE OwnerStays'
  BY <1>6 DEF AssignRead, At, Read, storeVars, historyVars, Given
<1>7. ASSUME NEW r \in Requests, AssignWrite(r) PROVE OwnerStays'
  BY <1>7 DEF AssignWrite, At, Goto, Read, historyVars, Given
<1>8. ASSUME NEW r \in Requests, ApplyCheck(r) PROVE OwnerStays'
  BY <1>8 DEF ApplyCheck, At, Goto, Read, storeVars, historyVars, Given
<1>9. ASSUME NEW r \in Requests, ApplyWrite(r) PROVE OwnerStays'
  BY <1>9 DEF ApplyWrite, At, Goto, Read, Given
<1>10. ASSUME NEW r \in Requests, ReadApplication(r) PROVE OwnerStays'
  BY <1>10 DEF ReadApplication, At, Goto, Read, storeVars, Given
<1>11. ASSUME NEW r \in Requests, MarkApplication(r) PROVE OwnerStays'
  BY <1>11 DEF MarkApplication, At, Goto, Read, historyVars, Given
<1>12. ASSUME NEW r \in Requests, RequestFails(r) PROVE OwnerStays'
  BY <1>12 DEF RequestFails, WroteRow, At, Goto, Read, storeVars, Given
<1>13. CASE Restart
  BY <1>13 DEF Restart, Cut, WroteRow, At, Given
<1>14. CASE UNCHANGED vars
  BY <1>14 DEF vars, storeVars, historyVars, Given
<1> QED
  BY <1>1, <1>2, <1>3, <1>5, <1>6, <1>7, <1>8, <1>9, <1>10, <1>11, <1>12, <1>13, <1>14
  DEF Next, RequestNext

LEMMA NextGrantsFollowRows == IInv /\ [Next]_vars => GrantsFollowRows'
<1> SUFFICES ASSUME IInv, [Next]_vars PROVE GrantsFollowRows'
  OBVIOUS
<1> USE MembershipsAssumption, ValuesAssumption, GivenIsRole DEF IInv, TypeOK, Stages, GrantsFollowRows, WroteRow
<1>1. ASSUME NEW r \in Requests, ReadPrevious(r) PROVE GrantsFollowRows'
  BY <1>1 DEF ReadPrevious, At, Read, storeVars, Given
<1>2. ASSUME NEW r \in Requests, CountOwners(r) PROVE GrantsFollowRows'
  BY <1>2 DEF CountOwners, At, Goto, Read, storeVars, historyVars, Given
<1>3. ASSUME NEW r \in Requests, WriteRow(r) PROVE GrantsFollowRows'
  <2> DEFINE u == UserOf[r]
  <2>1. CASE previous[r] = NoRow /\ role[u] # NoRow
    BY <1>3, <2>1 DEF WriteRow, At, Goto, Read, Given
  <2>2. CASE ~(previous[r] = NoRow /\ role[u] # NoRow)
    <3>1. /\ role' = [role EXCEPT ![u] = Given(r)]
          /\ held' = [held EXCEPT ![u] = @ \cup {Given(r)}]
          /\ UNCHANGED grants
      BY <1>3, <2>2 DEF WriteRow
    <3>2. /\ pc' = [pc EXCEPT ![r] = "grant"]
          /\ previous' = [previous EXCEPT ![r] = IF @ = NoRow THEN NoRow ELSE Given(r)]
      BY <1>3, <2>2 DEF WriteRow, Read
    <3>3. \A v \in Users : ((grants'[v] \cup {role'[v]}) \cap Roles) \subseteq held'[v]
      BY <3>1
    <3>4. previous'[r] \in {NoRow, Given(r)} /\ Given(r) \in held'[UserOf[r]]
      BY <3>1, <3>2
    <3>5. \A q \in Requests \ {r} : WroteRow(q)' =>
            previous'[q] \in {NoRow, Given(q)} /\ Given(q) \in held'[UserOf[q]]
      BY <3>1, <3>2 DEF At
    <3>6. \A q \in Requests : WroteRow(q)' =>
            previous'[q] \in {NoRow, Given(q)} /\ Given(q) \in held'[UserOf[q]]
      BY <3>4, <3>5
    <3> QED
      BY <3>3, <3>6, Zenon DEF WroteRow, Given
  <2> QED
    BY <2>1, <2>2
<1>5. ASSUME NEW r \in Requests, Grant(r) PROVE GrantsFollowRows'
  <2>1. UNCHANGED <<role, held>>
    BY <1>5 DEF Grant, historyVars
  <2>2. \A u \in Users : grants'[u] \subseteq
          grants[u] \cup (IF u = UserOf[r] THEN {Given(r)} ELSE {})
    BY <1>5 DEF Grant
  <2>3. Given(r) \in held[UserOf[r]]
    BY <1>5 DEF Grant, At
  <2>4. \A u \in Users : ((grants'[u] \cup {role[u]}) \cap Roles) \subseteq held[u]
    BY <2>2, <2>3
  <2>5. \A q \in Requests : WroteRow(q)' =>
          WroteRow(q) /\ previous'[q] = previous[q] /\ Given(q)' = Given(q)
    BY <1>5 DEF Grant, At, Goto, Read, Given
  <2>6. \A q \in Requests : WroteRow(q)' =>
          previous'[q] \in {NoRow, Given(q)'} /\ Given(q)' \in held[UserOf[q]]
    BY <2>5
  <2> QED
    BY <2>1, <2>4, <2>6, Zenon DEF WroteRow
<1>6. ASSUME NEW r \in Requests, AssignRead(r) PROVE GrantsFollowRows'
  BY <1>6 DEF AssignRead, At, Read, storeVars, historyVars, Given
<1>7. ASSUME NEW r \in Requests, AssignWrite(r) PROVE GrantsFollowRows'
  BY <1>7 DEF AssignWrite, At, Goto, Read, historyVars, Given
<1>8. ASSUME NEW r \in Requests, ApplyCheck(r) PROVE GrantsFollowRows'
  BY <1>8 DEF ApplyCheck, At, Goto, Read, storeVars, historyVars, Given
<1>9. ASSUME NEW r \in Requests, ApplyWrite(r) PROVE GrantsFollowRows'
  BY <1>9 DEF ApplyWrite, At, Goto, Read, Given
<1>10. ASSUME NEW r \in Requests, ReadApplication(r) PROVE GrantsFollowRows'
  BY <1>10 DEF ReadApplication, At, Goto, Read, storeVars, Given
<1>11. ASSUME NEW r \in Requests, MarkApplication(r) PROVE GrantsFollowRows'
  BY <1>11 DEF MarkApplication, At, Goto, Read, historyVars, Given
<1>12. ASSUME NEW r \in Requests, RequestFails(r) PROVE GrantsFollowRows'
  BY <1>12 DEF RequestFails, At, Goto, Read, storeVars, Given
<1>13. CASE Restart
  BY <1>13 DEF Restart, Cut, At, Given
<1>14. CASE UNCHANGED vars
  BY <1>14 DEF vars, storeVars, historyVars, At, Given
<1> QED
  BY <1>1, <1>2, <1>3, <1>5, <1>6, <1>7, <1>8, <1>9, <1>10, <1>11, <1>12, <1>13, <1>14
  DEF Next, RequestNext

LEMMA NextRolesAreGranted == IInv /\ [Next]_vars => RolesAreGranted'
<1> SUFFICES ASSUME IInv, [Next]_vars PROVE RolesAreGranted'
  OBVIOUS
<1> USE MembershipsAssumption, ValuesAssumption, GivenIsRole DEF IInv, TypeOK, Stages, RolesAreGranted, GrantsFollowRows, WroteRow
<1>1. ASSUME NEW r \in Requests, ReadPrevious(r) PROVE RolesAreGranted'
  BY <1>1 DEF ReadPrevious, At, Read, storeVars, Given
<1>2. ASSUME NEW r \in Requests, CountOwners(r) PROVE RolesAreGranted'
  BY <1>2 DEF CountOwners, At, Goto, Read, storeVars, historyVars, Given
<1>3. ASSUME NEW r \in Requests, WriteRow(r) PROVE RolesAreGranted'
  BY <1>3 DEF WriteRow, At, Goto, Read, Given
<1>5. ASSUME NEW r \in Requests, Grant(r) PROVE RolesAreGranted'
  BY <1>5 DEF Grant, Revoked, At, Goto, Read, historyVars, Given
<1>6. ASSUME NEW r \in Requests, AssignRead(r) PROVE RolesAreGranted'
  BY <1>6 DEF AssignRead, At, Read, storeVars, historyVars, Given
<1>7. ASSUME NEW r \in Requests, AssignWrite(r) PROVE RolesAreGranted'
  BY <1>7 DEF AssignWrite, At, Goto, Read, historyVars, Given
<1>8. ASSUME NEW r \in Requests, ApplyCheck(r) PROVE RolesAreGranted'
  BY <1>8 DEF ApplyCheck, At, Goto, Read, storeVars, historyVars, Given
<1>9. ASSUME NEW r \in Requests, ApplyWrite(r) PROVE RolesAreGranted'
  BY <1>9 DEF ApplyWrite, At, Goto, Read, Given
<1>10. ASSUME NEW r \in Requests, ReadApplication(r) PROVE RolesAreGranted'
  BY <1>10 DEF ReadApplication, At, Goto, Read, storeVars, Given
<1>11. ASSUME NEW r \in Requests, MarkApplication(r) PROVE RolesAreGranted'
  BY <1>11 DEF MarkApplication, At, Goto, Read, historyVars, Given
<1>12. ASSUME NEW r \in Requests, RequestFails(r) PROVE RolesAreGranted'
  BY <1>12 DEF RequestFails, At, Goto, Read, storeVars, Given
<1>13. CASE Restart
  BY <1>13 DEF Restart, Cut, At, Given
<1>14. CASE UNCHANGED vars
  BY <1>14 DEF vars, storeVars, historyVars, At, Given
<1> QED
  BY <1>1, <1>2, <1>3, <1>5, <1>6, <1>7, <1>8, <1>9, <1>10, <1>11, <1>12, <1>13, <1>14
  DEF Next, RequestNext

LEMMA NextReviewIsAlone == IInv /\ [Next]_vars => ReviewIsAlone'
<1> SUFFICES ASSUME IInv, [Next]_vars PROVE ReviewIsAlone'
  OBVIOUS
<1> USE MembershipsAssumption, ValuesAssumption, GivenIsRole DEF IInv, TypeOK, Stages, StagesFollowKind, ReviewIsAlone
<1>1. ASSUME NEW r \in Requests, ReadPrevious(r) PROVE ReviewIsAlone'
  BY <1>1 DEF ReadPrevious, At, Read, storeVars, Reviewing, Of, Admitting, WroteRow, Given
<1>2. ASSUME NEW r \in Requests, CountOwners(r) PROVE ReviewIsAlone'
  BY <1>2 DEF CountOwners, At, Goto, Read, storeVars, historyVars, Reviewing, Of, Admitting, WroteRow, Given
<1>3. ASSUME NEW r \in Requests, WriteRow(r) PROVE ReviewIsAlone'
  BY <1>3 DEF WriteRow, At, Goto, Read, Reviewing, Of, Admitting, WroteRow, Given
<1>5. ASSUME NEW r \in Requests, Grant(r) PROVE ReviewIsAlone'
  BY <1>5 DEF Grant, Revoked, At, Goto, Read, historyVars, Reviewing, Of, Admitting, WroteRow, Given
<1>6. ASSUME NEW r \in Requests, AssignRead(r) PROVE ReviewIsAlone'
  BY <1>6 DEF AssignRead, At, Read, storeVars, historyVars, Reviewing, Of, Admitting, WroteRow, Given
<1>7. ASSUME NEW r \in Requests, AssignWrite(r) PROVE ReviewIsAlone'
  BY <1>7 DEF AssignWrite, At, Goto, Read, historyVars, Reviewing, Of, Admitting, WroteRow, Given
<1>8. ASSUME NEW r \in Requests, ApplyCheck(r) PROVE ReviewIsAlone'
  BY <1>8 DEF ApplyCheck, At, Goto, Read, storeVars, historyVars, Reviewing, Of, Admitting, WroteRow, Given
<1>9. ASSUME NEW r \in Requests, ApplyWrite(r) PROVE ReviewIsAlone'
  BY <1>9 DEF ApplyWrite, At, Goto, Read, Reviewing, Of, Admitting, WroteRow, Given
<1>10. ASSUME NEW r \in Requests, ReadApplication(r) PROVE ReviewIsAlone'
  BY <1>10 DEF ReadApplication, At, Goto, Read, storeVars, Reviewing, Of, Admitting, WroteRow, Given
<1>11. ASSUME NEW r \in Requests, MarkApplication(r) PROVE ReviewIsAlone'
  BY <1>11 DEF MarkApplication, At, Goto, Read, historyVars, Reviewing, Of, Admitting, WroteRow, Given
<1>12. ASSUME NEW r \in Requests, RequestFails(r) PROVE ReviewIsAlone'
  BY <1>12 DEF RequestFails, WroteRow, At, Goto, Read, storeVars, Reviewing, Of, Admitting, WroteRow, Given
<1>13. CASE Restart
  BY <1>13 DEF Restart, Cut, WroteRow, At, Reviewing, Of, Admitting, WroteRow, Given
<1>14. CASE UNCHANGED vars
  BY <1>14 DEF vars, storeVars, historyVars, Reviewing, Of, Admitting, WroteRow, Given
<1> QED
  BY <1>1, <1>2, <1>3, <1>5, <1>6, <1>7, <1>8, <1>9, <1>10, <1>11, <1>12, <1>13, <1>14
  DEF Next, RequestNext


-----------------------------------------------------------------------------
LEMMA NextIInv == IInv /\ [Next]_vars => IInv'
<1> SUFFICES ASSUME IInv, [Next]_vars PROVE IInv'
  OBVIOUS
<1>1. TypeOK'
  BY NextTypeOK DEF IInv
<1> QED
  BY <1>1, NextStages, NextSavesAreAlone, NextOwnerStays, NextGrantsFollowRows,
     NextRolesAreGranted, NextReviewIsAlone DEF IInv

LEMMA SpecIInv == Spec => []IInv
  BY InitIInv, NextIInv, PTL DEF Spec

\* Type correctness: rows and grants hold roles, a request is at a stage of
\* its handler (sys_membership.go, sys_tenant_application.go).
THEOREM MembershipTypes == Spec => []TypeOK
<1>1. IInv => TypeOK
  BY DEF IInv
<1> QED
  BY <1>1, SpecIInv, PTL

\* The last owner's role is never taken by saves that do not overlap
\* (sys_membership.go:204-215), whatever fails and however often the process
\* is restarted.
THEOREM OwnerRemains == Spec => []TenantHasOwner
<1>1. IInv => TenantHasOwner
  BY DEF IInv, OwnerStays, TenantHasOwner
<1> QED
  BY <1>1, SpecIInv, PTL

\* Casbin grants a user only roles the row has had, and the row's role among
\* them (sys_membership.go:224-253) once the saves of the user are done, however
\* they overlap; but after a save that ended between the row and the grant,
\* until the next start.
THEOREM GrantsCoverRoles == Spec => []GrantsCoverRole
<1>1. IInv => GrantsCoverRole
  BY DEF IInv, TypeOK, GrantsFollowRows, RolesAreGranted, GrantsCoverRole, Saving, WroteRow, At
<1> QED
  BY <1>1, SpecIInv, PTL

\* A rejected applicant was not admitted (sys_tenant_application.go:99-129) by
\* an application that one review at a time looked at, and to its end.
THEOREM RejectedStaysOut == Spec => []RejectedIsNotAdmitted
<1>1. IInv => RejectedIsNotAdmitted
  BY DEF IInv, TypeOK, ReviewIsAlone, RejectedIsNotAdmitted
<1> QED
  BY <1>1, SpecIInv, PTL
=============================================================================
