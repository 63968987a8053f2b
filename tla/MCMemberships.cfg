SPECIFICATION Spec
CONSTANTS
  ann = ann
  ben = ben
  owner = owner
  member = member
  promote = promote
  demote = demote
  assign = assign
  apply1 = apply1
  apply2 = apply2
  approve = approve
  reject = reject
  NoRole = NoRole
  NoRow = NoRow
  Users = {ann, ben}
  Roles = {owner, member}
  Owner = owner
  DefaultRole = member
  FirstOwner = ann
  Bootstrap = {ann}
  Requests = {promote, demote, assign, apply1, apply2, approve, reject}
  Kind <- MCKind
  UserOf <- MCUserOf
  RoleOf <- MCRoleOf
  MaxCrashes = 1
CHECK_DEADLOCK FALSE
INVARIANTS
  TypeOK
  GrantsCoverRole
  TenantHasOwner
  RejectedIsNotAdmitted
