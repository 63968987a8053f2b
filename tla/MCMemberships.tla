--------------------------- MODULE MCMemberships ----------------------------
(* An owner and an applicant: the applicant applies twice and is reviewed   *)
(* twice, while roles are given and taken and an organization is assigned.  *)
EXTENDS Memberships

CONSTANTS ann, ben, owner, member, promote, demote, assign, apply1, apply2,
          approve, reject

MCKind == [r \in Requests |->
  CASE r \in {promote, demote} -> "save" [] r = assign -> "assign"
    [] r \in {apply1, apply2} -> "apply" [] r = approve -> "approve" [] OTHER -> "reject"]
MCUserOf == [r \in Requests |-> IF r = demote THEN ann ELSE ben]
MCRoleOf == [r \in Requests |-> IF r = promote THEN owner ELSE member]
=============================================================================
