------------------------- MODULE MCOrganizationReads -------------------------
(* A small instance of OrganizationReads alone, for TLC.                   *)
EXTENDS OrganizationReads

ManagerOrNot == [o \in Organizations |-> {"none", "manager"}]

TwoStamps == [r \in Rows |-> {0, 1}]

OneOrganization == [r \in Rows |-> "lab"]
==============================================================================
