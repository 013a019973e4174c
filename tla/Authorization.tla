---------------------------- MODULE Authorization ----------------------------
(***************************************************************************)
(* What a request may do, decided from what was loaded about its client.   *)
(* An actor is a record: type, global_role, and for every organization the *)
(* role of its membership, "none" without one.  A guard is an answer: "ok" *)
(* or the error the client is told.                                        *)
(***************************************************************************)
EXTENDS Naturals

roleRanks == [none |-> 0, member |-> 1, manager |-> 2, owner |-> 3]

roleAtLeast(actual, required) == roleRanks[actual] >= roleRanks[required]

findMembership(actor, o) == IF actor.type = "service_client" THEN "none" ELSE actor.memberships[o]

isUnrestrictedActor(actor) == actor.type = "service_client" \/ actor.global_role = "admin"

WithoutMembership(actor, o) == findMembership(actor, o) = "none"

requireOrganizationMember(actor, o) ==
    IF isUnrestrictedActor(actor) \/ ~WithoutMembership(actor, o) THEN "ok" ELSE "AUTH_ORGANIZATION_FORBIDDEN"

requireOrganizationManager(actor, o) ==
    CASE isUnrestrictedActor(actor) \/ roleAtLeast(findMembership(actor, o), "manager") -> "ok"
      [] WithoutMembership(actor, o) -> "AUTH_ORGANIZATION_FORBIDDEN"
      [] OTHER -> "AUTH_DASHBOARD_FORBIDDEN"

(* own: the pedestrian of the recording is the user's.                     *)
requireRecordingAccess(actor, o, own) ==
    IF \/ isUnrestrictedActor(actor)
       \/ roleAtLeast(findMembership(actor, o), "manager")
       \/ own /\ ~WithoutMembership(actor, o)
    THEN "ok" ELSE "AUTH_ORGANIZATION_FORBIDDEN"

(* The organizations a query over all of them is narrowed to.              *)
accessibleOrganizationIds(actor, all) == {o \in all : requireOrganizationMember(actor, o) = "ok"}

managerOrganizationIds(actor, all) == {o \in all : requireOrganizationManager(actor, o) = "ok"}

requireDashboardReadAccess(actor, all) ==
    IF isUnrestrictedActor(actor) \/ managerOrganizationIds(actor, all) # {} THEN "ok"
    ELSE "AUTH_DASHBOARD_FORBIDDEN"

------------------------------------------------------------------------------
(* The guards of usecases/organizations/index.ts: they take a session, not *)
(* the actor of the middleware, and count an active membership only.       *)

requireSessionUser(actor) == IF actor.type = "user" THEN "ok" ELSE "AUTH_UNAUTHENTICATED"

requireAdmin(actor) ==
    CASE requireSessionUser(actor) # "ok" -> requireSessionUser(actor)
      [] actor.global_role = "admin" -> "ok"
      [] OTHER -> "AUTH_FORBIDDEN"

requireOrganizationManagerOrAdmin(actor, o) ==
    IF roleAtLeast(findMembership(actor, o), "manager") THEN "ok" ELSE requireAdmin(actor)

requireOrganizationMemberOrAdmin(actor, o) ==
    IF roleAtLeast(findMembership(actor, o), "member") THEN "ok" ELSE requireAdmin(actor)
==============================================================================
