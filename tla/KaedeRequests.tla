---------------------------- MODULE KaedeRequests ----------------------------
(***************************************************************************)
(* The components of Kaede that serve HTTP requests and share no table     *)
(* row that one of them changes and another relies on.  They are put side  *)
(* by side: a behaviour picks one of them and lets its requests race.      *)
(***************************************************************************)
EXTENDS RecordingUpload, UserAccounts, GoogleSignIn, OrganizationAccess,
        OrganizationOnboarding, OidcHandover, RunCreation, FloorResources,
        OrganizationReads, MemberProfiles

VARIABLE focus     \* the component whose requests run

Components == {"upload", "accounts", "google", "access", "onboarding", "handover",
               "creation", "resources", "reads", "profiles"}

kaedeVars == <<uploadVars, accountVars, googleVars, accessVars, onboardingVars, handoverVars,
                 creationVars, resourceVars, organizationReadVars, profileVars, focus>>

RequestsInit ==
    /\ UploadInit /\ AccountsInit /\ GoogleInit /\ AccessInit /\ OnboardingInit
    /\ HandoverInit /\ RunCreationInit /\ FloorsInit /\ ReadsInit /\ ProfilesInit
    /\ focus \in Components

UploadRuns ==
    /\ focus = "upload" /\ UploadNext
    /\ UNCHANGED <<accountVars, googleVars, accessVars, onboardingVars, handoverVars, creationVars,
                   resourceVars, organizationReadVars, profileVars, focus>>

AccountsRun ==
    /\ focus = "accounts" /\ AccountsNext
    /\ UNCHANGED <<uploadVars, googleVars, accessVars, onboardingVars, handoverVars, creationVars,
                   resourceVars, organizationReadVars, profileVars, focus>>

GoogleRuns ==
    /\ focus = "google" /\ GoogleNext
    /\ UNCHANGED <<uploadVars, accountVars, accessVars, onboardingVars, handoverVars, creationVars,
                   resourceVars, organizationReadVars, profileVars, focus>>

AccessRuns ==
    /\ focus = "access" /\ AccessNext
    /\ UNCHANGED <<uploadVars, accountVars, googleVars, onboardingVars, handoverVars, creationVars,
                   resourceVars, organizationReadVars, profileVars, focus>>

OnboardingRuns ==
    /\ focus = "onboarding" /\ OnboardingNext
    /\ UNCHANGED <<uploadVars, accountVars, googleVars, accessVars, handoverVars, creationVars,
                   resourceVars, organizationReadVars, profileVars, focus>>

HandoverRuns ==
    /\ focus = "handover" /\ HandoverNext
    /\ UNCHANGED <<uploadVars, accountVars, googleVars, accessVars, onboardingVars, creationVars,
                   resourceVars, organizationReadVars, profileVars, focus>>

CreationRuns ==
    /\ focus = "creation" /\ RunCreationNext
    /\ UNCHANGED <<uploadVars, accountVars, googleVars, accessVars, onboardingVars, handoverVars,
                   resourceVars, organizationReadVars, profileVars, focus>>

ResourcesRun ==
    /\ focus = "resources" /\ FloorsNext
    /\ UNCHANGED <<uploadVars, accountVars, googleVars, accessVars, onboardingVars, handoverVars,
                   creationVars, organizationReadVars, profileVars, focus>>

ReadsRun ==
    /\ focus = "reads" /\ ReadsNext
    /\ UNCHANGED <<uploadVars, accountVars, googleVars, accessVars, onboardingVars, handoverVars,
                   creationVars, resourceVars, profileVars, focus>>

ProfilesRun ==
    /\ focus = "profiles" /\ ProfilesNext
    /\ UNCHANGED <<uploadVars, accountVars, googleVars, accessVars, onboardingVars, handoverVars,
                   creationVars, resourceVars, organizationReadVars, focus>>

RequestsNext ==
    \/ UploadRuns \/ AccountsRun \/ GoogleRuns \/ AccessRuns \/ OnboardingRuns
    \/ HandoverRuns \/ CreationRuns \/ ResourcesRun \/ ReadsRun
    \/ ProfilesRun

RequestsSpec == RequestsInit /\ [][RequestsNext]_kaedeVars

(* Every table, object and request of these components keeps its shape.    *)
RequestsTypeOK ==
    /\ UploadTypeOK /\ AccountsTypeOK /\ GoogleTypeOK /\ AccessTypeOK /\ OnboardingTypeOK
    /\ HandoverTypeOK /\ RunCreationTypeOK /\ FloorsTypeOK /\ ReadsTypeOK
    /\ ProfilesTypeOK
=============================================================================
