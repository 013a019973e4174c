--------------------------- MODULE MCKaedeRequests ---------------------------
(* A small instance of every component of KaedeRequests.  One behaviour    *)
(* runs one component, so the components share their model values: x1 and  *)
(* x2 are requests, the others mostly what the requests are about.        *)
EXTENDS KaedeRequests, TLC

CONSTANTS x1, x2, y1, y2, z1, z2, w1, w2

UploadContents ==
    [o \in Objects |->
        CASE o = Raw("metadata") -> {"good", "bad"}
          [] o = Raw("acce") -> {"good", "legacy"}
          [] o = Asset("acce") -> {"good", "empty", "backwards"}
          [] OTHER -> {"good"}]

ReportedBy == [f \in Failures |-> f]

NeedsOrigin == [p \in Pipelines |-> Parameters]

Body(given, groundTruth, retryOf) ==
    [recordings |-> Recordings, pipelines |-> Pipelines, given |-> [p \in Pipelines |-> given],
     groundTruth |-> groundTruth, retryOf |-> retryOf]

FirstRunAndRetry == {Body({}, TRUE, NoRun), Body(Parameters, FALSE, x1)}

SecondRowElsewhere == [r \in Rows |-> IF r = 2 THEN "other lab" ELSE "lab"]

(* Rows 1 and 3 are of one organization; row 1 may be the later one.       *)
FirstRowMayBeLater == [r \in Rows |-> IF r = 1 THEN {0, 1} ELSE {0}]

SuspendedInTheLab ==
    [o \in Organizations |-> IF o = "lab" THEN Memberships \ {"member"} ELSE {"member"}]

(* x1 and x2 are not alike: FirstRunAndRetry names x1.                     *)
Symmetry == Permutations({y1, y2}) \cup Permutations({z1, z2}) \cup Permutations({w1, w2})
==============================================================================
