---------------------------- MODULE FloorResources ----------------------------
(***************************************************************************)
(* Floors with their map images, and the beacons on them.  A floor is made *)
(* by two writes to two stores: the image goes to the object store first,  *)
(* then the row to the database, and a failed insert takes the image away. *)
(* A new beacon is counted and inserted under a lock of its floor; a patch *)
(* reads the beacon without a lock and writes back what it did not change. *)
(*                                                                         *)
(* Names and iBeacon identities are unique in the same way; the model      *)
(* keeps the identities.                                                   *)
(***************************************************************************)
EXTENDS Naturals, FiniteSets

CONSTANTS
    FloorRequests,   \* a request makes the floor of its name
    BeaconRequests,  \* a request makes the beacon of its name
    BeaconPatches,
    Identities,
    Positions,
    OnMap,           \* positions inside the image of a floor
    BeaconLimit,     \* 1000 in the code
    NoBeacon

ASSUME FloorConstantsOK ==
    /\ OnMap \subseteq Positions
    /\ BeaconLimit \in Nat /\ IsFiniteSet(BeaconRequests)
    /\ NoBeacon \notin BeaconRequests \cup FloorRequests \cup Identities \cup Positions

VARIABLES
    floorRow,      \* floor: "none", "live", "deleted"
    floorImages,   \* floors whose image is in the object store
    floorStep,     \* request: what it does next
    unheard,       \* floors inserted by a statement whose answer was lost
    beaconRow,     \* beacon: its row, the floor NoBeacon before the insert
    beaconStep,    \* beacon request: what it does next
    beaconAsked,   \* beacon request: the row it would insert
    patchStep,     \* patch: what it does next
    patching       \* patch: the beacon, what it read and what it sets

floorVars  == <<floorRow, floorImages, floorStep, unheard>>
beaconVars == <<beaconRow, beaconStep, beaconAsked, patchStep, patching>>
resourceVars == <<floorVars, beaconVars>>

BeaconRows == [floor : FloorRequests \cup {NoBeacon}, position : Positions \cup {NoBeacon},
               identity : Identities \cup {NoBeacon}, deleted : BOOLEAN]
NoRow == [floor |-> NoBeacon, position |-> NoBeacon, identity |-> NoBeacon, deleted |-> FALSE]
PatchRecords == [beacon : BeaconRequests \cup {NoBeacon}, position : Positions \cup {NoBeacon},
                 identity : Identities \cup {NoBeacon}]
NoPatch == [beacon |-> NoBeacon, position |-> NoBeacon, identity |-> NoBeacon]

FloorsTypeOK ==
    /\ floorRow \in [FloorRequests -> {"none", "live", "deleted"}]
    /\ floorImages \subseteq FloorRequests /\ unheard \subseteq FloorRequests
    /\ floorStep \in [FloorRequests -> {"idle", "insert", "cleanup", "over"}]
    /\ beaconRow \in [BeaconRequests -> BeaconRows]
    /\ beaconStep \in [BeaconRequests -> {"idle", "lock", "count", "insert", "over"}]
    /\ beaconAsked \in [BeaconRequests -> BeaconRows]
    /\ patchStep \in [BeaconPatches -> {"idle", "write", "over"}]
    /\ patching \in [BeaconPatches -> PatchRecords]

FloorsInit ==
    /\ floorRow = [f \in FloorRequests |-> "none"]
    /\ floorImages = {} /\ unheard = {}
    /\ floorStep = [f \in FloorRequests |-> "idle"]
    /\ beaconRow = [b \in BeaconRequests |-> NoRow]
    /\ beaconStep = [b \in BeaconRequests |-> "idle"]
    /\ beaconAsked = [b \in BeaconRequests |-> NoRow]
    /\ patchStep = [w \in BeaconPatches |-> "idle"]
    /\ patching = [w \in BeaconPatches |-> NoPatch]

FloorGoesTo(f, step) == floorStep' = [floorStep EXCEPT ![f] = step]

------------------------------------------------------------------------------
(* Floors.                                                                 *)

(* Building and image were found in order; the put may fail.               *)
PutFloorMap(f) ==
    /\ floorStep[f] = "idle"
    /\ \/ floorImages' = floorImages \cup {f} /\ FloorGoesTo(f, "insert")
       \/ UNCHANGED floorImages /\ FloorGoesTo(f, "over")
    /\ UNCHANGED <<floorRow, unheard, beaconVars>>

InsertFloor(f) ==
    /\ floorStep[f] = "insert"
    /\ \E inserted \in BOOLEAN :
          /\ floorRow' = [floorRow EXCEPT ![f] = IF inserted THEN "live" ELSE "none"]
          /\ FloorGoesTo(f, IF inserted THEN "over" ELSE "cleanup")
    /\ UNCHANGED <<floorImages, unheard, beaconVars>>

(* The row is stored, but the connection breaks before the answer: to the  *)
(* caller that is a failure too, and the image goes away.                  *)
InsertFloorUnheard(f) ==
    /\ floorStep[f] = "insert"
    /\ floorRow' = [floorRow EXCEPT ![f] = "live"]
    /\ unheard' = unheard \cup {f}
    /\ FloorGoesTo(f, "cleanup")
    /\ UNCHANGED <<floorImages, beaconVars>>

(* The deletion may fail, which leaves an image nobody refers to.          *)
DeleteFloorMap(f) ==
    /\ floorStep[f] = "cleanup"
    /\ \/ floorImages' = floorImages \ {f}
       \/ UNCHANGED floorImages
    /\ FloorGoesTo(f, "over")
    /\ UNCHANGED <<floorRow, unheard, beaconVars>>

FloorProcessDies(f) ==
    /\ floorStep[f] \in {"insert", "cleanup"}
    /\ FloorGoesTo(f, "over")
    /\ UNCHANGED <<floorRow, floorImages, unheard, beaconVars>>

(* The image and the beacons stay.                                         *)
SoftDeleteFloor(f) ==
    /\ floorRow[f] = "live"
    /\ floorRow' = [floorRow EXCEPT ![f] = "deleted"]
    /\ UNCHANGED <<floorImages, floorStep, unheard, beaconVars>>

------------------------------------------------------------------------------
(* Beacons.                                                                *)

CheckCoordinates(position) == position \in OnMap

LiveBeacons == {b \in BeaconRequests : beaconRow[b].floor # NoBeacon /\ ~beaconRow[b].deleted}

IdentityTaken(i, b) == \E c \in LiveBeacons \ {b} : beaconRow[c].identity = i

BeaconGoesTo(b, step) == beaconStep' = [beaconStep EXCEPT ![b] = step]

AskForBeacon(b, f, position, i) ==
    /\ beaconStep[b] = "idle"
    /\ IF floorRow[f] = "live" /\ CheckCoordinates(position)
       THEN /\ beaconAsked' = [beaconAsked EXCEPT ![b] =
                  [floor |-> f, position |-> position, identity |-> i, deleted |-> FALSE]]
            /\ BeaconGoesTo(b, "lock")
       ELSE UNCHANGED beaconAsked /\ BeaconGoesTo(b, "over")
    /\ UNCHANGED <<floorVars, beaconRow, patchStep, patching>>

(* Mutant: the floor is read without FOR UPDATE.                           *)
FloorNeverLocked(f) == TRUE

FloorUnlocked(f) ==
    \A c \in BeaconRequests : beaconStep[c] \in {"count", "insert"} => beaconAsked[c].floor # f

(* A floor that has been deleted meanwhile is locked all the same.         *)
LockFloor(b) ==
    /\ beaconStep[b] = "lock"
    /\ FloorUnlocked(beaconAsked[b].floor)
    /\ BeaconGoesTo(b, "count")
    /\ UNCHANGED <<floorVars, beaconRow, beaconAsked, patchStep, patching>>

CountOnFloor(b) ==
    /\ beaconStep[b] = "count"
    /\ LET there == {c \in LiveBeacons : beaconRow[c].floor = beaconAsked[b].floor}
       IN BeaconGoesTo(b, IF Cardinality(there) >= BeaconLimit THEN "over" ELSE "insert")
    /\ UNCHANGED <<floorVars, beaconRow, beaconAsked, patchStep, patching>>

(* The insert and the commit, or a conflict, or another failure.           *)
InsertBeacon(b) ==
    /\ beaconStep[b] = "insert"
    /\ \/ /\ ~IdentityTaken(beaconAsked[b].identity, b)
          /\ beaconRow' = [beaconRow EXCEPT ![b] = beaconAsked[b]]
       \/ UNCHANGED beaconRow
    /\ BeaconGoesTo(b, "over")
    /\ UNCHANGED <<floorVars, beaconAsked, patchStep, patching>>

PatchGoesTo(w, step) == patchStep' = [patchStep EXCEPT ![w] = step]

(* The position is written back even when the patch does not set it; the   *)
(* identity only when a part of it is set.                                 *)
ReadForPatch(w, b, position, i) ==
    /\ patchStep[w] = "idle"
    /\ LET next == IF position = NoBeacon THEN beaconRow[b].position ELSE position IN
       IF b \in LiveBeacons /\ floorRow[beaconRow[b].floor] = "live" /\ CheckCoordinates(next)
       THEN /\ patching' = [patching EXCEPT ![w] = [beacon |-> b, position |-> next, identity |-> i]]
            /\ PatchGoesTo(w, "write")
       ELSE UNCHANGED patching /\ PatchGoesTo(w, "over")
    /\ UNCHANGED <<floorVars, beaconRow, beaconStep, beaconAsked>>

UpdateBeacon(w) ==
    /\ patchStep[w] = "write"
    /\ LET b == patching[w].beacon
           i == IF patching[w].identity = NoBeacon THEN beaconRow[b].identity ELSE patching[w].identity
       IN beaconRow' = IF b \in LiveBeacons /\ ~IdentityTaken(i, b)
                       THEN [beaconRow EXCEPT ![b].position = patching[w].position, ![b].identity = i]
                       ELSE beaconRow
    /\ PatchGoesTo(w, "over")
    /\ UNCHANGED <<floorVars, beaconStep, beaconAsked, patching>>

SoftDeleteBeacon(b) ==
    /\ b \in LiveBeacons
    /\ beaconRow' = [beaconRow EXCEPT ![b].deleted = TRUE]
    /\ UNCHANGED <<floorVars, beaconStep, beaconAsked, patchStep, patching>>

FloorsNext ==
    \/ \E f \in FloorRequests :
          \/ PutFloorMap(f) \/ InsertFloor(f) \/ InsertFloorUnheard(f) \/ DeleteFloorMap(f)
          \/ FloorProcessDies(f) \/ SoftDeleteFloor(f)
    \/ \E b \in BeaconRequests :
          \/ LockFloor(b) \/ CountOnFloor(b) \/ InsertBeacon(b) \/ SoftDeleteBeacon(b)
          \/ \E f \in FloorRequests, position \in Positions, i \in Identities :
                AskForBeacon(b, f, position, i)
    \/ \E w \in BeaconPatches :
          \/ UpdateBeacon(w)
          \/ \E b \in BeaconRequests, position \in Positions \cup {NoBeacon},
                i \in Identities \cup {NoBeacon} : ReadForPatch(w, b, position, i)

FloorsSpec == FloorsInit /\ [][FloorsNext]_resourceVars

------------------------------------------------------------------------------
(* No floor refers to an image that is not there, unless the answer to its *)
(* insert was lost.                                                        *)
FloorHasImage ==
    \A f \in FloorRequests : floorRow[f] # "none" => f \in floorImages \cup unheard

(* However creations and patches race, a floor has no more beacons than    *)
(* the limit, no two of them share an identity, and each is on the map.    *)
BeaconsInOrder ==
    /\ \A f \in FloorRequests : Cardinality({b \in LiveBeacons : beaconRow[b].floor = f}) <= BeaconLimit
    /\ \A b, c \in LiveBeacons : b # c => beaconRow[b].identity # beaconRow[c].identity
    /\ \A b \in LiveBeacons : beaconRow[b].position \in OnMap

(* What createFloor, the lock in insertBeaconWithFloorLock and the unique  *)
(* index on beacons keep together.                                         *)
FloorResourcesHold == FloorHasImage /\ BeaconsInOrder
=============================================================================
