---------------------------- MODULE BuildContract ----------------------------
(***************************************************************************)
(* What a disk image build promises to its caller, whatever commands it    *)
(* runs: kernel resources (loop device, partition maps, LUKS mapping,      *)
(* mounts) form a stack; nothing is taken any more once something failed;  *)
(* the image file is written only while nothing is held; and success is    *)
(* reported only for a complete image and an empty stack.                  *)
(*                                                                         *)
(* Builder.Build (builder.go) implements it, see Contract in Builder.tla.  *)
(***************************************************************************)
CONSTANTS
    Resources,          \* kernel resources a build may hold
    Users               \* Users[r]: the resources that keep r busy

VARIABLES
    status,             \* progress of the build
    held,               \* the resources that exist on the host
    image               \* the converted image file

contractVars == <<status, held, image>>

Statuses == {"building", "sealed", "failing", "succeeded", "failed"}

Init ==
    /\ status = "building"
    /\ held = {}
    /\ image = "none"

(* A resource is created; the command that creates it may fail all the same. *)
Acquire(r) ==
    /\ status = "building"
    /\ held' = held \cup {r}
    /\ status' \in {"building", "failing"}
    /\ UNCHANGED image

(* A resource nothing uses any more goes away; the command that releases it *)
(* may report an error all the same, and the last release seals the disk.   *)
Release(r) ==
    /\ status \in {"building", "failing"}
    /\ r \in held
    /\ Users[r] \cap held = {}
    /\ held' = held \ {r}
    /\ \/ status' = status
       \/ status' = "failing"
       \/ status = "building" /\ held' = {} /\ status' = "sealed"
    /\ UNCHANGED image

(* The image is written, completely or not, from a disk nothing has open. *)
Write ==
    /\ status = "sealed" /\ image = "none"
    /\ \/ image' = "complete" /\ status' = "sealed"
       \/ image' \in {"none", "partial", "complete"} /\ status' = "failing"
    /\ UNCHANGED held

(* Something failed, and stays so. *)
Fail ==
    /\ status \in {"building", "sealed"}
    /\ status' = "failing"
    /\ UNCHANGED <<held, image>>

(* The build returns. *)
Return ==
    /\ \/ status = "sealed" /\ held = {} /\ image = "complete" /\ status' = "succeeded"
       \/ status = "failing" /\ status' = "failed"
    /\ UNCHANGED <<held, image>>

(* The caller has moved the image away, or throws it away. *)
Dispose ==
    /\ status \in {"succeeded", "failed"}
    /\ image' = "none"
    /\ UNCHANGED <<status, held>>

Next ==
    \/ \E r \in Resources : Acquire(r) \/ Release(r)
    \/ Write \/ Fail \/ Return \/ Dispose

Spec == Init /\ [][Next]_contractVars
==============================================================================
