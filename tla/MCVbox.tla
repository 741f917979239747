------------------------------- MODULE MCVbox -------------------------------
(* Instances of Vbox for TLC: two runs, their flags and what may fail.      *)
EXTENDS Vbox

CONSTANTS a, b, image, vdi, data1, data2, img1, img2

Two == {a, b}
UserData == {data1, data2, img1, img2}
Images == <<img1, img2>>

Disk(path) == [path |-> path, sized |-> FALSE, format |-> ""]
NoDisk == <<>>
OneDisk == <<Disk(data1)>>
TwoDisks == <<Disk(data1), Disk(data2)>>

(* Another disk, sized ones without a path, and one that is refused.        *)
Sized(format) == [path |-> NoPath, sized |-> TRUE, format |-> format]
OtherDisk == <<Disk(data2)>>
Unnamed == <<Sized("")>>
BadDisk == <<Sized("other")>>

Scenario(flagsA, flagsB, overlap, flaky, interrupts, kills) ==
    [runs : {[p \in Two |-> IF p = a THEN x ELSE y] : x \in flagsA, y \in flagsB},
     overlap : overlap, flaky : flaky, interrupts : interrupts, kills : kills]

Flags(disks) == [vdi : BOOLEAN, disks : disks]

(* Runs that follow one another: everything but what a property relies on   *)
(* may fail or be interrupted, or nothing is and the runs may be killed.    *)
AnyDisks == {NoDisk, OneDisk, TwoDisks, Unnamed, BadDisk}

OneAfterAnother ==
    Scenario(Flags(AnyDisks), Flags({OtherDisk, TwoDisks}), {FALSE},
             {{"info", "listen", "term", "accept"}}, {Clients \ {"poweroff", "detach"}}, {FALSE})
    \cup Scenario(Flags(AnyDisks), Flags({OtherDisk}), {FALSE},
                  {Commands \ {"poweroff", "unregister"}}, {{"start", "createvm", "attach"}}, {FALSE})
    \cup Scenario(Flags({OneDisk}), Flags({NoDisk}), {FALSE},
                  {{"unregister", "networks"}}, {{}}, {FALSE})
    \cup Scenario(Flags(AnyDisks), Flags({OtherDisk, TwoDisks}), {FALSE}, {{}}, {{}}, {TRUE})

(* Runs that overlap. *)
Overlapping ==
    Scenario(Flags({OneDisk}), Flags({OneDisk}), {TRUE},
             {{"start", "attach", "term", "accept", "unregister"}, {"convert", "detach"}}, {{}}, {FALSE})
    \cup Scenario(Flags({OneDisk}), Flags({OneDisk}), {TRUE}, {{"term"}}, {{"start"}}, {FALSE})
    \cup Scenario([vdi : {FALSE}, disks : {OneDisk}], [vdi : {TRUE}, disks : {NoDisk}], {TRUE},
                  {{"start"}}, {{}}, {TRUE})

AllScenarios == OneAfterAnother \cup Overlapping
=============================================================================
