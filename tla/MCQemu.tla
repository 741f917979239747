------------------------------- MODULE MCQemu -------------------------------
(* Instances of Qemu for TLC: two runs in one directory.                    *)
EXTENDS Qemu

CONSTANTS a, b, image, data, img1, img2

Two == {a, b}
Others == {data, img1, img2}
Images == <<img1, img2>>

Spec1(path, sized, format) == [path |-> path, sized |-> sized, format |-> format]

(* One disk of every form, or two of those that matter for one another:     *)
(* named, unnamed, and named as an unnamed one would be.                    *)
AnyDisks ==
    {<<>>} \cup {<<Spec1(f, s, t)>> : f \in {NoName, data, img1}, s \in BOOLEAN, t \in {"", "raw"}}
           \cup {<<Spec1(img2, TRUE, ""), Spec1(NoName, TRUE, "")>>,
                 <<Spec1(NoName, TRUE, ""), Spec1(data, FALSE, "")>>}

Run1(disks, arch, networking, ports, binaries, detached) ==
    [disks |-> disks, arch |-> arch, networking |-> networking, ports |-> ports,
     binaries |-> binaries, detached |-> detached]

Plain(disks) == Run1(disks, "x86_64", "user", TRUE, TRUE, FALSE)

(* A first run with any disks, detached or not, and one with every flag.    *)
First == {Plain(d) : d \in AnyDisks}
         \cup {Run1(<<Spec1(NoName, TRUE, "")>>, arch, net, ports, binaries, detached) :
                 arch \in {"x86_64", "other"}, net \in {"", "tap", "tap,x", "other"},
                 ports \in BOOLEAN, binaries \in BOOLEAN, detached \in BOOLEAN}

Second == {Plain(<<Spec1(NoName, TRUE, "")>>), Plain(<<Spec1(data, TRUE, "raw")>>),
           Plain(<<Spec1(NoName, TRUE, ""), Spec1(NoName, TRUE, "")>>)}

Dirs == {[f \in Files |-> IF f = Image THEN "qcow2" ELSE IF f = data THEN x
                          ELSE IF f = img1 THEN y ELSE Absent] :
           x \in {Absent, "raw"}, y \in {Absent, "qcow2"}}

AllScenarios ==
    [runs : {[p \in Two |-> IF p = a THEN x ELSE y] : x \in First, y \in Second},
     dir : Dirs, overlap : {FALSE}, fails : BOOLEAN]
    \cup
    [runs : {[p \in Two |-> y] : y \in Second}, dir : Dirs, overlap : {TRUE}, fails : {FALSE}]
=============================================================================
