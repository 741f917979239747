-------------------------------- MODULE Qemu --------------------------------
(***************************************************************************)
(* `d2vm run qemu` (cmd/d2vm/run/qemu.go, pkg/qemu): the flags are         *)
(* completed and the command line of qemu is built, the disks that do not  *)
(* exist are created, and qemu is run on the image and the disks.          *)
(*                                                                         *)
(* Runs share the directory where unnamed disks are created, and the files *)
(* their flags name: what one created, and its guest wrote, another finds. *)
(* They follow one another, or overlap.  An interrupt kills qemu.          *)
(***************************************************************************)
EXTENDS Naturals, Sequences, FiniteSets

CONSTANTS
    Proc,        \* the runs
    Image,       \* the image they are given
    Names,       \* the other files in their directory
    DiskImg,     \* DiskImg[i]: the name of disk i when it is given none
    NoName,      \* no name
    Scenarios    \* what the user runs and what may go wrong, see ScenarioType

MaxDisks == Len(DiskImg)

Formats == {"raw", "qcow2"}

(* A --disk, as Disks.Set parses it: a size is only told apart from none.   *)
DiskSpec == [path : Names \cup {NoName}, sized : BOOLEAN, format : Formats \cup {""}]

Arches == {"x86_64", "aarch64", "s390x"}

(* The values of --networking, those with an argument and those without     *)
Networks == {"", "default", "user", "none", "tap", "tap,x", "bridge", "bridge,x", "other"}

(* ports: whether the --publish flags parse; binaries: qemu is installed    *)
RunType == [disks : UNION {[1..n -> DiskSpec] : n \in 0..MaxDisks}, arch : Arches \cup {"other"},
            networking : Networks, ports : BOOLEAN, binaries : BOOLEAN, detached : BOOLEAN]

Files == Names \cup {Image}

(* The format of a file, or that there is none.                             *)
Absent == "absent"
Content == Formats \cup {Absent}

(* dir: the directory before the runs; overlap: a run may begin before the  *)
(* others ended; fails: a Stat, qemu-img create and qemu may fail by        *)
(* themselves                                                               *)
ScenarioType == [runs : [Proc -> RunType], dir : [Files -> Content], overlap : BOOLEAN,
                 fails : BOOLEAN]

Drive == [path : Files, format : Formats \cup {""}]

ASSUME QemuAssumption ==
    /\ Image \notin Names /\ NoName \notin Files
    /\ DiskImg \in Seq(Names)
    /\ Scenarios \subseteq ScenarioType
    /\ \A s \in Scenarios : s.dir[Image] # Absent

VARIABLES
    conf,        \* the scenario
    pc,          \* pc[p]: the step p is about to take
    cancelled,   \* the runs whose context is cancelled
    file,        \* file[f]: the format of file f
    wrote,       \* wrote[f]: the runs whose guests wrote what file f holds
    drives,      \* drives[p]: config.disks, which are the -drive options too
    at,          \* at[p]: the drives p has seen to
    booted       \* the runs whose qemu ran

vars == <<conf, pc, cancelled, file, wrote, drives, at, booted>>

------------------------------------------------------------------------------
Flags(p) == conf.runs[p]

Goto(p, next) == pc' = [pc EXCEPT ![p] = next]

Exists(f) == file[f] # Absent

(* Mutant: a default format qemu-img is not asked for elsewhere.            *)
CompletedVdi(d, i) ==
    [path |-> IF d.sized /\ d.path = NoName THEN DiskImg[i] ELSE d.path,
     format |-> IF d.sized /\ d.format = "" THEN "vdi" ELSE d.format]

(* Run's loop over the disks: a size makes a format and a name.             *)
Completed(d, i) ==
    [path |-> IF d.sized /\ d.path = NoName THEN DiskImg[i] ELSE d.path,
     format |-> IF d.sized /\ d.format = "" THEN "qcow2" ELSE d.format]

CompletedDisks(p) == [i \in DOMAIN Flags(p).disks |-> Completed(Flags(p).disks[i], i)]

(* Mutant: the loop's copy of the disk is not stored back.                  *)
AskedDrives(p) ==
    <<[path |-> Image, format |-> ""]>>
    \o [i \in DOMAIN Flags(p).disks |->
          [path |-> Completed(Flags(p).disks[i], i).path, format |-> Flags(p).disks[i].format]]

(* The image first, then the disks *)
Drives(p) == <<[path |-> Image, format |-> ""]>> \o CompletedDisks(p)

(* The errors before anything is done: a disk with neither size nor name, a *)
(* networking mode without its argument or unknown, no qemu, an             *)
(* architecture buildQemuCmdline does not know.  The published ports do not *)
(* reach it.                                                                *)
Refused(p) ==
    \/ ~Flags(p).ports
    \/ \E i \in DOMAIN CompletedDisks(p) : CompletedDisks(p)[i].path = NoName
    \/ Flags(p).networking \in {"tap", "bridge", "other"}
    \/ ~Flags(p).binaries
    \/ Flags(p).arch = "other"

(* A running qemu locks its files.                                          *)
Locked(f) == \E q \in Proc : pc[q] = "running" /\ \E k \in DOMAIN drives[q] : drives[q][k].path = f

Init ==
    /\ conf \in Scenarios
    /\ pc = [p \in Proc |-> "idle"]
    /\ cancelled = {}
    /\ file = conf.dir
    /\ wrote = [f \in Files |-> {}]
    /\ drives = [p \in Proc |-> <<>>]
    /\ at = [p \in Proc |-> 0]
    /\ booted = {}

(* Qemu and Run up to runQemuLocal's command line *)
Begin(p) ==
    /\ pc[p] = "idle"
    /\ conf.overlap \/ \A q \in Proc : pc[q] \in {"idle", "ended"}
    /\ IF Refused(p)
       THEN Goto(p, "ended") /\ UNCHANGED drives
       ELSE Goto(p, "stat") /\ drives' = [drives EXCEPT ![p] = Drives(p)]
    /\ UNCHANGED <<conf, cancelled, file, wrote, at, booted>>

This(p) == drives[p][at[p] + 1]

(* Mutant: every disk that has a size is created.                           *)
StatSized(p) ==
    /\ pc[p] = "stat"
    /\ IF at[p] = Len(drives[p]) THEN Goto(p, "launch") /\ UNCHANGED at
       ELSE IF at[p] = 0 \/ ~Flags(p).disks[at[p]].sized
            THEN at' = [at EXCEPT ![p] = @ + 1] /\ UNCHANGED pc
       ELSE Goto(p, "create") /\ UNCHANGED at
    /\ UNCHANGED <<conf, cancelled, file, wrote, drives, booted>>

(* os.Stat of a disk, any error of which but that it is not there is        *)
(* returned                                                                 *)
Stat(p) ==
    /\ pc[p] = "stat"
    /\ \/ at[p] = Len(drives[p]) /\ Goto(p, "launch") /\ UNCHANGED at
       \/ /\ at[p] # Len(drives[p])
          /\ \/ Exists(This(p).path) /\ at' = [at EXCEPT ![p] = @ + 1] /\ UNCHANGED pc
             \/ ~Exists(This(p).path) /\ Goto(p, "create") /\ UNCHANGED at
             \/ conf.fails /\ Goto(p, "ended") /\ UNCHANGED at
    /\ UNCHANGED <<conf, cancelled, file, wrote, drives, booted>>

(* qemu-img create -f of the disk's format, which a disk without a size     *)
(* may not have; it writes over a file that came meanwhile, unless locked.  *)
Create(p) ==
    /\ pc[p] = "create"
    /\ \/ /\ This(p).format # "" /\ ~Locked(This(p).path)
          /\ file' = [file EXCEPT ![This(p).path] = This(p).format]
          /\ wrote' = [wrote EXCEPT ![This(p).path] = {}]
          /\ at' = [at EXCEPT ![p] = @ + 1]
          /\ Goto(p, "stat")
       \/ /\ This(p).format = "" \/ Locked(This(p).path) \/ conf.fails
          /\ Goto(p, "ended") /\ UNCHANGED <<file, wrote, at>>
    /\ UNCHANGED <<conf, cancelled, drives, booted>>

(* qemu can open the drives: each is there, no other drive is on the same   *)
(* file, and the command line takes it for what it is, or for raw.          *)
Usable(p) ==
    /\ \A k \in DOMAIN drives[p] :
         /\ Exists(drives[p][k].path) /\ ~Locked(drives[p][k].path)
         /\ drives[p][k].format \in {"", "raw", file[drives[p][k].path]}
    /\ Cardinality({drives[p][k].path : k \in DOMAIN drives[p]}) = Len(drives[p])

(* qemuCmd.Run, unless detached, which is only refused now *)
Launch(p) ==
    /\ pc[p] = "launch"
    /\ \/ /\ ~Flags(p).detached /\ p \notin cancelled /\ Usable(p)
          /\ Goto(p, "running") /\ booted' = booted \cup {p}
       \/ /\ Flags(p).detached \/ p \in cancelled \/ ~Usable(p) \/ conf.fails
          /\ Goto(p, "ended") /\ booted' = booted
    /\ UNCHANGED <<conf, cancelled, file, wrote, drives, at>>

(* A guest on this drive writes over the file, instead of into the disk it  *)
(* holds.                                                                   *)
Overwrites(drive) == drive.format = "raw" /\ file[drive.path] # "raw"

(* The guest writes to one of its drives *)
GuestWrites(p) ==
    /\ pc[p] = "running"
    /\ \E k \in DOMAIN drives[p] :
         LET drive == drives[p][k]
         IN  \/ /\ ~Overwrites(drive)
                /\ wrote' = [wrote EXCEPT ![drive.path] = @ \cup {p}] /\ file' = file
             \/ /\ Overwrites(drive)
                /\ wrote' = [wrote EXCEPT ![drive.path] = {p}]
                /\ file' \in {file, [file EXCEPT ![drive.path] = "raw"]}
    /\ UNCHANGED <<conf, pc, cancelled, drives, at, booted>>

(* The guest shuts down *)
GuestStops(p) ==
    /\ pc[p] = "running" /\ Goto(p, "ended")
    /\ UNCHANGED <<conf, cancelled, file, wrote, drives, at, booted>>

(* Mutant: qemu is run without the context.                                 *)
KillQemuNot(p) ==
    /\ pc[p] = "running" /\ p \in cancelled /\ UNCHANGED vars

(* The cancelled context kills qemu *)
KillQemu(p) ==
    /\ pc[p] = "running" /\ p \in cancelled /\ Goto(p, "ended")
    /\ UNCHANGED <<conf, cancelled, file, wrote, drives, at, booted>>

Cancel(p) ==
    /\ pc[p] \notin {"idle", "ended"} /\ p \notin cancelled
    /\ cancelled' = cancelled \cup {p}
    /\ UNCHANGED <<conf, pc, file, wrote, drives, at, booted>>

Step(p) == Stat(p) \/ Create(p) \/ Launch(p) \/ KillQemu(p)

Ended == (\A p \in Proc : pc[p] = "ended") /\ UNCHANGED vars

Next == (\E p \in Proc : Begin(p) \/ Step(p) \/ GuestWrites(p) \/ GuestStops(p) \/ Cancel(p)) \/ Ended

(* A run that began goes on by itself; its guest need not stop.             *)
Spec == Init /\ [][Next]_vars /\ \A p \in Proc : WF_vars(Step(p))
------------------------------------------------------------------------------
(* Properties                                                               *)

TypeOK ==
    /\ conf \in Scenarios
    /\ pc \in [Proc -> {"idle", "stat", "create", "launch", "running", "ended"}]
    /\ cancelled \subseteq Proc /\ booted \subseteq Proc
    /\ file \in [Files -> Content]
    /\ wrote \in [Files -> SUBSET Proc]
    /\ drives \in [Proc -> Seq(Drive)]
    /\ at \in [Proc -> Nat] /\ \A p \in Proc : at[p] <= Len(drives[p])

(* The formats the flags of all runs give to file f, and the one it has.    *)
FormatsOf(f) ==
    {x \in Formats : \/ conf.dir[f] = x
                     \/ \E p \in Proc : \E i \in DOMAIN CompletedDisks(p) :
                          CompletedDisks(p)[i].path = f /\ CompletedDisks(p)[i].format = x}

(* A run asks for qemu, for disks that are there or have a size, each on a  *)
(* file of its own, and nobody asks for one of them in another format.      *)
Sound(p) ==
    LET d == CompletedDisks(p)
    IN  /\ ~Refused(p) /\ ~Flags(p).detached
        /\ \A i \in DOMAIN d :
             /\ conf.dir[d[i].path] # Absent \/ Flags(p).disks[i].sized
             /\ Cardinality(FormatsOf(d[i].path)) <= 1
             /\ \A j \in DOMAIN d : d[i].path = d[j].path => i = j

(* A run with sound flags that overlaps no other boots its guest, whatever  *)
(* disks earlier runs left in the directory, finished or interrupted, if    *)
(* qemu-img and qemu work and nobody interrupts it.                         *)
SoundRunsBoot ==
    \A p \in Proc :
        pc[p] = "ended" /\ p \notin cancelled /\ ~conf.overlap /\ ~conf.fails /\ Sound(p) =>
            p \in booted

(* What a guest wrote to a disk is never lost to a later run, which is      *)
(* given the same name by its flags or by default (qemu.go:151-155), unless *)
(* somebody asks for it in another format: as raw, its guest would write    *)
(* over it (qemu.go:275).                                                   *)
GuestDataKept ==
    [][~conf.overlap => \A f \in Files :
         Cardinality(FormatsOf(f)) <= 1 => wrote[f] \subseteq wrote'[f]]_vars

(* An interrupt ends a run, whatever its guest does.                        *)
InterruptEnds == \A p \in Proc : p \in cancelled ~> pc[p] = "ended"

------------------------------------------------------------------------------
(* The inductive invariant behind the safety properties (QemuProofs).       *)

OneAtATime ==
    ~conf.overlap =>
        \A p, q \in Proc : pc[p] \in {"idle", "ended"} \/ pc[q] \in {"idle", "ended"} \/ p = q

(* Guests write to files that are there.                                    *)
WritesFollow ==
    /\ \A f \in Files : wrote[f] # {} => Exists(f)
    /\ \A p \in Proc : pc[p] = "running" => \A k \in DOMAIN drives[p] : Exists(drives[p][k].path)

(* How far a run is; what one alone creates is still not there then.        *)
CreateFollows ==
    \A p \in Proc :
        /\ pc[p] = "idle" => at[p] = 0
        /\ pc[p] = "create" => at[p] < Len(drives[p])
        /\ pc[p] = "create" /\ ~conf.overlap => ~Exists(This(p).path)

(* The drives a run is given, and those it has seen to, which are there.    *)
DrivesFollow ==
    \A p \in Proc :
        /\ pc[p] \in {"stat", "create", "launch"} =>
             /\ ~Refused(p) /\ drives[p] = Drives(p)
             /\ \A k \in 1 .. at[p] : Exists(drives[p][k].path)
        /\ pc[p] = "launch" => at[p] = Len(drives[p])
        /\ pc[p] = "running" => ~Refused(p) /\ drives[p] = Drives(p)

(* A file that was there stays there; each is what it was or somebody asked *)
(* for.                                                                     *)
FormatsFollow ==
    ~conf.overlap => \A f \in Files :
        /\ conf.dir[f] # Absent => Exists(f)
        /\ Exists(f) => file[f] \in FormatsOf(f)

(* A run that is to boot has, once it came that far.                        *)
BootsFollow ==
    ~conf.overlap /\ ~conf.fails => \A p \in Proc \ cancelled :
        Sound(p) /\ pc[p] \in {"running", "ended"} => p \in booted

QInv ==
    /\ TypeOK
    /\ OneAtATime
    /\ WritesFollow
    /\ CreateFollows
    /\ DrivesFollow
    /\ FormatsFollow
    /\ BootsFollow
=============================================================================
