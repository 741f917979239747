------------------------------- MODULE Builder -------------------------------
(***************************************************************************)
(* builder.Build (builder.go:227): a raw file is partitioned, attached to  *)
(* a loop device, mapped, optionally encrypted, mounted, filled from the   *)
(* container image, made bootable, unmounted and converted.  Every step is *)
(* an external command; grub adds bind mounts of /dev, /proc and /sys.     *)
(*                                                                         *)
(* A command runs under a context that an interrupt (Ctrl-C, main.go)      *)
(* cancels.  When a step fails, a deferred handler runs unmountImg and     *)
(* cleanUp once more under context.Background().  The caller then deletes  *)
(* the work directory (convert.go:95, builder.Close), mounts and all.      *)
(*                                                                         *)
(* pc names the command about to run; a run of commands that create or     *)
(* release nothing is one step.  Commands are assumed to return.           *)
(***************************************************************************)
EXTENDS Naturals, Sequences, FiniteSets

CONSTANT
    Environments \* where builds run: the commands that may fail there by
                 \* themselves, and whether the user may interrupt the program

Commands == {"cleanUpFirst", "block", "parted", "losetup", "kpartx", "luksFormat",
             "cryptOpen", "mountRoot", "mountBoot", "copyRootFS", "setupRootFS",
             "syslinux", "bind", "grubInstall", "grubClean", "umountBoot", "umountRoot",
             "cryptClose", "kpartxDel", "losetupDel", "convert2Img", "cleanUp"}

ASSUME BuilderAssumption ==
    Environments \subseteq [flaky : SUBSET Commands, interrupts : BOOLEAN]

VARIABLES
    cfg,         \* the configuration of this build, and where it runs
    pc,          \* the command about to run, "returned" or "closed"
    cancelled,   \* the context of the build is cancelled
    err,         \* an error was seen: Build will return it
    failed,      \* the deferred handler is running (context.Background())
    held,        \* kernel resources that exist on the host
    known,       \* handles recorded: loDevice ("loop"), mappedCryptRoot ("crypt")
    bound,       \* bind mounts recorded in grub's "unmounts"
    undone,      \* those clean() has been through
    raw,         \* the raw file exists
    out,         \* the converted file
    keyFile,     \* the temporary file with the LUKS password exists
    wiped,       \* files and trees of the host that were deleted
    foreign      \* the loop device named by loDevice, once this build gave it
                 \* back: "attached" by another process, and "robbed" of it

context == <<cancelled, err, failed>>
grubVars == <<bound, undone>>
files == <<raw, out, keyFile, wiped>>
vars == <<cfg, pc, cancelled, err, failed, held, known, bound, undone, raw, out, keyFile, wiped,
          foreign>>

------------------------------------------------------------------------------
(* Resources, and what keeps each busy.                                     *)

BindPoint == <<"dev", "proc", "sys">>
BindMounts == {"dev", "proc", "sys"}
Resources == {"loop", "maps", "crypt", "root", "boot"} \cup BindMounts

Users == [r \in Resources |->
            CASE r = "loop"  -> {"maps"}
              [] r = "maps"  -> {"crypt", "root", "boot"}
              [] r = "crypt" -> {"root"}
              [] r = "root"  -> {"boot"} \cup BindMounts
              [] OTHER       -> {}]

(* A handle is needed to release the loop device, its maps and the LUKS     *)
(* mapping; mounts are found by their path.                                 *)
Addressable(r) ==
    /\ r \in {"loop", "maps"} => "loop" \in known
    /\ r = "crypt" => "crypt" \in known

(* Mutant: umount -l, dmsetup --force: busy resources are released too.     *)
LazyReleasable(r) == r \in held /\ Addressable(r)

Releasable(r) == r \in held /\ Addressable(r) /\ Users[r] \cap held = {}

Configs == {c \in [split : BOOLEAN, luks : BOOLEAN, grub : BOOLEAN, rawFormat : BOOLEAN,
                   env : Environments] : c.luks => c.split}

Flaky == cfg.env.flaky
MayCancel == cfg.env.interrupts

------------------------------------------------------------------------------
(* How a command ends.                                                      *)

(* Mutant: exec.Command in place of exec.CommandContext.                    *)
RunsRegardless == TRUE

(* exec.CommandContext starts nothing once its context is done. *)
Runs == failed \/ ~cancelled

Refused(c) == (c \in Flaky \/ ~Runs) /\ UNCHANGED <<cancelled, held>>

(* The interrupt kills a command that already did its work. *)
Interrupted(effect) ==
    /\ MayCancel /\ ~cancelled /\ ~failed
    /\ cancelled' = TRUE
    /\ held' = effect

(* Mutant: unmountImg forgets the boot partition.                           *)
FirstReleaseForgetsBoot == "umountRoot"

FirstRelease == IF cfg.split THEN "umountBoot" ELSE "umountRoot"

(* Build returns an error: its deferred handler takes over. *)
Abort == err' = TRUE /\ failed' = TRUE /\ pc' = FirstRelease

Continue(next) == pc' = next /\ UNCHANGED <<err, failed>>

(* A command with no lasting effect on the host's resources. *)
Plain(c, next) ==
    /\ pc = c
    /\ \/ Runs /\ Continue(next) /\ UNCHANGED <<cancelled, held>>
       \/ (Refused(c) \/ Interrupted(held)) /\ Abort

(* A command that creates r. *)
Acquire(c, r, next) ==
    /\ pc = c
    /\ \/ /\ Runs
          /\ held' = held \cup {r}
          /\ known' = known \cup ({r} \cap {"loop", "crypt"})
          /\ Continue(next)
          /\ UNCHANGED cancelled
       \/ /\ Refused(c) \/ Interrupted(held \cup {r})
          /\ Abort
          /\ UNCHANGED known

(* loDevice keeps the name of a device the build gave back.                 *)
Stale == "loop" \in known \ held

(* A command of unmountImg: its error is kept and the next one runs.  The   *)
(* two that name the loop device work on whoever has it now, unless that    *)
(* process keeps it busy.                                                   *)
Release(c, r) ==
    /\ pc = c
    /\ \/ /\ Runs /\ Releasable(r)
          /\ held' = held \ {r}
          /\ UNCHANGED <<cancelled, err, foreign>>
       \/ /\ Runs /\ Stale /\ c \in {"kpartxDel", "losetupDel"} /\ foreign = "attached"
          /\ foreign' = "robbed"
          /\ UNCHANGED <<cancelled, err, held>>
       \/ /\ \/ Releasable(r) /\ Interrupted(held \ {r})
             \/ Refused(c)
             \/ ~Releasable(r) /\ UNCHANGED <<cancelled, held>>
          /\ err' = TRUE
          /\ UNCHANGED foreign
    /\ UNCHANGED <<cfg, known, grubVars, files>>

------------------------------------------------------------------------------
Init ==
    /\ cfg \in Configs
    /\ pc = "cleanUpFirst"
    /\ cancelled = FALSE /\ err = FALSE /\ failed = FALSE
    /\ held = {} /\ known = {}
    /\ bound = 0 /\ undone = 0
    /\ raw = FALSE /\ out = "none" /\ keyFile = FALSE
    /\ wiped = {}
    /\ foreign = "none"

(* Mutant: Build returns without its last cleanUp.                          *)
CleanUpOnlyFirst ==
    /\ pc \in {"cleanUpFirst", "cleanUp"}
    /\ raw' = (raw /\ pc = "cleanUp")
    /\ Continue(IF pc = "cleanUp" THEN "returned" ELSE "block")
    /\ UNCHANGED <<cfg, foreign, cancelled, held, known, grubVars, out, keyFile, wiped>>

(* Mutant: os.Remove at the end, which reports a raw file that was moved.   *)
CleanUpMissesMoved ==
    /\ pc \in {"cleanUpFirst", "cleanUp"}
    /\ \/ /\ pc = "cleanUp" => raw
          /\ raw' = FALSE
          /\ Continue(IF pc = "cleanUp" THEN "returned" ELSE "block")
       \/ /\ pc \in Flaky \/ (pc = "cleanUp" /\ ~raw)
          /\ raw' = raw
          /\ IF failed THEN Continue("returned") ELSE Abort
    /\ UNCHANGED <<cfg, foreign, cancelled, held, known, grubVars, out, keyFile, wiped>>

(* cleanUp removes the raw file, before the build, after it and after a     *)
(* failure; os.RemoveAll does not look at the context.                      *)
CleanUp ==
    /\ pc \in {"cleanUpFirst", "cleanUp"}
    /\ \/ /\ raw' = FALSE
          /\ Continue(IF pc = "cleanUp" THEN "returned" ELSE "block")
       \/ /\ pc \in Flaky
          /\ raw' = raw
          /\ IF failed THEN Continue("returned") ELSE Abort
    /\ UNCHANGED <<cfg, foreign, cancelled, held, known, grubVars, out, keyFile, wiped>>

(* makeImg: block() creates the file, whatever the context says; its        *)
(* Truncate may fail on the file created.                                   *)
Block ==
    /\ pc = "block"
    /\ \/ raw' = TRUE /\ Continue("parted")
       \/ "block" \in Flaky /\ raw' \in BOOLEAN /\ Abort
    /\ UNCHANGED <<cfg, foreign, cancelled, held, known, grubVars, out, keyFile, wiped>>

Parted == Plain("parted", "losetup") /\ UNCHANGED <<cfg, foreign, known, grubVars, files>>

(* mountImg *)
Losetup == Acquire("losetup", "loop", "kpartx") /\ UNCHANGED <<cfg, foreign, grubVars, files>>

(* Mutant: the encrypted path is taken for every split disk.                *)
KpartxEncryptsSplit ==
    /\ Acquire("kpartx", "maps", IF cfg.split THEN "luksFormat" ELSE "mountRoot")
    /\ UNCHANGED <<cfg, foreign, grubVars, files>>

Kpartx ==
    /\ Acquire("kpartx", "maps", IF cfg.luks THEN "luksFormat" ELSE "mountRoot")
    /\ UNCHANGED <<cfg, foreign, grubVars, files>>

(* The key file exists from here until mountImg returns (defer os.Remove). *)
LuksFormat ==
    /\ Plain("luksFormat", "cryptOpen")
    /\ keyFile' = (pc' = "cryptOpen")
    /\ UNCHANGED <<cfg, foreign, known, grubVars, raw, out, wiped>>

CryptOpen ==
    /\ Acquire("cryptOpen", "crypt", "mountRoot")
    /\ keyFile' = (pc' = "mountRoot")
    /\ UNCHANGED <<cfg, foreign, grubVars, raw, out, wiped>>

(* mkfs.ext4 and mount of the root file system *)
MountRoot ==
    /\ Acquire("mountRoot", "root", IF cfg.split THEN "mountBoot" ELSE "copyRootFS")
    /\ keyFile' = (keyFile /\ pc' = "mountBoot")
    /\ UNCHANGED <<cfg, foreign, grubVars, raw, out, wiped>>

(* mkdir, mkfs and mount of the boot file system; mountImg returns *)
MountBoot ==
    /\ Acquire("mountBoot", "boot", "copyRootFS")
    /\ keyFile' = FALSE
    /\ UNCHANGED <<cfg, foreign, grubVars, raw, out, wiped>>

CopyRootFS == Plain("copyRootFS", "setupRootFS") /\ UNCHANGED <<cfg, foreign, known, grubVars, files>>

(* setupRootFS: blkid, then the files of the image; the removal of          *)
(* policy-rc.d (builder.go:441) is not under mntPoint.  It precedes later   *)
(* failures and follows earlier ones.                                       *)
SetupRootFS ==
    /\ Plain("setupRootFS", IF cfg.grub THEN "bind" ELSE "syslinux")
    /\ \/ wiped' = wiped \cup {"policy-rc.d"}
       \/ failed' /\ wiped' = wiped
    /\ Runs \/ wiped' = wiped
    /\ UNCHANGED <<cfg, foreign, known, grubVars, raw, out, keyFile>>

(* extlinux, syslinux.cfg and the MBR *)
Syslinux == Plain("syslinux", FirstRelease) /\ UNCHANGED <<cfg, foreign, known, grubVars, files>>

------------------------------------------------------------------------------
(* grubCommon: prepare, then install and mkconfig, then the deferred clean. *)

(* Mutant: prepare and Setup return an error without calling clean().       *)
GrubFailsUncleaned == Abort

(* clean() is called on an error; with nothing recorded it does nothing. *)
GrubFails ==
    IF bound = 0 THEN Abort ELSE err' = TRUE /\ pc' = "grubClean" /\ UNCHANGED failed

(* One turn of prepare's loop: a mount is recorded once it succeeded. *)
Bind ==
    /\ pc = "bind"
    /\ \/ /\ Runs
          /\ held' = held \cup {BindPoint[bound + 1]}
          /\ bound' = bound + 1
          /\ Continue(IF bound' = Len(BindPoint) THEN "grubInstall" ELSE "bind")
          /\ UNCHANGED cancelled
       \/ /\ Refused("bind") \/ Interrupted(held \cup {BindPoint[bound + 1]})
          /\ GrubFails
          /\ UNCHANGED bound
    /\ UNCHANGED <<cfg, foreign, known, undone, files>>

GrubInstall ==
    /\ pc = "grubInstall"
    /\ \/ Runs /\ Continue("grubClean") /\ UNCHANGED <<cancelled, held>>
       \/ (Refused("grubInstall") \/ Interrupted(held)) /\ GrubFails
    /\ UNCHANGED <<cfg, foreign, known, grubVars, files>>

(* Mutant: clean() leaves the last bind mount alone.                        *)
GrubCleanStopsShort ==
    /\ pc = "grubClean"
    /\ LET v == BindPoint[undone + 1] IN
         \/ Runs /\ held' = held \ {v} /\ UNCHANGED cancelled
         \/ Interrupted(held \ {v})
         \/ Refused("grubClean")
    /\ undone' = undone + 1
    /\ IF undone' + 1 < bound THEN Continue("grubClean")
       ELSE IF err THEN Abort
       ELSE Continue(FirstRelease)
    /\ UNCHANGED <<cfg, foreign, known, bound, files>>

(* Mutant: clean() tries the same mount again until it is gone.             *)
GrubCleanRetries ==
    /\ pc = "grubClean"
    /\ LET v == BindPoint[undone + 1] IN
         \/ Runs /\ held' = held \ {v} /\ undone' = undone + 1 /\ UNCHANGED cancelled
         \/ Refused("grubClean") /\ undone' = undone
    /\ IF undone' < bound THEN Continue("grubClean")
       ELSE IF err THEN Abort
       ELSE Continue(FirstRelease)
    /\ UNCHANGED <<cfg, foreign, known, bound, files>>

(* One turn of clean's loop: it uses the context of the build, and only     *)
(* logs a failure.  Setup then returns the error it had, if any.            *)
GrubClean ==
    /\ pc = "grubClean"
    /\ LET v == BindPoint[undone + 1] IN
         \/ Runs /\ held' = held \ {v} /\ UNCHANGED cancelled
         \/ Interrupted(held \ {v})
         \/ Refused("grubClean")
    /\ undone' = undone + 1
    /\ IF undone' < bound THEN Continue("grubClean")
       ELSE IF err THEN Abort
       ELSE Continue(FirstRelease)
    /\ UNCHANGED <<cfg, foreign, known, bound, files>>

------------------------------------------------------------------------------
(* unmountImg, in the build and again in the deferred handler               *)

UmountBoot == Release("umountBoot", "boot") /\ pc' = "umountRoot" /\ UNCHANGED failed

UmountRoot ==
    /\ Release("umountRoot", "root")
    /\ pc' = (IF cfg.luks THEN "cryptClose" ELSE "kpartxDel")
    /\ UNCHANGED failed

CryptClose == Release("cryptClose", "crypt") /\ pc' = "kpartxDel" /\ UNCHANGED failed

KpartxDel == Release("kpartxDel", "maps") /\ pc' = "losetupDel" /\ UNCHANGED failed

(* Mutant: Build drops the error of its own unmountImg.                     *)
LosetupDelDropsErrors ==
    /\ Release("losetupDel", "loop")
    /\ pc' = (IF failed THEN "cleanUp" ELSE "convert2Img")
    /\ UNCHANGED failed

(* unmountImg returns the errors it combined. *)
LosetupDel ==
    /\ Release("losetupDel", "loop")
    /\ \/ failed /\ pc' = "cleanUp" /\ UNCHANGED failed
       \/ ~failed /\ err' /\ failed' = TRUE /\ pc' = FirstRelease
       \/ ~failed /\ ~err' /\ pc' = "convert2Img" /\ UNCHANGED failed

(* qemu-img convert, or MoveFile for a raw image: the latter ignores the    *)
(* context and deletes the raw file once it is copied.                      *)
Convert2Img ==
    /\ pc = "convert2Img"
    /\ \/ /\ cfg.rawFormat \/ Runs
          /\ out' = "complete"
          /\ raw' = (raw /\ ~cfg.rawFormat)
          /\ Continue("cleanUp")
          /\ UNCHANGED cancelled
       \/ /\ \/ "convert2Img" \in Flaky /\ UNCHANGED cancelled
             \/ ~cfg.rawFormat /\ ~Runs /\ UNCHANGED cancelled
             \/ ~cfg.rawFormat /\ MayCancel /\ ~cancelled /\ cancelled' = TRUE
          /\ out' \in {"none", "partial", "complete"}
          /\ raw' = raw
          /\ Abort
    /\ UNCHANGED <<cfg, foreign, held, known, grubVars, keyFile, wiped>>

------------------------------------------------------------------------------
(* The caller's defer: builder.Close removes the work directory, and with   *)
(* it whatever is still mounted below its mnt directory.  A good image has  *)
(* been moved away by then (convert.go:102).                                *)
Close ==
    /\ pc = "returned"
    /\ pc' = "closed"
    /\ raw' = FALSE /\ out' = "none"
    /\ wiped' = wiped \cup (held \cap BindMounts)
    /\ UNCHANGED <<cfg, foreign, context, held, known, grubVars, keyFile>>

(* main.go: the first interrupt cancels the context. *)
Cancel ==
    /\ MayCancel /\ ~cancelled /\ pc # "closed"
    /\ cancelled' = TRUE
    /\ UNCHANGED <<cfg, foreign, pc, err, failed, held, known, grubVars, files>>

(* losetup -f hands the device the build gave back to another process.      *)
OtherAttach ==
    /\ Stale /\ foreign = "none" /\ pc # "closed"
    /\ foreign' = "attached"
    /\ UNCHANGED <<cfg, pc, context, held, known, grubVars, files>>

Step ==
    \/ CleanUp \/ Block \/ Parted
    \/ Losetup \/ Kpartx \/ LuksFormat \/ CryptOpen \/ MountRoot \/ MountBoot
    \/ CopyRootFS \/ SetupRootFS
    \/ Syslinux \/ Bind \/ GrubInstall \/ GrubClean
    \/ UmountBoot \/ UmountRoot \/ CryptClose \/ KpartxDel \/ LosetupDel
    \/ Convert2Img \/ Close

Closed == pc = "closed" /\ UNCHANGED vars

Next == Step \/ Cancel \/ OtherAttach \/ Closed

(* The program runs on by itself; nobody has to press Ctrl-C. *)
Spec == Init /\ [][Next]_vars /\ WF_vars(Step)

------------------------------------------------------------------------------
(* Properties                                                               *)

TypeOK ==
    /\ cfg \in Configs
    /\ pc \in Commands \cup {"returned", "closed"}
    /\ cancelled \in BOOLEAN /\ err \in BOOLEAN /\ failed \in BOOLEAN
    /\ held \subseteq Resources
    /\ known \subseteq {"loop", "crypt"}
    /\ bound \in 0 .. Len(BindPoint) /\ undone \in 0 .. Len(BindPoint)
    /\ raw \in BOOLEAN /\ keyFile \in BOOLEAN
    /\ out \in {"none", "partial", "complete"}
    /\ wiped \subseteq BindMounts \cup {"policy-rc.d"}
    /\ foreign \in {"none", "attached", "robbed"}

(* The raw file is converted only once nothing has it mounted, mapped or    *)
(* attached: an image is never a copy of a live file system, although       *)
(* unmountImg runs all its commands whatever the earlier ones answered.     *)
QuiescentImage == (pc = "convert2Img" \/ out # "none") => held = {}

(* Build reports success only for a complete image, a removed raw file and  *)
(* a host from which every resource of the build is gone.                   *)
SuccessLeavesNothing ==
    pc = "returned" /\ ~err => held = {} /\ ~raw /\ out = "complete" /\ ~keyFile

(* Once the build failed or was interrupted, no step takes one more loop    *)
(* device, mapping or mount: everything left to do releases.                *)
NoAcquireAfterFailure == [][err \/ cancelled => held' \subseteq held]_vars

(* The commands that undo others, and cleanUp.                              *)
Cleanup == {"grubClean", "umountBoot", "umountRoot", "cryptClose", "kpartxDel",
            "losetupDel", "cleanUpFirst", "cleanUp"}

(* With cleanup commands that work and no interrupt, a build that fails at  *)
(* any step gives everything back before it returns: the deferred handler,  *)
(* clean() and the forward unmountImg add up.                               *)
FailureReleases ==
    ~MayCancel /\ Flaky \cap Cleanup = {} /\ pc = "returned" => held = {} /\ ~raw /\ ~keyFile

(* A build never takes a loop device, or the maps on it, away from another  *)
(* process: loDevice still names the device after losetup -d gave it back,  *)
(* so the deferred handler must not run once it did.  It does not as long   *)
(* as nobody interrupts and the commands that release, the conversion and   *)
(* the removal after it work.                                               *)
OthersDevicesKept ==
    ~MayCancel /\ Flaky \cap (Cleanup \cup {"convert2Img"}) = {} => foreign # "robbed"

(* Deleting the work directory never reaches into the host's /dev, /proc or *)
(* /sys through a bind mount: clean() undoes them all if its umounts work   *)
(* and nobody interrupts, whatever else fails.                              *)
BindMountsUndone ==
    ~MayCancel /\ "grubClean" \notin Flaky => wiped \cap BindMounts = {}

(* The same, however the build ends.                                        *)
HostTreesSafe == wiped \cap BindMounts = {}

(* With cleanup commands that work, an interrupted build leaks only what it *)
(* can no longer name or what sits below that: a loop device or a mapping   *)
(* whose command was killed before its answer, or a bind mount of grub.     *)
LeakHasLostHandle ==
    Flaky \cap Cleanup = {} /\ pc = "returned" /\ held # {} =>
        \/ (held \cap {"loop", "crypt"}) \ known # {}
        \/ held \cap BindMounts # {}

(* Whatever fails and whenever the user interrupts, the build returns and   *)
(* its work directory is deleted: no error path loops or stops half way.    *)
Terminates == <>(pc = "closed")

------------------------------------------------------------------------------
(* The build implements its contract.                                       *)

status ==
    CASE pc \in {"returned", "closed"}           -> IF err THEN "failed" ELSE "succeeded"
      [] pc \notin {"returned", "closed"} /\ err   -> "failing"
      [] pc \in {"convert2Img", "cleanUp"} /\ ~err -> "sealed"
      [] OTHER                                   -> "building"

Contract == INSTANCE BuildContract WITH image <- out

(* Every step of a build is one its contract allows, or changes nothing the *)
(* caller can see.                                                          *)
ImplementsContract == Contract!Spec

------------------------------------------------------------------------------
(* The inductive invariant behind the safety properties (BuilderProofs).    *)

Acquiring == {"cleanUpFirst", "block", "parted", "losetup", "kpartx", "luksFormat",
              "cryptOpen", "mountRoot", "mountBoot", "copyRootFS", "setupRootFS",
              "syslinux", "bind", "grubInstall"}

(* An error is still unseen while resources are taken, and it is never      *)
(* forgotten once the deferred handler runs.                                *)
ErrorsKept ==
    /\ failed => err
    /\ pc \in Acquiring \cup {"convert2Img"} => ~err

(* A mapping is only opened, and only then closed, for an encrypted build.  *)
OnlyLuksMaps == ("crypt" \in held \/ pc \in {"luksFormat", "cryptOpen"}) => cfg.luks

(* clean() goes through the recorded mounts, in order and once.             *)
CleanInOrder ==
    /\ pc \in Acquiring => undone = 0
    /\ pc \in Acquiring \ {"bind", "grubInstall"} => bound = 0
    /\ pc = "bind" => bound < Len(BindPoint)
    /\ pc = "grubInstall" => bound = Len(BindPoint)
    /\ pc = "grubClean" => undone < bound

(* Nothing is written before the forward pass gave everything back.         *)
WrittenLast ==
    /\ pc \in Acquiring \cup {"grubClean", "convert2Img"} => out = "none"
    /\ out # "none" => held = {}

(* What may still be held before a command of the forward pass, when        *)
(* nothing failed.  umount of the root file system proves that boot and the *)
(* bind mounts are gone, even though clean() only logs its failures.        *)
ReleasedInOrder ==
    ~err => /\ pc = "cryptClose" => held \subseteq {"crypt", "maps", "loop"}
            /\ pc = "kpartxDel"  => held \subseteq {"maps", "loop"}
            /\ pc = "losetupDel" => held \subseteq {"loop"}
            /\ pc \in {"convert2Img", "cleanUp", "returned", "closed"} => held = {}

(* While no error was seen, the loop device is only given back at the end   *)
(* of the forward pass.                                                     *)
GivenBackLast ==
    (Stale \/ foreign # "none") /\ ~err =>
        pc \in {"convert2Img", "cleanUp", "returned", "closed"}

(* What is left when the build ends well.                                   *)
EndsClean ==
    /\ pc \in {"cleanUp", "returned"} /\ ~err => out = "complete"
    /\ pc = "returned" /\ ~err => ~raw
    /\ keyFile => pc \in {"cryptOpen", "mountRoot", "mountBoot"}

IInv ==
    /\ TypeOK
    /\ ErrorsKept
    /\ OnlyLuksMaps
    /\ CleanInOrder
    /\ WrittenLast
    /\ ReleasedInOrder
    /\ GivenBackLast
    /\ EndsClean

------------------------------------------------------------------------------
(* The rest is for what a failed build leaves.  Where a build can be, and   *)
(* what its configuration excludes.                                         *)
Releasing == {"umountBoot", "umountRoot", "cryptClose", "kpartxDel", "losetupDel"}

ErrorPath ==
    /\ cancelled => MayCancel
    /\ failed => pc \in Releasing \cup {"cleanUp", "returned", "closed"}
    /\ pc \in {"cleanUp", "returned"} /\ err => failed
    /\ ~cfg.split => "boot" \notin held /\ pc \notin {"mountBoot", "umountBoot"}
    /\ pc = "cryptClose" => cfg.luks
    /\ Flaky \cap Cleanup = {} /\ pc = "returned" => ~raw

(* The maps never outlive the loop device.                                  *)
MapsOnLoop == ("maps" \in held \/ pc = "kpartx") => "loop" \in held

(* The bind mounts that exist are those recorded and not yet undone.        *)
BindsRecorded ==
    ~MayCancel /\ "grubClean" \notin Flaky =>
        /\ held \cap BindMounts =
             IF pc \in {"bind", "grubInstall", "grubClean"}
             THEN {BindPoint[i] : i \in (undone + 1) .. bound}
             ELSE {}
        /\ wiped \cap BindMounts = {}

(* Only an interrupt loses a handle.                                        *)
HandlesKept == ~MayCancel => held \cap {"loop", "crypt"} \subseteq known

(* What a pass of unmountImg has released before each of its commands, if   *)
(* these work and no handle or bind mount was lost.                         *)
Unstacked ==
    /\ Flaky \cap Cleanup = {}
    /\ failed \/ ~MayCancel
    /\ held \cap {"loop", "crypt"} \subseteq known
    /\ held \cap BindMounts = {}
    =>
    /\ pc = "umountRoot" => "boot" \notin held
    /\ pc = "cryptClose" => held \subseteq {"crypt", "maps", "loop"}
    /\ pc = "kpartxDel"  => held \subseteq {"maps", "loop"}
    /\ pc = "losetupDel" => held \subseteq {"loop"}
    /\ pc \in {"cleanUp", "returned", "closed"} => held = {}

(* What the forward pass still holds, if it can only fail by itself.        *)
Mounted == {"copyRootFS", "setupRootFS", "syslinux", "bind", "grubInstall", "grubClean"}

Taken ==
    ~MayCancel /\ ~failed =>
    /\ pc \in {"kpartx", "luksFormat", "cryptOpen", "mountRoot", "mountBoot"} \cup Mounted
              \cup Releasing => "loop" \in held
    /\ pc \in {"luksFormat", "cryptOpen", "mountRoot", "mountBoot"} \cup Mounted
              \cup (Releasing \ {"losetupDel"}) => "maps" \in held \/ err
    /\ cfg.luks /\ pc \in {"mountRoot", "mountBoot", "umountBoot", "umountRoot", "cryptClose"}
              \cup Mounted => "crypt" \in held
    /\ pc \in {"mountBoot", "umountBoot", "umountRoot"} \cup Mounted => "root" \in held
    /\ cfg.split /\ pc \in {"umountBoot"} \cup Mounted => "boot" \in held

(* The deferred handler never runs once the loop device was given back, if  *)
(* what follows the release works.                                          *)
OnlyOwnDevice ==
    ~MayCancel /\ Flaky \cap (Cleanup \cup {"convert2Img"}) = {} =>
    /\ ~failed /\ pc \in Releasing => ~err
    /\ Stale \/ foreign # "none" => pc \in {"convert2Img", "cleanUp", "returned", "closed"}
    /\ foreign # "robbed"

(* The inductive invariant for failed builds (BuilderFailureProofs).        *)
FailureInv ==
    /\ IInv
    /\ ErrorPath
    /\ MapsOnLoop
    /\ BindsRecorded
    /\ HandlesKept
    /\ Unstacked
    /\ Taken
    /\ OnlyOwnDevice
==============================================================================
