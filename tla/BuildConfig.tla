----------------------------- MODULE BuildConfig -----------------------------
(***************************************************************************)
(* How a request becomes a build: validateFlags completes and checks the   *)
(* flags (cmd/d2vm/flags.go), Convert looks at the image's distribution    *)
(* and derives a kernel-enabled image from it (convert.go, dockerfile.go,  *)
(* templates/), and NewBuilder checks what it is given once more           *)
(* (builder.go:93).  The checks are spread over four layers, before and    *)
(* after two docker builds, and a caller of the library skips the first.   *)
(*                                                                         *)
(* A check that fails is a reason; which of several is reported first is   *)
(* left out, and so are the docker builds between the layers, which        *)
(* Convert.tla has.  Sizes are in bytes, boot sizes in MiB, as in the code. *)
(***************************************************************************)
EXTENDS Integers

CONSTANTS
    MiB,          \* bytes in a MiB
    Names,        \* what a flag or a distribution may be called
    Requests,     \* the requests considered, see RequestType
    Releases      \* the distributions images are made of, see ReleaseType

Amd64 == {"linux/amd64"}
Arm64 == {"linux/arm64", "linux/aarch64"}
EnterpriseLinux == {"centos", "rocky", "almalinux"}
EFI == {"grub", "grub-efi"}
Grubs == {"grub", "grub-bios", "grub-efi"}
Bootloaders == Grubs \cup {"syslinux"}
BootFSs == {"ext4", "fat32"}
Formats == {"qcow2", "qed", "raw", "vdi", "vhd", "vhdx", "vmdk"}
NetworkManagers == {"none", "ifupdown", "netplan"}

(* The names the code knows; an empty one is a flag that was not given *)
KnownNames == {""} \cup Amd64 \cup Arm64 \cup Bootloaders \cup BootFSs \cup Formats
              \cup NetworkManagers

RequestType ==
    [entry : {"cli", "library"}, platform : Names, bootloader : Names, split : BOOLEAN,
     bootFS : Names, bootSize : Nat, size : Nat, luks : BOOLEAN, raw : BOOLEAN,
     nm : Names, format : Names]

(* version: the release number, as far as the thresholds of the code go *)
ReleaseType == [id : Names, version : Nat]

ASSUME ConfigAssumption ==
    /\ MiB \in Nat \ {0}
    /\ KnownNames \subseteq Names
    /\ Requests \subseteq RequestType
    /\ Releases \subseteq ReleaseType

VARIABLES
    phase,        \* the next layer, or the verdict
    req,          \* the request, as completed so far
    release,      \* the distribution of the image
    reasons       \* the checks that failed

vars == <<phase, req, release, reasons>>

Phases == {"flags", "inspect", "dockerfile", "builder", "accepted", "rejected"}

------------------------------------------------------------------------------
Init ==
    /\ req \in Requests
    /\ release \in Releases
    /\ phase = (IF req.entry = "cli" THEN "flags" ELSE "inspect")
    /\ reasons = {}

(* The next layer, unless a check failed. *)
Check(layer, failing, next) ==
    /\ phase = layer
    /\ reasons' = failing
    /\ phase' = (IF failing = {} THEN next ELSE "rejected")

------------------------------------------------------------------------------
(* validateFlags                                                            *)

DefaultBootloader(q) ==
    IF q.bootloader # "" THEN q.bootloader
    ELSE IF q.platform \in Arm64 THEN "grub-efi" ELSE "syslinux"

(* Mutant: the boot file system of an EFI bootloader has no default.        *)
CompletedWithoutFat32(q) ==
    LET bl == DefaultBootloader(q) IN
      [q EXCEPT !.bootloader = bl,
                !.platform = IF @ \in Arm64 THEN "linux/arm64" ELSE @,
                !.split = @ \/ q.luks \/ q.bootFS # "" \/ bl \in EFI]

(* A password, a boot file system or an EFI bootloader imply a boot         *)
(* partition, the last one a fat32 one.                                     *)
Completed(q) ==
    LET bl == DefaultBootloader(q) IN
      [q EXCEPT !.bootloader = bl,
                !.platform = IF @ \in Arm64 THEN "linux/arm64" ELSE @,
                !.split = @ \/ q.luks \/ q.bootFS # "" \/ bl \in EFI,
                !.bootFS = IF bl \in EFI /\ @ = "" THEN "fat32" ELSE @]

FlagErrors(q) ==
    {r \in {"--platform", "--bootloader arm64", "--boot-fs", "--boot-fs efi"} :
       \/ r = "--platform" /\ q.platform \notin Amd64 \cup Arm64
       \/ r = "--bootloader arm64" /\ q.platform \in Arm64 /\ DefaultBootloader(q) # "grub-efi"
       \/ r = "--boot-fs" /\ q.bootFS # "" /\ q.bootFS \notin BootFSs
       \/ r = "--boot-fs efi" /\ DefaultBootloader(q) \in EFI /\ q.bootFS \notin {"", "fat32"}}

ValidateFlags ==
    /\ Check("flags", FlagErrors(req), "inspect")
    /\ req' = Completed(req)
    /\ UNCHANGED release

------------------------------------------------------------------------------
(* Convert, as far as the disk builder                                      *)

SupportsLUKS(r) ==
    \/ r.id = "ubuntu" /\ r.version >= 20
    \/ r.id = "debian" /\ r.version >= 10
    \/ r.id \in EnterpriseLinux \cup {"kali", "alpine"}

Supported == EnterpriseLinux \cup {"ubuntu", "debian", "kali", "alpine"}

InspectErrors(q, r) ==
    IF q.luks /\ ~SupportsLUKS(r) THEN {"luks release"} ELSE {}

Inspect ==
    /\ Check("inspect", InspectErrors(req, release), IF req.raw THEN "builder" ELSE "dockerfile")
    /\ UNCHANGED <<req, release>>

DefaultNetworkManager(r) ==
    IF r.id \in EnterpriseLinux THEN "none"
    ELSE IF r.id = "ubuntu" /\ r.version >= 18 THEN "netplan" ELSE "ifupdown"

DockerfileErrors(q, r) ==
    {e \in {"release", "network manager"} :
       \/ e = "release" /\ r.id \notin Supported
       \/ e = "network manager" /\ \/ r.id = "alpine" /\ q.nm = "netplan"
                                   \/ r.id \in EnterpriseLinux /\ q.nm \notin {"", "none"}
                                   \/ q.nm # "" /\ q.nm \notin NetworkManagers}

NewDockerfile ==
    /\ Check("dockerfile", DockerfileErrors(req, release), "builder")
    /\ req' = [req EXCEPT !.nm = IF @ = "" THEN DefaultNetworkManager(release) ELSE @]
    /\ UNCHANGED release

------------------------------------------------------------------------------
(* NewBuilder                                                               *)

BuilderBootloader(q) == IF q.bootloader = "" THEN "syslinux" ELSE q.bootloader
BuilderBootFS(q) == IF q.bootFS = "" THEN "ext4" ELSE q.bootFS

(* Mutant: grub-bios takes any architecture.                                *)
NewBootloaderErrorsAnyArch(bl, q, r) ==
    {e \in {"bootloader", "bootloader release"} :
       \/ e = "bootloader" /\ bl \notin Bootloaders
       \/ e = "bootloader release" /\ bl \in EFI /\ r.id \in EnterpriseLinux}

(* The providers' New: architecture and distribution *)
NewBootloaderErrors(bl, q, r) ==
    {e \in {"bootloader", "bootloader arch", "bootloader release"} :
       \/ e = "bootloader" /\ bl \notin Bootloaders
       \/ e = "bootloader arch" /\ bl # "grub-efi" /\ q.platform \notin Amd64
       \/ e = "bootloader release" /\ bl \in EFI /\ r.id \in EnterpriseLinux}

(* The bootloader's Validate: grub and grub-efi want fat32 *)
BootloaderFSErrors(bl, fs) == IF bl \in EFI /\ fs # "fat32" THEN {"bootloader bootFS"} ELSE {}

(* The boot size is compared as it is, in MiB, with a size in bytes, and    *)
(* before an unset size gets its default.                                   *)
BuilderErrors(q, r) ==
    {e \in {"platform", "luks split", "luks release", "format", "boot too small",
            "boot too large", "release", "bootFS"} :
       \/ e = "platform" /\ q.platform \notin Amd64 \cup Arm64
       \/ e = "luks split" /\ q.luks /\ ~q.split
       \/ e = "luks release" /\ q.luks /\ ~SupportsLUKS(r)
       \/ e = "format" /\ q.format \notin Formats
       \/ e = "boot too small" /\ q.split /\ q.bootSize < 50
       \/ e = "boot too large" /\ q.split /\ q.bootSize >= q.size
       \/ e = "release" /\ r.id \notin Supported
       \/ e = "bootFS" /\ BuilderBootFS(q) \notin BootFSs}
    \cup NewBootloaderErrors(BuilderBootloader(q), q, r)
    \cup BootloaderFSErrors(BuilderBootloader(q), BuilderBootFS(q))

DefaultSize == 10 * 1024 * MiB

NewBuilder ==
    /\ Check("builder", BuilderErrors(req, release), "accepted")
    /\ req' = [req EXCEPT !.bootloader = BuilderBootloader(req),
                          !.bootFS = BuilderBootFS(req),
                          !.size = IF @ = 0 THEN DefaultSize ELSE @]
    /\ UNCHANGED release

Decided == phase \in {"accepted", "rejected"} /\ UNCHANGED vars

Next ==
    \/ ValidateFlags \/ Inspect \/ NewDockerfile \/ NewBuilder
    \/ Decided

Spec == Init /\ [][Next]_vars

------------------------------------------------------------------------------
(* What the image and the builder make of the verdict                       *)

(* newGrubCommon: the name its commands start with *)
GrubName(r) == IF r.id = "centos" THEN "grub2" ELSE "grub"

(* The name under which the distribution's packages install them *)
InstalledGrubName(r) == IF r.id \in EnterpriseLinux THEN "grub2" ELSE "grub"

------------------------------------------------------------------------------
(* Properties                                                               *)

TypeOK ==
    /\ phase \in Phases
    /\ req \in RequestType
    /\ release \in ReleaseType

Accepted == phase = "accepted"

(* What validateFlags completed and let pass, NewBuilder never rejects for  *)
(* the combination of its flags: after minutes of docker builds only the    *)
(* distribution, a size, a format or an unknown name can still be wrong.    *)
NoLateSurprise ==
    req.entry = "cli" =>
        reasons \cap {"platform", "luks split", "bootFS", "bootloader arch",
                      "bootloader bootFS"} = {}

(* Whoever asks, an accepted build is one its parts can do: encryption has  *)
(* an unencrypted boot partition and a distribution that can unlock it, arm *)
(* boots by EFI, EFI boots from fat32, and not on Enterprise Linux.  A      *)
(* command line that boots by EFI also got a partition to boot from.        *)
AcceptedIsConsistent ==
    Accepted =>
        /\ req.luks => req.split /\ SupportsLUKS(release)
        /\ req.platform \in Arm64 => req.bootloader = "grub-efi"
        /\ req.bootloader \in EFI => req.bootFS = "fat32" /\ release.id \notin EnterpriseLinux
        /\ req.entry = "cli" /\ req.bootloader \in EFI => req.split

(* What is left of a command line after validateFlags, until the verdict.   *)
FlagsCompleted ==
    req.entry = "cli" /\ phase \notin {"flags", "rejected"} =>
        /\ req.platform \in Amd64 \cup Arm64
        /\ req.platform \in Arm64 => req.bootloader = "grub-efi"
        /\ req.bootFS \in {""} \cup BootFSs
        /\ req.bootloader \in EFI => req.split /\ req.bootFS = "fat32"
        /\ req.luks => req.split
        /\ req.bootloader # ""

(* builder.go:130: "boot partition size must be less than the disk size".   *)
BootFitsDisk == Accepted /\ req.split => req.bootSize * MiB < req.size

(* grub.go:65 sends Enterprise Linux to grub-bios: the commands a bootloader *)
(* runs in the image are commands its packages installed there.             *)
GrubInstalled ==
    Accepted /\ ~req.raw /\ req.bootloader \in Grubs => GrubName(release) = InstalledGrubName(release)
==============================================================================
