-------------------------- MODULE BuildConfigProofs --------------------------
(***************************************************************************)
(* The layers of checks agree, for every request and every distribution.   *)
(***************************************************************************)
EXTENDS BuildConfig, TLAPS

CfgInv == TypeOK /\ FlagsCompleted /\ NoLateSurprise /\ AcceptedIsConsistent

(* A request is typed, and nothing has been decided about it.               *)
LEMMA InitCfgInv == Init => CfgInv
<1> SUFFICES ASSUME Init PROVE CfgInv
  OBVIOUS
<1> USE DEF Init
<1>1. req \in RequestType /\ release \in ReleaseType
  BY ConfigAssumption
<1>2. phase = "flags" \/ (phase = "inspect" /\ req.entry # "cli")
  OBVIOUS
<1>3. TypeOK
  BY <1>1, <1>2 DEF TypeOK, Phases
<1>4. FlagsCompleted
  BY <1>2 DEF FlagsCompleted
<1>5. NoLateSurprise
  BY DEF NoLateSurprise
<1>6. AcceptedIsConsistent
  BY <1>2 DEF AcceptedIsConsistent, Accepted
<1> QED
  BY <1>3, <1>4, <1>5, <1>6 DEF CfgInv

(* What validateFlags lets pass is complete and coherent.                   *)
LEMMA FlagsCoherent ==
    ASSUME NEW q \in RequestType
    PROVE  /\ Completed(q) \in RequestType
           /\ Completed(q).entry = q.entry
           /\ FlagErrors(q) = {} =>
                LET c == Completed(q) IN
                  /\ c.platform \in Amd64 \cup Arm64
                  /\ c.platform \in Arm64 => c.bootloader = "grub-efi"
                  /\ c.bootFS \in {""} \cup BootFSs
                  /\ c.bootloader \in EFI => c.split /\ c.bootFS = "fat32"
                  /\ c.luks => c.split
                  /\ c.bootloader # ""
<1> USE DEF RequestType
<1>1. DefaultBootloader(q) \in Names /\ DefaultBootloader(q) # ""
  BY ConfigAssumption DEF DefaultBootloader, KnownNames, Bootloaders, Grubs
<1>2. {"fat32", "linux/arm64"} \subseteq Names
  BY ConfigAssumption DEF KnownNames, BootFSs, Arm64
<1>3. Completed(q) \in RequestType /\ Completed(q).entry = q.entry
  BY <1>1, <1>2 DEF Completed
<1>4. ASSUME FlagErrors(q) = {}
      PROVE  LET c == Completed(q) IN
               /\ c.platform \in Amd64 \cup Arm64
               /\ c.platform \in Arm64 => c.bootloader = "grub-efi"
               /\ c.bootFS \in {""} \cup BootFSs
               /\ c.bootloader \in EFI => c.split /\ c.bootFS = "fat32"
               /\ c.luks => c.split
               /\ c.bootloader # ""
  <2>1. q.platform \in Amd64 \cup Arm64
    BY <1>4, "--platform" \notin FlagErrors(q) DEF FlagErrors
  <2>2. q.platform \in Arm64 => DefaultBootloader(q) = "grub-efi"
    BY <1>4, "--bootloader arm64" \notin FlagErrors(q) DEF FlagErrors
  <2>3. q.bootFS # "" => q.bootFS \in BootFSs
    BY <1>4, "--boot-fs" \notin FlagErrors(q) DEF FlagErrors
  <2>4. DefaultBootloader(q) \in EFI => q.bootFS \in {"", "fat32"}
    BY <1>4, "--boot-fs efi" \notin FlagErrors(q) DEF FlagErrors
  <2> QED
    BY <1>1, <2>1, <2>2, <2>3, <2>4 DEF Completed, Amd64, Arm64, BootFSs, EFI
<1> QED
  BY <1>3, <1>4

(* What NewBuilder lets pass.                                               *)
LEMMA BuilderSound ==
    ASSUME NEW q \in RequestType, NEW r \in ReleaseType, BuilderErrors(q, r) = {}
    PROVE  /\ q.luks => q.split /\ SupportsLUKS(r)
           /\ q.platform \in Arm64 => BuilderBootloader(q) = "grub-efi"
           /\ BuilderBootloader(q) \in EFI =>
                BuilderBootFS(q) = "fat32" /\ r.id \notin EnterpriseLinux
<1> DEFINE bl == BuilderBootloader(q)
<1>1. "luks split" \notin BuilderErrors(q, r) /\ "luks release" \notin BuilderErrors(q, r)
  OBVIOUS
<1>2. q.luks => q.split /\ SupportsLUKS(r)
  BY <1>1 DEF BuilderErrors
<1>3. NewBootloaderErrors(bl, q, r) = {} /\ BootloaderFSErrors(bl, BuilderBootFS(q)) = {}
  BY DEF BuilderErrors
<1>4. q.platform \in Arm64 => bl = "grub-efi"
  BY <1>3, "bootloader arch" \notin NewBootloaderErrors(bl, q, r)
  DEF NewBootloaderErrors, Arm64, Amd64
<1>5. bl \in EFI => r.id \notin EnterpriseLinux
  BY <1>3, "bootloader release" \notin NewBootloaderErrors(bl, q, r) DEF NewBootloaderErrors
<1>6. bl \in EFI => BuilderBootFS(q) = "fat32"
  BY <1>3 DEF BootloaderFSErrors
<1> QED
  BY <1>2, <1>4, <1>5, <1>6

(* What validateFlags completed, NewBuilder has nothing to object to.       *)
LEMMA BuilderAgrees ==
    ASSUME NEW q \in RequestType, NEW r \in ReleaseType,
           q.platform \in Amd64 \cup Arm64,
           q.platform \in Arm64 => q.bootloader = "grub-efi",
           q.bootFS \in {""} \cup BootFSs,
           q.bootloader \in EFI => q.bootFS = "fat32",
           q.luks => q.split,
           q.bootloader # ""
    PROVE  BuilderErrors(q, r) \cap {"platform", "luks split", "bootFS", "bootloader arch",
                                     "bootloader bootFS"} = {}
<1>1. BuilderBootloader(q) = q.bootloader
  BY DEF BuilderBootloader
<1>2. BuilderBootFS(q) \in BootFSs
  BY DEF BuilderBootFS, BootFSs
<1>3. q.bootloader \in EFI => BuilderBootFS(q) = "fat32"
  BY DEF BuilderBootFS
<1>4. BootloaderFSErrors(q.bootloader, BuilderBootFS(q)) = {}
  BY <1>3 DEF BootloaderFSErrors
<1>5. q.bootloader # "grub-efi" => q.platform \in Amd64
  OBVIOUS
<1>6. NewBootloaderErrors(q.bootloader, q, r) \subseteq {"bootloader", "bootloader release"}
  BY <1>5 DEF NewBootloaderErrors
<1> QED
  BY <1>1, <1>2, <1>4, <1>6 DEF BuilderErrors

(* The verdict of validateFlags, of any other layer, and of NewBuilder.     *)
LEMMA FlagsStep == CfgInv /\ ValidateFlags => CfgInv'
<1> SUFFICES ASSUME CfgInv, ValidateFlags PROVE CfgInv'
  OBVIOUS
<1> USE DEF ValidateFlags, Check
<1>1. req \in RequestType /\ release \in ReleaseType
  BY DEF CfgInv, TypeOK
<1>2. req' \in RequestType /\ req'.entry = req.entry
  BY <1>1, FlagsCoherent
<1>3. phase' \in {"inspect", "rejected"}
  OBVIOUS
<1>4. TypeOK'
  BY <1>1, <1>2, <1>3 DEF TypeOK, Phases
<1>5. FlagsCompleted'
  <2> SUFFICES ASSUME phase' = "inspect" PROVE FlagsCompleted'
    BY <1>3 DEF FlagsCompleted
  <2>1. FlagErrors(req) = {}
    OBVIOUS
  <2> QED
    BY <1>1, <2>1, FlagsCoherent DEF FlagsCompleted
<1>6. NoLateSurprise'
  BY DEF NoLateSurprise, FlagErrors
<1>7. AcceptedIsConsistent'
  BY <1>3 DEF AcceptedIsConsistent, Accepted
<1> QED
  BY <1>4, <1>5, <1>6, <1>7 DEF CfgInv

(* Between the flags and the verdict only an unset network manager changes, *)
(* and what fails there is a matter of the image.                           *)
LEMMA MiddleStep == CfgInv /\ (Inspect \/ NewDockerfile) => CfgInv'
<1> SUFFICES ASSUME CfgInv, Inspect \/ NewDockerfile PROVE CfgInv'
  OBVIOUS
<1> USE DEF Inspect, NewDockerfile, Check
<1>1. req \in RequestType /\ release \in ReleaseType
  BY DEF CfgInv, TypeOK
<1>2. DefaultNetworkManager(release) \in Names
  BY ConfigAssumption DEF DefaultNetworkManager, KnownNames, NetworkManagers
<1>3. req' \in RequestType /\ release' \in ReleaseType
  BY <1>1, <1>2 DEF RequestType
<1>4. /\ req'.entry = req.entry /\ req'.platform = req.platform
      /\ req'.bootloader = req.bootloader /\ req'.split = req.split
      /\ req'.bootFS = req.bootFS /\ req'.luks = req.luks
  BY <1>1 DEF RequestType
<1>5. /\ phase \in {"inspect", "dockerfile"}
      /\ phase' \in {"dockerfile", "builder", "rejected"}
  OBVIOUS
<1>6. TypeOK'
  <2>1. phase' \in Phases
    BY <1>5 DEF Phases
  <2> QED
    BY <1>3, <2>1 DEF TypeOK
<1>7. FlagsCompleted'
  BY <1>4, <1>5 DEF FlagsCompleted, CfgInv
<1>8. NoLateSurprise'
  <2>1. reasons' \subseteq {"luks release", "release", "network manager"}
    BY DEF InspectErrors, DockerfileErrors
  <2> QED
    BY <2>1 DEF NoLateSurprise
<1>9. AcceptedIsConsistent'
  BY <1>5 DEF AcceptedIsConsistent, Accepted
<1> QED
  BY <1>6, <1>7, <1>8, <1>9 DEF CfgInv

(* NewBuilder accepts what is consistent, and rejects no completed flag.    *)
LEMMA BuilderStep == CfgInv /\ NewBuilder => CfgInv'
<1> SUFFICES ASSUME CfgInv, NewBuilder PROVE CfgInv'
  OBVIOUS
<1> USE DEF NewBuilder, Check
<1>1. req \in RequestType /\ release \in ReleaseType
  BY DEF CfgInv, TypeOK
<1>2. BuilderBootloader(req) \in Names /\ BuilderBootFS(req) \in Names
  BY <1>1, ConfigAssumption
  DEF RequestType, BuilderBootloader, BuilderBootFS, KnownNames, Bootloaders, BootFSs
<1>3. DefaultSize \in Nat
  BY ConfigAssumption DEF DefaultSize
<1>4. req' \in RequestType
  BY <1>1, <1>2, <1>3 DEF RequestType
<1>5. /\ req'.entry = req.entry /\ req'.platform = req.platform
      /\ req'.bootloader = BuilderBootloader(req) /\ req'.split = req.split
      /\ req'.bootFS = BuilderBootFS(req) /\ req'.luks = req.luks
  BY <1>1 DEF RequestType
<1>6. phase = "builder" /\ phase' \in {"accepted", "rejected"}
  OBVIOUS
<1>7. TypeOK'
  BY <1>1, <1>4, <1>6 DEF TypeOK, Phases
<1>8. ASSUME req.entry = "cli"
      PROVE  /\ req.platform \in Amd64 \cup Arm64
             /\ req.platform \in Arm64 => req.bootloader = "grub-efi"
             /\ req.bootFS \in {""} \cup BootFSs
             /\ req.bootloader \in EFI => req.split /\ req.bootFS = "fat32"
             /\ req.luks => req.split
             /\ req.bootloader # ""
  BY <1>6, <1>8 DEF FlagsCompleted, CfgInv
<1>9. FlagsCompleted'
  <2> SUFFICES ASSUME req.entry = "cli" PROVE FlagsCompleted'
    BY <1>5 DEF FlagsCompleted
  <2> QED
    BY <1>5, <1>8 DEF FlagsCompleted, BuilderBootloader, BuilderBootFS, BootFSs, EFI
<1>10. NoLateSurprise'
  <2> SUFFICES ASSUME req.entry = "cli" PROVE NoLateSurprise'
    BY <1>5 DEF NoLateSurprise
  <2>1. BuilderErrors(req, release)
          \cap {"platform", "luks split", "bootFS", "bootloader arch", "bootloader bootFS"} = {}
    BY <1>1, <1>8, BuilderAgrees
  <2> QED
    BY <2>1 DEF NoLateSurprise
<1>11. AcceptedIsConsistent'
  <2> SUFFICES ASSUME phase' = "accepted" PROVE AcceptedIsConsistent'
    BY DEF AcceptedIsConsistent, Accepted
  <2>1. BuilderErrors(req, release) = {}
    OBVIOUS
  <2>2. /\ req.luks => req.split /\ SupportsLUKS(release)
        /\ req.platform \in Arm64 => BuilderBootloader(req) = "grub-efi"
        /\ BuilderBootloader(req) \in EFI =>
             BuilderBootFS(req) = "fat32" /\ release.id \notin EnterpriseLinux
    BY <1>1, <2>1, BuilderSound
  <2>3. req.entry = "cli" => BuilderBootloader(req) = req.bootloader
    BY <1>8 DEF BuilderBootloader
  <2>4. SupportsLUKS(release)' <=> SupportsLUKS(release)
    BY DEF SupportsLUKS
  <2> QED
    BY <1>5, <1>8, <2>2, <2>3, <2>4 DEF AcceptedIsConsistent
<1> QED
  BY <1>7, <1>9, <1>10, <1>11 DEF CfgInv

(* Every layer keeps the agreement of the layers.                           *)
THEOREM ConfigInvariant == Spec => []CfgInv
<1>1. Init => CfgInv
  BY InitCfgInv
<1>2. CfgInv /\ [Next]_vars => CfgInv'
  <2>1. CfgInv /\ UNCHANGED vars => CfgInv'
    BY DEF CfgInv, TypeOK, FlagsCompleted, NoLateSurprise, AcceptedIsConsistent, Accepted,
           SupportsLUKS, vars
  <2> QED
    BY <2>1, FlagsStep, MiddleStep, BuilderStep DEF Next, Decided
<1> QED
  BY <1>1, <1>2, PTL DEF Spec

(* No combination of flags that validateFlags lets pass is one NewBuilder   *)
(* rejects after the docker builds (flags.go:56-98, builder.go:93).         *)
THEOREM FlagsDecide == Spec => []NoLateSurprise
  BY ConfigInvariant, PTL DEF CfgInv

(* An accepted build, asked for by the command line or by a program, is one *)
(* its parts can do: encryption, architecture, firmware and distribution.   *)
THEOREM AcceptedFits == Spec => []AcceptedIsConsistent
  BY ConfigInvariant, PTL DEF CfgInv
==============================================================================
