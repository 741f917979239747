------------------------ MODULE BuilderContractProofs ------------------------
(***************************************************************************)
(* Builder implements BuildContract: every step of a build is a step of    *)
(* its contract or changes nothing the caller can see.  A command that     *)
(* takes or releases a resource is one step of the stack, whether it       *)
(* reports an error or not; IInv says that nothing is taken after an error *)
(* and that the last release of a forward pass leaves nothing.             *)
(***************************************************************************)
EXTENDS BuilderProofs

(* What a step of the build may look like to the caller.                    *)
Allowed == Contract!Next \/ UNCHANGED <<status, held, out>>

(* The contract's step of a command that may take r.                        *)
LEMMA TakesOne ==
    ASSUME NEW r \in Resources, status = "building", status' \in {"building", "failing"},
           held' \in {held, held \cup {r}}, out' = out
    PROVE  Allowed
<1>1. CASE held' = held \cup {r}
  <2>1. Contract!Acquire(r)
    BY <1>1 DEF Contract!Acquire
  <2> QED
    BY <2>1 DEF Allowed, Contract!Next
<1>2. CASE held' = held /\ status' = "failing"
  <2>1. Contract!Fail
    BY <1>2 DEF Contract!Fail
  <2> QED
    BY <2>1 DEF Allowed, Contract!Next
<1>3. CASE held' = held /\ status' = "building"
  BY <1>3 DEF Allowed
<1> QED
  BY <1>1, <1>2, <1>3

(* The contract's step of a command that may release r.                     *)
LEMMA ReleasesOne ==
    ASSUME NEW r \in Resources, status \in {"building", "failing"},
           \/ held' = held
           \/ r \in held /\ Users[r] \cap held = {} /\ held' = held \ {r},
           \/ status' = status
           \/ status' = "failing"
           \/ status = "building" /\ status' = "sealed" /\ held' = {} /\ held # {},
           out' = out
    PROVE  Allowed
<1>1. CASE r \in held /\ Users[r] \cap held = {} /\ held' = held \ {r}
  <2>1. Contract!Release(r)
    BY <1>1 DEF Contract!Release
  <2> QED
    BY <2>1 DEF Allowed, Contract!Next
<1>2. CASE held' = held /\ status' # status
  <2>1. Contract!Fail
    BY <1>2 DEF Contract!Fail
  <2> QED
    BY <2>1 DEF Allowed, Contract!Next
<1>3. CASE held' = held /\ status' = status
  BY <1>3 DEF Allowed
<1> QED
  BY <1>1, <1>2, <1>3

(* Nothing is above a bind mount.                                           *)
LEMMA BindMountIsTop == \A i \in 1 .. 3 : Users[BindPoint[i]] = {}
  BY DEF Users, Resources, BindPoint, BindMounts

(* Nothing is mounted below the boot file system.                           *)
LEMMA BootIsTop == Users["boot"] = {}
  BY DEF Users, Resources, BindMounts

(* Every step of the build is one its contract allows.                      *)
LEMMA StepAllowed == IInv /\ [Next]_vars => Allowed
<1> SUFFICES ASSUME IInv, [Next]_vars PROVE Allowed
  OBVIOUS
<1> USE UsersOf, BootIsTop DEF IInv, status, ErrorsKept, Acquiring, context, grubVars, files, Runs, Refused,
      Interrupted, FirstRelease, Abort, Continue, Plain, Acquire, Release, Releasable, Stale
<1>1. CASE CleanUp
  <2>1. held' = held /\ out' = out
    BY <1>1 DEF CleanUp
  <2>2. CASE pc = "cleanUpFirst"
    <3>1. status = "building" /\ status' \in {"building", "failing"}
      BY <1>1, <2>2 DEF CleanUp
    <3> QED
      BY <2>1, <3>1, TakesOne DEF Resources
  <2>3. CASE pc = "cleanUp" /\ ~err /\ ~err'
    <3>1. Contract!Return
      BY <1>1, <2>1, <2>3 DEF CleanUp, Contract!Return, ReleasedInOrder, EndsClean
    <3> QED
      BY <3>1 DEF Allowed, Contract!Next
  <2>4. CASE pc = "cleanUp" /\ ~err /\ err'
    <3>1. Contract!Fail
      BY <1>1, <2>1, <2>4 DEF CleanUp, Contract!Fail
    <3> QED
      BY <3>1 DEF Allowed, Contract!Next
  <2>5. CASE pc = "cleanUp" /\ err /\ failed
    <3>1. Contract!Return
      BY <1>1, <2>1, <2>5 DEF CleanUp, Contract!Return
    <3> QED
      BY <3>1 DEF Allowed, Contract!Next
  <2>6. CASE pc = "cleanUp" /\ err /\ ~failed
    <3>1. \/ status = "failing" /\ status' \in {"failing", "failed"}
      BY <1>1, <2>6 DEF CleanUp
    <3>2. CASE status' = "failed"
      <4>1. Contract!Return
        BY <2>1, <3>1, <3>2 DEF Contract!Return
      <4> QED
        BY <4>1 DEF Allowed, Contract!Next
    <3> QED
      BY <2>1, <3>1, <3>2 DEF Allowed
  <2> QED
    BY <1>1, <2>2, <2>3, <2>4, <2>5, <2>6 DEF CleanUp
<1>2. CASE Block
  <2>1. status = "building" /\ status' \in {"building", "failing"}
    BY <1>2 DEF Block
  <2>2. held' = held /\ out' = out
    BY <1>2 DEF Block
  <2> QED
    BY <2>1, <2>2, TakesOne DEF Resources
<1>3. CASE Parted
  <2>1. status = "building" /\ status' \in {"building", "failing"}
    BY <1>3 DEF Parted
  <2>2. held' = held /\ out' = out
    BY <1>3 DEF Parted
  <2> QED
    BY <2>1, <2>2, TakesOne DEF Resources
<1>4. CASE Losetup
  <2>1. status = "building" /\ status' \in {"building", "failing"}
    BY <1>4 DEF Losetup
  <2>2. held' \in {held, held \cup {"loop"}} /\ out' = out
    BY <1>4 DEF Losetup
  <2> QED
    BY <2>1, <2>2, TakesOne DEF Resources
<1>5. CASE Kpartx
  <2>1. status = "building" /\ status' \in {"building", "failing"}
    BY <1>5 DEF Kpartx
  <2>2. held' \in {held, held \cup {"maps"}} /\ out' = out
    BY <1>5 DEF Kpartx
  <2> QED
    BY <2>1, <2>2, TakesOne DEF Resources
<1>6. CASE LuksFormat
  <2>1. status = "building" /\ status' \in {"building", "failing"}
    BY <1>6 DEF LuksFormat
  <2>2. held' = held /\ out' = out
    BY <1>6 DEF LuksFormat
  <2> QED
    BY <2>1, <2>2, TakesOne DEF Resources
<1>7. CASE CryptOpen
  <2>1. status = "building" /\ status' \in {"building", "failing"}
    BY <1>7 DEF CryptOpen
  <2>2. held' \in {held, held \cup {"crypt"}} /\ out' = out
    BY <1>7 DEF CryptOpen
  <2> QED
    BY <2>1, <2>2, TakesOne DEF Resources
<1>8. CASE MountRoot
  <2>1. status = "building" /\ status' \in {"building", "failing"}
    BY <1>8 DEF MountRoot
  <2>2. held' \in {held, held \cup {"root"}} /\ out' = out
    BY <1>8 DEF MountRoot
  <2> QED
    BY <2>1, <2>2, TakesOne DEF Resources
<1>9. CASE MountBoot
  <2>1. status = "building" /\ status' \in {"building", "failing"}
    BY <1>9 DEF MountBoot
  <2>2. held' \in {held, held \cup {"boot"}} /\ out' = out
    BY <1>9 DEF MountBoot
  <2> QED
    BY <2>1, <2>2, TakesOne DEF Resources
<1>10. CASE CopyRootFS
  <2>1. status = "building" /\ status' \in {"building", "failing"}
    BY <1>10 DEF CopyRootFS
  <2>2. held' = held /\ out' = out
    BY <1>10 DEF CopyRootFS
  <2> QED
    BY <2>1, <2>2, TakesOne DEF Resources
<1>11. CASE SetupRootFS
  <2>1. status = "building" /\ status' \in {"building", "failing"}
    BY <1>11 DEF SetupRootFS
  <2>2. held' = held /\ out' = out
    BY <1>11 DEF SetupRootFS
  <2> QED
    BY <2>1, <2>2, TakesOne DEF Resources
<1>12. CASE Syslinux
  <2>1. status = "building" /\ status' \in {"building", "failing"}
    BY <1>12 DEF Syslinux
  <2>2. held' = held /\ out' = out
    BY <1>12 DEF Syslinux
  <2> QED
    BY <2>1, <2>2, TakesOne DEF Resources
<1>13. CASE Bind
  <2>1. bound + 1 \in 1 .. 3
    BY <1>13, BindPointType DEF Bind, TypeOK, CleanInOrder
  <2>2. BindPoint[bound + 1] \in Resources
    BY <2>1, BindPointType DEF Resources
  <2>3. status = "building" /\ status' \in {"building", "failing"}
    BY <1>13 DEF Bind, GrubFails
  <2>4. held' \in {held, held \cup {BindPoint[bound + 1]}} /\ out' = out
    BY <1>13 DEF Bind
  <2> QED
    BY <2>2, <2>3, <2>4, TakesOne
<1>14. CASE GrubInstall
  <2>1. status = "building" /\ status' \in {"building", "failing"}
    BY <1>14 DEF GrubInstall, GrubFails
  <2>2. held' = held /\ out' = out
    BY <1>14 DEF GrubInstall, GrubFails
  <2> QED
    BY <2>1, <2>2, TakesOne DEF Resources
<1>15. CASE GrubClean
  <2>1. undone + 1 \in 1 .. 3
    BY <1>15, BindPointType DEF GrubClean, TypeOK, CleanInOrder
  <2>2. BindPoint[undone + 1] \in Resources /\ Users[BindPoint[undone + 1]] = {}
    BY <2>1, BindPointType, BindMountIsTop DEF Resources
  <2>3. status \in {"building", "failing"} /\ status' = status /\ out' = out
    BY <1>15 DEF GrubClean
  <2>4. held' \in {held, held \ {BindPoint[undone + 1]}}
    BY <1>15 DEF GrubClean
  <2>5. \/ held' = held
        \/ /\ BindPoint[undone + 1] \in held /\ held' = held \ {BindPoint[undone + 1]}
           /\ Users[BindPoint[undone + 1]] \cap held = {}
    BY <2>2, <2>4
  <2> QED
    BY <2>2, <2>3, <2>5, ReleasesOne
<1>16. CASE UmountBoot
  <2>1. status \in {"building", "failing"} /\ out' = out
    BY <1>16 DEF UmountBoot
  <2>2. status' = status \/ status' = "failing"
    BY <1>16 DEF UmountBoot
  <2>3. \/ held' = held
        \/ "boot" \in held /\ Users["boot"] \cap held = {} /\ held' = held \ {"boot"}
    BY <1>16 DEF UmountBoot
  <2> QED
    BY <2>1, <2>2, <2>3, ReleasesOne DEF Resources
<1>17. CASE UmountRoot
  <2>1. status \in {"building", "failing"} /\ out' = out
    BY <1>17 DEF UmountRoot
  <2>2. status' = status \/ status' = "failing"
    BY <1>17 DEF UmountRoot
  <2>3. \/ held' = held
        \/ "root" \in held /\ Users["root"] \cap held = {} /\ held' = held \ {"root"}
    BY <1>17 DEF UmountRoot
  <2> QED
    BY <2>1, <2>2, <2>3, ReleasesOne DEF Resources
<1>18. CASE CryptClose
  <2>1. status \in {"building", "failing"} /\ out' = out
    BY <1>18 DEF CryptClose
  <2>2. status' = status \/ status' = "failing"
    BY <1>18 DEF CryptClose
  <2>3. \/ held' = held
        \/ "crypt" \in held /\ Users["crypt"] \cap held = {} /\ held' = held \ {"crypt"}
    BY <1>18 DEF CryptClose
  <2> QED
    BY <2>1, <2>2, <2>3, ReleasesOne DEF Resources
<1>19. CASE KpartxDel
  <2>1. status \in {"building", "failing"} /\ out' = out
    BY <1>19 DEF KpartxDel
  <2>2. status' = status \/ status' = "failing"
    BY <1>19 DEF KpartxDel
  <2>3. \/ held' = held
        \/ "maps" \in held /\ Users["maps"] \cap held = {} /\ held' = held \ {"maps"}
    BY <1>19 DEF KpartxDel
  <2> QED
    BY <2>1, <2>2, <2>3, ReleasesOne DEF Resources
<1>20. CASE LosetupDel
  <2>1. status \in {"building", "failing"} /\ out' = out
    BY <1>20 DEF LosetupDel
  <2>2. \/ held' = held
        \/ "loop" \in held /\ Users["loop"] \cap held = {} /\ held' = held \ {"loop"}
    BY <1>20 DEF LosetupDel
  <2>3. CASE err'
    <3>1. status' = "failing"
      BY <1>20, <2>3 DEF LosetupDel
    <3> QED
      BY <2>1, <2>2, <3>1, ReleasesOne DEF Resources
  <2>4. CASE ~err'
    <3>1. held' = {} /\ held # {}
      BY <1>20, <2>4 DEF LosetupDel, ReleasedInOrder, GivenBackLast
    <3>2. status = "building" /\ status' = "sealed"
      BY <1>20, <2>4 DEF LosetupDel
    <3> QED
      BY <2>1, <2>2, <3>1, <3>2, ReleasesOne DEF Resources
  <2> QED
    BY <2>3, <2>4
<1>21. CASE Convert2Img
  <2>1. status = "sealed" /\ out = "none" /\ held' = held
    BY <1>21 DEF Convert2Img, WrittenLast
  <2>2. \/ out' = "complete" /\ status' = "sealed"
        \/ out' \in {"none", "partial", "complete"} /\ status' = "failing"
    BY <1>21 DEF Convert2Img
  <2>3. Contract!Write
    BY <2>1, <2>2 DEF Contract!Write
  <2> QED
    BY <2>3 DEF Allowed, Contract!Next
<1>22. CASE Close
  <2>1. Contract!Dispose
    BY <1>22 DEF Close, Contract!Dispose
  <2> QED
    BY <2>1 DEF Allowed, Contract!Next
<1>23. CASE Cancel
  BY <1>23 DEF Cancel, Allowed
<1>24. CASE OtherAttach
  BY <1>24 DEF OtherAttach, Allowed
<1>25. CASE Closed
  BY <1>25 DEF Closed, vars, Allowed
<1>26. CASE UNCHANGED vars
  BY <1>26 DEF vars, Allowed
<1> QED
  BY <1>1, <1>2, <1>3, <1>4, <1>5, <1>6, <1>7, <1>8, <1>9, <1>10, <1>11, <1>12, <1>13,
     <1>14, <1>15, <1>16, <1>17, <1>18, <1>19, <1>20, <1>21, <1>22, <1>23, <1>24, <1>25, <1>26 DEF Next, Step

(* A build keeps its contract: resources form a stack, nothing is taken     *)
(* after a failure, the image is written while nothing is held, and success *)
(* means a complete image and an empty stack.                               *)
THEOREM KeepsContract == Spec => ImplementsContract
<1>1. Init => Contract!Init
  BY DEF Init, Contract!Init, status
<1>2. IInv /\ [Next]_vars => [Contract!Next]_Contract!contractVars
  BY StepAllowed DEF Allowed, Contract!contractVars
<1> QED
  BY <1>1, <1>2, InductiveInvariant, PTL DEF Spec, ImplementsContract, Contract!Spec
==============================================================================
