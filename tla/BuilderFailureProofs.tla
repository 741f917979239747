------------------------- MODULE BuilderFailureProofs -------------------------
(***************************************************************************)
(* What a failed build leaves on the host.  A command that releases works  *)
(* when its resource is free and can be named; the deferred handler goes   *)
(* through the stack from the top, so each of its commands finds its       *)
(* resource free unless an interrupt lost a handle or a bind mount         *)
(* (Unstacked).  Without interrupts nothing is lost (BindsRecorded,        *)
(* HandlesKept), and a forward pass that holds everything it took (Taken)  *)
(* does not fail at releasing it, so the handler never runs on a loop      *)
(* device given back (OnlyOwnDevice).                                      *)
(***************************************************************************)
EXTENDS BuilderProofs

(* Nothing is mounted below the boot file system.                           *)
LEMMA BootIsTop == Users["boot"] = {}
  BY DEF Users, Resources, BindMounts

(* The bind points differ.                                                  *)
LEMMA BindPointsDiffer ==
    \A i, j \in 1 .. 3 : BindPoint[i] = BindPoint[j] => i = j
  BY DEF BindPoint

(* No bind point is a resource of the stack below it.                       *)
LEMMA BindPointsApart ==
    \A i \in 1 .. 3 : BindPoint[i] \notin {"loop", "maps", "crypt", "root", "boot"}
  BY DEF BindPoint

(* A build that has not started satisfies the invariant.                    *)
LEMMA InitFailureInv == Init => FailureInv
<1> SUFFICES ASSUME Init PROVE FailureInv
  OBVIOUS
<1>1. IInv /\ MapsOnLoop
  BY InitIInv DEF Init, MapsOnLoop
<1>2. ErrorPath
  BY DEF Init, ErrorPath, Releasing
<1>3. BindsRecorded /\ HandlesKept
  BY DEF Init, BindsRecorded, HandlesKept
<1>4. Unstacked /\ OnlyOwnDevice
  BY DEF Init, Unstacked, OnlyOwnDevice, Stale, Releasing
<1>5. Taken
  BY DEF Init, Taken, Mounted, Releasing
<1> QED
  BY <1>1, <1>2, <1>3, <1>4, <1>5 DEF FailureInv

(* Once an error is seen, only releases are left.                           *)
LEMMA ErrorPathStep == FailureInv /\ [Next]_vars => ErrorPath'
<1> SUFFICES ASSUME FailureInv, [Next]_vars PROVE ErrorPath'
  OBVIOUS
<1> USE DEF FailureInv, IInv, ErrorPath, ErrorsKept, Acquiring, Cleanup, Releasing, context, grubVars, files, Runs, Refused, Interrupted,
      FirstRelease, Abort, Continue, Plain, Acquire, Release, Releasable, Addressable, Stale, Flaky, MayCancel
<1>1. CASE CleanUp
  BY <1>1 DEF CleanUp
<1>2. CASE Block
  BY <1>2 DEF Block
<1>3. CASE Parted
  BY <1>3 DEF Parted
<1>4. CASE Losetup
  BY <1>4 DEF Losetup
<1>5. CASE Kpartx
  BY <1>5 DEF Kpartx
<1>6. CASE LuksFormat
  BY <1>6 DEF LuksFormat
<1>7. CASE CryptOpen
  BY <1>7 DEF CryptOpen
<1>8. CASE MountRoot
  BY <1>8 DEF MountRoot
<1>9. CASE MountBoot
  BY <1>9 DEF MountBoot
<1>10. CASE CopyRootFS
  BY <1>10 DEF CopyRootFS
<1>11. CASE SetupRootFS
  BY <1>11 DEF SetupRootFS
<1>12. CASE Syslinux
  BY <1>12 DEF Syslinux
<1>13. CASE Bind
  <2>1. bound + 1 \in 1 .. 3
    BY <1>13, BindPointType DEF Bind, IInv, TypeOK, CleanInOrder
  <2> QED
    BY <1>13, <2>1, BindPointType, BindPointsApart DEF Bind, GrubFails
<1>14. CASE GrubInstall
  BY <1>14 DEF GrubInstall, GrubFails
<1>15. CASE GrubClean
  BY <1>15 DEF GrubClean
<1>16. CASE UmountBoot
  BY <1>16 DEF UmountBoot
<1>17. CASE UmountRoot
  BY <1>17 DEF UmountRoot
<1>18. CASE CryptClose
  BY <1>18 DEF CryptClose
<1>19. CASE KpartxDel
  BY <1>19 DEF KpartxDel
<1>20. CASE LosetupDel
  BY <1>20 DEF LosetupDel
<1>21. CASE Convert2Img
  BY <1>21 DEF Convert2Img
<1>22. CASE Close
  BY <1>22 DEF Close
<1>23. CASE Cancel
  BY <1>23 DEF Cancel
<1>24. CASE OtherAttach
  BY <1>24 DEF OtherAttach
<1>25. CASE Closed
  BY <1>25 DEF Closed, vars
<1>26. CASE UNCHANGED vars
  BY <1>26 DEF vars
<1> QED
  BY <1>1, <1>2, <1>3, <1>4, <1>5, <1>6, <1>7, <1>8, <1>9, <1>10, <1>11, <1>12, <1>13,
     <1>14, <1>15, <1>16, <1>17, <1>18, <1>19, <1>20, <1>21, <1>22, <1>23, <1>24, <1>25, <1>26 DEF Next, Step

(* The loop device is not released while its maps exist.                    *)
LEMMA MapsOnLoopStep == FailureInv /\ [Next]_vars => MapsOnLoop'
<1> SUFFICES ASSUME FailureInv, [Next]_vars PROVE MapsOnLoop'
  OBVIOUS
<1> USE UsersOf DEF FailureInv, MapsOnLoop, context, grubVars, files, Runs, Refused, Interrupted,
      FirstRelease, Abort, Continue, Plain, Acquire, Release, Releasable, Addressable, Stale, Flaky, MayCancel
<1>1. CASE CleanUp
  BY <1>1 DEF CleanUp
<1>2. CASE Block
  BY <1>2 DEF Block
<1>3. CASE Parted
  BY <1>3 DEF Parted
<1>4. CASE Losetup
  BY <1>4 DEF Losetup
<1>5. CASE Kpartx
  BY <1>5 DEF Kpartx
<1>6. CASE LuksFormat
  BY <1>6 DEF LuksFormat
<1>7. CASE CryptOpen
  BY <1>7 DEF CryptOpen
<1>8. CASE MountRoot
  BY <1>8 DEF MountRoot
<1>9. CASE MountBoot
  BY <1>9 DEF MountBoot
<1>10. CASE CopyRootFS
  BY <1>10 DEF CopyRootFS
<1>11. CASE SetupRootFS
  BY <1>11 DEF SetupRootFS
<1>12. CASE Syslinux
  BY <1>12 DEF Syslinux
<1>13. CASE Bind
  <2>1. bound + 1 \in 1 .. 3
    BY <1>13, BindPointType DEF Bind, IInv, TypeOK, CleanInOrder
  <2> QED
    BY <1>13, <2>1, BindPointType, BindPointsApart DEF Bind, GrubFails
<1>14. CASE GrubInstall
  BY <1>14 DEF GrubInstall, GrubFails
<1>15. CASE GrubClean
  <2>1. undone + 1 \in 1 .. 3
    BY <1>15, BindPointType DEF GrubClean, IInv, TypeOK, CleanInOrder
  <2> QED
    BY <1>15, <2>1, BindPointsApart DEF GrubClean
<1>16. CASE UmountBoot
  BY <1>16 DEF UmountBoot
<1>17. CASE UmountRoot
  BY <1>17 DEF UmountRoot
<1>18. CASE CryptClose
  BY <1>18 DEF CryptClose
<1>19. CASE KpartxDel
  BY <1>19 DEF KpartxDel
<1>20. CASE LosetupDel
  BY <1>20 DEF LosetupDel
<1>21. CASE Convert2Img
  BY <1>21 DEF Convert2Img
<1>22. CASE Close
  BY <1>22 DEF Close
<1>23. CASE Cancel
  BY <1>23 DEF Cancel
<1>24. CASE OtherAttach
  BY <1>24 DEF OtherAttach
<1>25. CASE Closed
  BY <1>25 DEF Closed, vars
<1>26. CASE UNCHANGED vars
  BY <1>26 DEF vars
<1> QED
  BY <1>1, <1>2, <1>3, <1>4, <1>5, <1>6, <1>7, <1>8, <1>9, <1>10, <1>11, <1>12, <1>13,
     <1>14, <1>15, <1>16, <1>17, <1>18, <1>19, <1>20, <1>21, <1>22, <1>23, <1>24, <1>25, <1>26 DEF Next, Step

(* Every bind mount is recorded before the next, and clean() undoes each.   *)
LEMMA BindsRecordedStep == FailureInv /\ [Next]_vars => BindsRecorded'
<1> SUFFICES ASSUME FailureInv, [Next]_vars PROVE BindsRecorded'
  OBVIOUS
<1> USE DEF FailureInv, IInv, BindsRecorded, ErrorPath, BindMounts, Releasing, context, grubVars, files, Runs, Refused, Interrupted,
      FirstRelease, Abort, Continue, Plain, Acquire, Release, Releasable, Addressable, Stale, Flaky, MayCancel
<1>1. CASE CleanUp
  BY <1>1 DEF CleanUp
<1>2. CASE Block
  BY <1>2 DEF Block
<1>3. CASE Parted
  BY <1>3 DEF Parted
<1>4. CASE Losetup
  BY <1>4 DEF Losetup
<1>5. CASE Kpartx
  BY <1>5 DEF Kpartx
<1>6. CASE LuksFormat
  BY <1>6 DEF LuksFormat
<1>7. CASE CryptOpen
  BY <1>7 DEF CryptOpen
<1>8. CASE MountRoot
  BY <1>8 DEF MountRoot
<1>9. CASE MountBoot
  BY <1>9 DEF MountBoot
<1>10. CASE CopyRootFS
  BY <1>10 DEF CopyRootFS
<1>11. CASE SetupRootFS
  <2> SUFFICES ASSUME ~MayCancel PROVE BindsRecorded'
    BY <1>11 DEF SetupRootFS
  <2>1. held' = held /\ undone' = 0 /\ bound' = 0
    BY <1>11 DEF SetupRootFS, CleanInOrder, Acquiring
  <2>2. {BindPoint[i] : i \in (undone' + 1) .. bound'} = {}
    BY <2>1
  <2>3. wiped' \cap BindMounts = wiped \cap BindMounts
    BY <1>11 DEF SetupRootFS
  <2>4. pc = "setupRootFS" /\ cfg' = cfg
    BY <1>11 DEF SetupRootFS
  <2> QED
    BY <2>1, <2>2, <2>3, <2>4
<1>12. CASE Syslinux
  BY <1>12 DEF Syslinux
<1>13. CASE Bind
  <2> DEFINE Recorded(n) == {BindPoint[i] : i \in 1 .. n}
  <2> SUFFICES ASSUME ~MayCancel, "grubClean" \notin Flaky PROVE BindsRecorded'
    BY <1>13 DEF Bind
  <2>1. undone = 0 /\ undone' = 0 /\ bound \in 0 .. 2
    BY <1>13, BindPointType DEF Bind, CleanInOrder, Acquiring, TypeOK
  <2>2. held \cap BindMounts = Recorded(bound) /\ wiped' \cap BindMounts = {}
    BY <1>13, <2>1 DEF Bind
  <2>3. CASE /\ held' = held \cup {BindPoint[bound + 1]}
             /\ bound' = bound + 1 /\ pc' \in {"bind", "grubInstall"}
    <3>1. Recorded(bound + 1) = Recorded(bound) \cup {BindPoint[bound + 1]}
      BY <2>1
    <3>2. BindPoint[bound + 1] \in BindMounts
      BY <2>1, BindPointType
    <3> QED
      BY <2>1, <2>2, <2>3, <3>1, <3>2
  <2>4. CASE held' = held /\ bound' = bound /\ GrubFails
    <3>1. CASE bound = 0
      <4>1. Recorded(bound) = {}
        BY <3>1
      <4>2. pc' = FirstRelease
        BY <2>4, <3>1 DEF GrubFails
      <4> QED
        BY <2>2, <2>4, <4>1, <4>2
    <3>2. CASE bound # 0
      BY <2>1, <2>2, <2>4, <3>2 DEF GrubFails
    <3> QED
      BY <3>1, <3>2
  <2> QED
    BY <1>13, <2>3, <2>4 DEF Bind
<1>14. CASE GrubInstall
  <2>1. pc' = "grubClean"
    BY <1>14, BindPointType DEF GrubInstall, GrubFails, CleanInOrder
  <2> QED
    BY <1>14, <2>1 DEF GrubInstall
<1>15. CASE GrubClean
  <2> DEFINE Left(n) == {BindPoint[i] : i \in (n + 1) .. bound}
  <2> SUFFICES ASSUME ~MayCancel, "grubClean" \notin Flaky PROVE BindsRecorded'
    BY <1>15 DEF GrubClean
  <2>1. bound \in 1 .. 3 /\ undone \in 0 .. 2 /\ undone < bound
    BY <1>15, BindPointType DEF GrubClean, CleanInOrder, TypeOK
  <2>2. held' = held \ {BindPoint[undone + 1]} /\ undone' = undone + 1 /\ bound' = bound
    BY <1>15 DEF GrubClean
  <2>3. held \cap BindMounts = Left(undone) /\ wiped' \cap BindMounts = {}
    BY <1>15 DEF GrubClean
  <2>4. Left(undone + 1) = Left(undone) \ {BindPoint[undone + 1]}
    BY <2>1, BindPointsDiffer
  <2>5. held' \cap BindMounts = Left(undone')
    BY <2>2, <2>3, <2>4
  <2>6. CASE undone' < bound
    BY <1>15, <2>2, <2>3, <2>5, <2>6 DEF GrubClean
  <2>7. CASE ~(undone' < bound)
    <3>1. Left(undone') = {}
      BY <2>1, <2>2, <2>7
    <3>2. pc' = FirstRelease
      BY <1>15, <2>2, <2>7 DEF GrubClean
    <3> QED
      BY <2>3, <2>5, <3>1, <3>2
  <2> QED
    BY <2>6, <2>7
<1>16. CASE UmountBoot
  BY <1>16 DEF UmountBoot
<1>17. CASE UmountRoot
  BY <1>17 DEF UmountRoot
<1>18. CASE CryptClose
  BY <1>18 DEF CryptClose
<1>19. CASE KpartxDel
  BY <1>19 DEF KpartxDel
<1>20. CASE LosetupDel
  BY <1>20 DEF LosetupDel
<1>21. CASE Convert2Img
  BY <1>21 DEF Convert2Img
<1>22. CASE Close
  BY <1>22 DEF Close
<1>23. CASE Cancel
  BY <1>23 DEF Cancel
<1>24. CASE OtherAttach
  BY <1>24 DEF OtherAttach
<1>25. CASE Closed
  BY <1>25 DEF Closed, vars
<1>26. CASE UNCHANGED vars
  BY <1>26 DEF vars
<1> QED
  BY <1>1, <1>2, <1>3, <1>4, <1>5, <1>6, <1>7, <1>8, <1>9, <1>10, <1>11, <1>12, <1>13,
     <1>14, <1>15, <1>16, <1>17, <1>18, <1>19, <1>20, <1>21, <1>22, <1>23, <1>24, <1>25, <1>26 DEF Next, Step

(* A command that takes the loop device or the mapping and returns leaves   *)
(* its handle.                                                              *)
LEMMA HandlesKeptStep == FailureInv /\ [Next]_vars => HandlesKept'
<1> SUFFICES ASSUME FailureInv, [Next]_vars PROVE HandlesKept'
  OBVIOUS
<1> USE DEF FailureInv, HandlesKept, ErrorPath, context, grubVars, files, Runs, Refused, Interrupted,
      FirstRelease, Abort, Continue, Plain, Acquire, Release, Releasable, Addressable, Stale, Flaky, MayCancel
<1>1. CASE CleanUp
  BY <1>1 DEF CleanUp
<1>2. CASE Block
  BY <1>2 DEF Block
<1>3. CASE Parted
  BY <1>3 DEF Parted
<1>4. CASE Losetup
  BY <1>4 DEF Losetup
<1>5. CASE Kpartx
  BY <1>5 DEF Kpartx
<1>6. CASE LuksFormat
  BY <1>6 DEF LuksFormat
<1>7. CASE CryptOpen
  BY <1>7 DEF CryptOpen
<1>8. CASE MountRoot
  BY <1>8 DEF MountRoot
<1>9. CASE MountBoot
  BY <1>9 DEF MountBoot
<1>10. CASE CopyRootFS
  BY <1>10 DEF CopyRootFS
<1>11. CASE SetupRootFS
  BY <1>11 DEF SetupRootFS
<1>12. CASE Syslinux
  BY <1>12 DEF Syslinux
<1>13. CASE Bind
  <2>1. bound + 1 \in 1 .. 3
    BY <1>13, BindPointType DEF Bind, IInv, TypeOK, CleanInOrder
  <2> QED
    BY <1>13, <2>1, BindPointType, BindPointsApart DEF Bind, GrubFails
<1>14. CASE GrubInstall
  BY <1>14 DEF GrubInstall, GrubFails
<1>15. CASE GrubClean
  BY <1>15 DEF GrubClean
<1>16. CASE UmountBoot
  BY <1>16 DEF UmountBoot
<1>17. CASE UmountRoot
  BY <1>17 DEF UmountRoot
<1>18. CASE CryptClose
  BY <1>18 DEF CryptClose
<1>19. CASE KpartxDel
  BY <1>19 DEF KpartxDel
<1>20. CASE LosetupDel
  BY <1>20 DEF LosetupDel
<1>21. CASE Convert2Img
  BY <1>21 DEF Convert2Img
<1>22. CASE Close
  BY <1>22 DEF Close
<1>23. CASE Cancel
  BY <1>23 DEF Cancel
<1>24. CASE OtherAttach
  BY <1>24 DEF OtherAttach
<1>25. CASE Closed
  BY <1>25 DEF Closed, vars
<1>26. CASE UNCHANGED vars
  BY <1>26 DEF vars
<1> QED
  BY <1>1, <1>2, <1>3, <1>4, <1>5, <1>6, <1>7, <1>8, <1>9, <1>10, <1>11, <1>12, <1>13,
     <1>14, <1>15, <1>16, <1>17, <1>18, <1>19, <1>20, <1>21, <1>22, <1>23, <1>24, <1>25, <1>26 DEF Next, Step

(* A pass of unmountImg empties the stack from the top.                     *)
LEMMA UnstackedStep == FailureInv /\ [Next]_vars => Unstacked'
<1> SUFFICES ASSUME FailureInv, [Next]_vars PROVE Unstacked'
  OBVIOUS
<1> USE UsersOf DEF FailureInv, IInv, Unstacked, ErrorPath, ReleasedInOrder, ErrorsKept, Cleanup, Releasing, Acquiring, context, grubVars, files, Runs, Refused, Interrupted,
      FirstRelease, Abort, Continue, Plain, Acquire, Release, Releasable, Addressable, Stale, Flaky, MayCancel
<1>1. CASE CleanUp
  BY <1>1 DEF CleanUp
<1>2. CASE Block
  BY <1>2 DEF Block
<1>3. CASE Parted
  BY <1>3 DEF Parted
<1>4. CASE Losetup
  BY <1>4 DEF Losetup
<1>5. CASE Kpartx
  BY <1>5 DEF Kpartx
<1>6. CASE LuksFormat
  BY <1>6 DEF LuksFormat
<1>7. CASE CryptOpen
  BY <1>7 DEF CryptOpen
<1>8. CASE MountRoot
  BY <1>8 DEF MountRoot
<1>9. CASE MountBoot
  BY <1>9 DEF MountBoot
<1>10. CASE CopyRootFS
  BY <1>10 DEF CopyRootFS
<1>11. CASE SetupRootFS
  BY <1>11 DEF SetupRootFS
<1>12. CASE Syslinux
  BY <1>12 DEF Syslinux
<1>13. CASE Bind
  <2>1. bound + 1 \in 1 .. 3
    BY <1>13, BindPointType DEF Bind, IInv, TypeOK, CleanInOrder
  <2> QED
    BY <1>13, <2>1, BindPointType, BindPointsApart DEF Bind, GrubFails
<1>14. CASE GrubInstall
  BY <1>14 DEF GrubInstall, GrubFails
<1>15. CASE GrubClean
  BY <1>15 DEF GrubClean
<1>16. CASE UmountBoot
  BY <1>16, BootIsTop DEF UmountBoot
<1>17. CASE UmountRoot
  <2> SUFFICES ASSUME Flaky \cap Cleanup = {}, failed \/ ~MayCancel,
                      held' \cap {"loop", "crypt"} \subseteq known,
                      held' \cap BindMounts = {}
               PROVE  held' \subseteq (IF cfg.luks THEN {"crypt", "maps", "loop"}
                                      ELSE {"maps", "loop"})
    BY <1>17 DEF UmountRoot
  <2>1. held' = IF Releasable("root") THEN held \ {"root"} ELSE held
    BY <1>17 DEF UmountRoot
  <2>2. held \cap ({"boot"} \cup BindMounts) = {}
    BY <1>17, <2>1 DEF UmountRoot, BindMounts
  <2>3. "root" \notin held'
    BY <2>1, <2>2
  <2> QED
    BY <2>1, <2>2, <2>3 DEF TypeOK, Resources, OnlyLuksMaps
<1>18. CASE CryptClose
  <2> SUFFICES ASSUME Flaky \cap Cleanup = {}, failed \/ ~MayCancel,
                      held' \cap {"loop", "crypt"} \subseteq known,
                      held' \cap BindMounts = {}
               PROVE  held' \subseteq {"maps", "loop"}
    BY <1>18 DEF CryptClose
  <2>1. held' = IF Releasable("crypt") THEN held \ {"crypt"} ELSE held
    BY <1>18 DEF CryptClose
  <2>2. held \cap {"loop", "crypt"} \subseteq known /\ held \cap BindMounts = {}
    BY <2>1 DEF BindMounts
  <2>3. held \subseteq {"crypt", "maps", "loop"}
    BY <1>18, <2>2 DEF CryptClose
  <2> QED
    BY <2>1, <2>2, <2>3
<1>19. CASE KpartxDel
  <2> SUFFICES ASSUME Flaky \cap Cleanup = {}, failed \/ ~MayCancel,
                      held' \cap {"loop", "crypt"} \subseteq known,
                      held' \cap BindMounts = {}
               PROVE  held' \subseteq {"loop"}
    BY <1>19 DEF KpartxDel
  <2>1. held' = IF Releasable("maps") THEN held \ {"maps"} ELSE held
    BY <1>19 DEF KpartxDel, MapsOnLoop
  <2>2. held \cap {"loop", "crypt"} \subseteq known /\ held \cap BindMounts = {}
    BY <2>1 DEF BindMounts
  <2>3. held \subseteq {"maps", "loop"}
    BY <1>19, <2>2 DEF KpartxDel
  <2> QED
    BY <2>1, <2>2, <2>3 DEF MapsOnLoop
<1>20. CASE LosetupDel
  <2> SUFFICES ASSUME Flaky \cap Cleanup = {}, failed' \/ ~MayCancel,
                      held' \cap {"loop", "crypt"} \subseteq known,
                      held' \cap BindMounts = {}
               PROVE  /\ pc' = "umountRoot" => "boot" \notin held'
                      /\ pc' = "cleanUp" => held' = {}
    BY <1>20 DEF LosetupDel
  <2>1. pc' = "umountRoot" => "boot" \notin held'
    BY <1>20 DEF LosetupDel
  <2>2. CASE failed /\ pc' = "cleanUp"
    <3>1. held' = IF Releasable("loop") THEN held \ {"loop"} ELSE held
      BY <1>20, <2>2 DEF LosetupDel
    <3>2. held \cap {"loop", "crypt"} \subseteq known /\ held \cap BindMounts = {}
      BY <3>1 DEF BindMounts
    <3>3. held \subseteq {"loop"}
      BY <1>20, <2>2, <3>2 DEF LosetupDel
    <3> QED
      BY <2>1, <3>1, <3>2, <3>3
  <2> QED
    BY <1>20, <2>1, <2>2 DEF LosetupDel
<1>21. CASE Convert2Img
  BY <1>21 DEF Convert2Img
<1>22. CASE Close
  BY <1>22 DEF Close
<1>23. CASE Cancel
  BY <1>23 DEF Cancel
<1>24. CASE OtherAttach
  BY <1>24 DEF OtherAttach
<1>25. CASE Closed
  BY <1>25 DEF Closed, vars
<1>26. CASE UNCHANGED vars
  BY <1>26 DEF vars
<1> QED
  BY <1>1, <1>2, <1>3, <1>4, <1>5, <1>6, <1>7, <1>8, <1>9, <1>10, <1>11, <1>12, <1>13,
     <1>14, <1>15, <1>16, <1>17, <1>18, <1>19, <1>20, <1>21, <1>22, <1>23, <1>24, <1>25, <1>26 DEF Next, Step

(* The forward pass holds what it took until it releases it.                *)
LEMMA TakenStep == FailureInv /\ [Next]_vars => Taken'
<1> SUFFICES ASSUME FailureInv, [Next]_vars PROVE Taken'
  OBVIOUS
<1> USE DEF FailureInv, IInv, Taken, ErrorPath, ErrorsKept, Mounted, Releasing, Acquiring, context, grubVars, files, Runs, Refused, Interrupted,
      FirstRelease, Abort, Continue, Plain, Acquire, Release, Releasable, Addressable, Stale, Flaky, MayCancel
<1>1. CASE CleanUp
  BY <1>1 DEF CleanUp
<1>2. CASE Block
  BY <1>2 DEF Block
<1>3. CASE Parted
  BY <1>3 DEF Parted
<1>4. CASE Losetup
  BY <1>4 DEF Losetup
<1>5. CASE Kpartx
  BY <1>5 DEF Kpartx
<1>6. CASE LuksFormat
  BY <1>6 DEF LuksFormat
<1>7. CASE CryptOpen
  BY <1>7 DEF CryptOpen
<1>8. CASE MountRoot
  BY <1>8 DEF MountRoot
<1>9. CASE MountBoot
  BY <1>9 DEF MountBoot
<1>10. CASE CopyRootFS
  BY <1>10 DEF CopyRootFS
<1>11. CASE SetupRootFS
  BY <1>11 DEF SetupRootFS
<1>12. CASE Syslinux
  BY <1>12 DEF Syslinux
<1>13. CASE Bind
  BY <1>13 DEF Bind, GrubFails
<1>14. CASE GrubInstall
  BY <1>14 DEF GrubInstall, GrubFails
<1>15. CASE GrubClean
  <2>1. undone + 1 \in 1 .. 3
    BY <1>15, BindPointType DEF GrubClean, IInv, TypeOK, CleanInOrder
  <2> QED
    BY <1>15, <2>1, BindPointsApart DEF GrubClean
<1>16. CASE UmountBoot
  BY <1>16 DEF UmountBoot
<1>17. CASE UmountRoot
  BY <1>17 DEF UmountRoot
<1>18. CASE CryptClose
  BY <1>18 DEF CryptClose
<1>19. CASE KpartxDel
  BY <1>19 DEF KpartxDel
<1>20. CASE LosetupDel
  BY <1>20 DEF LosetupDel
<1>21. CASE Convert2Img
  BY <1>21 DEF Convert2Img
<1>22. CASE Close
  BY <1>22 DEF Close
<1>23. CASE Cancel
  BY <1>23 DEF Cancel
<1>24. CASE OtherAttach
  BY <1>24 DEF OtherAttach
<1>25. CASE Closed
  BY <1>25 DEF Closed, vars
<1>26. CASE UNCHANGED vars
  BY <1>26 DEF vars
<1> QED
  BY <1>1, <1>2, <1>3, <1>4, <1>5, <1>6, <1>7, <1>8, <1>9, <1>10, <1>11, <1>12, <1>13,
     <1>14, <1>15, <1>16, <1>17, <1>18, <1>19, <1>20, <1>21, <1>22, <1>23, <1>24, <1>25, <1>26 DEF Next, Step

(* A forward pass that took everything releases everything.                 *)
LEMMA OnlyOwnDeviceStep == FailureInv /\ [Next]_vars => OnlyOwnDevice'
<1> SUFFICES ASSUME FailureInv, [Next]_vars PROVE OnlyOwnDevice'
  OBVIOUS
<1> USE UsersOf DEF FailureInv, IInv, OnlyOwnDevice, ErrorPath, ErrorsKept, GivenBackLast, Cleanup, Releasing, Acquiring, context, grubVars, files, Runs, Refused, Interrupted,
      FirstRelease, Abort, Continue, Plain, Acquire, Release, Releasable, Addressable, Stale, Flaky, MayCancel
<1>1. CASE CleanUp
  BY <1>1 DEF CleanUp
<1>2. CASE Block
  BY <1>2 DEF Block
<1>3. CASE Parted
  BY <1>3 DEF Parted
<1>4. CASE Losetup
  BY <1>4 DEF Losetup
<1>5. CASE Kpartx
  BY <1>5 DEF Kpartx
<1>6. CASE LuksFormat
  BY <1>6 DEF LuksFormat
<1>7. CASE CryptOpen
  BY <1>7 DEF CryptOpen
<1>8. CASE MountRoot
  BY <1>8 DEF MountRoot
<1>9. CASE MountBoot
  BY <1>9 DEF MountBoot
<1>10. CASE CopyRootFS
  BY <1>10 DEF CopyRootFS
<1>11. CASE SetupRootFS
  BY <1>11 DEF SetupRootFS
<1>12. CASE Syslinux
  BY <1>12 DEF Syslinux
<1>13. CASE Bind
  BY <1>13 DEF Bind, GrubFails
<1>14. CASE GrubInstall
  BY <1>14 DEF GrubInstall, GrubFails
<1>15. CASE GrubClean
  <2>1. undone + 1 \in 1 .. 3
    BY <1>15, BindPointType DEF GrubClean, IInv, TypeOK, CleanInOrder
  <2> QED
    BY <1>15, <2>1, BindPointsApart DEF GrubClean
<1>16. CASE UmountBoot
  BY <1>16, BootIsTop DEF UmountBoot, Taken, Unstacked, BindsRecorded, HandlesKept
<1>17. CASE UmountRoot
  BY <1>17 DEF UmountRoot, Taken, Unstacked, BindsRecorded, HandlesKept
<1>18. CASE CryptClose
  BY <1>18 DEF CryptClose, Taken, Unstacked, BindsRecorded, HandlesKept
<1>19. CASE KpartxDel
  BY <1>19 DEF KpartxDel, Taken, Unstacked, BindsRecorded, HandlesKept
<1>20. CASE LosetupDel
  BY <1>20 DEF LosetupDel
<1>21. CASE Convert2Img
  BY <1>21 DEF Convert2Img
<1>22. CASE Close
  BY <1>22 DEF Close
<1>23. CASE Cancel
  BY <1>23 DEF Cancel
<1>24. CASE OtherAttach
  BY <1>24 DEF OtherAttach
<1>25. CASE Closed
  BY <1>25 DEF Closed, vars
<1>26. CASE UNCHANGED vars
  BY <1>26 DEF vars
<1> QED
  BY <1>1, <1>2, <1>3, <1>4, <1>5, <1>6, <1>7, <1>8, <1>9, <1>10, <1>11, <1>12, <1>13,
     <1>14, <1>15, <1>16, <1>17, <1>18, <1>19, <1>20, <1>21, <1>22, <1>23, <1>24, <1>25, <1>26 DEF Next, Step

------------------------------------------------------------------------------
(* The invariant of failed builds holds initially and every step keeps it,  *)
(* for whatever commands fail and whether or not the user interrupts.       *)
THEOREM FailureInvariant == Spec => []FailureInv
<1>1. FailureInv /\ [Next]_vars => FailureInv'
  <2>1. FailureInv /\ [Next]_vars => IInv'
    BY TypeOKStep, ErrorsKeptStep, OnlyLuksMapsStep, CleanInOrderStep, WrittenLastStep,
       ReleasedInOrderStep, GivenBackLastStep, EndsCleanStep DEF IInv, FailureInv
  <2> QED
    BY <2>1, ErrorPathStep, MapsOnLoopStep, BindsRecordedStep, HandlesKeptStep,
       UnstackedStep, TakenStep, OnlyOwnDeviceStep DEF FailureInv
<1> QED
  BY InitFailureInv, <1>1, PTL DEF Spec

(* However it fails, a build whose cleanup commands work and that nobody    *)
(* interrupts gives everything back before it returns.                      *)
THEOREM FailedBuildReleases == Spec => []FailureReleases
<1>1. FailureInv => FailureReleases
  <2> SUFFICES ASSUME FailureInv, ~MayCancel, Flaky \cap Cleanup = {}, pc = "returned"
               PROVE  held = {} /\ ~raw /\ ~keyFile
    BY DEF FailureReleases
  <2>1. held \cap {"loop", "crypt"} \subseteq known
    BY DEF FailureInv, HandlesKept
  <2>2. held \cap BindMounts = {}
    BY DEF FailureInv, BindsRecorded, Cleanup
  <2>3. held = {}
    BY <2>1, <2>2 DEF FailureInv, Unstacked
  <2>4. ~raw /\ ~keyFile
    BY DEF FailureInv, ErrorPath, IInv, EndsClean
  <2> QED
    BY <2>3, <2>4
<1> QED
  BY FailureInvariant, <1>1, PTL

(* An interrupted build leaks only below a handle it lost or a bind mount   *)
(* it left.                                                                 *)
THEOREM OnlyLostHandlesLeak == Spec => []LeakHasLostHandle
<1>1. FailureInv => LeakHasLostHandle
  <2> SUFFICES ASSUME FailureInv, Flaky \cap Cleanup = {}, pc = "returned",
                      held \cap {"loop", "crypt"} \subseteq known, held \cap BindMounts = {}
               PROVE  held = {}
    BY DEF LeakHasLostHandle
  <2>1. CASE err
    BY <2>1 DEF FailureInv, ErrorPath, Unstacked
  <2>2. CASE ~err
    BY <2>2 DEF FailureInv, IInv, ReleasedInOrder
  <2> QED
    BY <2>1, <2>2
<1> QED
  BY FailureInvariant, <1>1, PTL

(* Deleting the work directory never reaches the host's /dev, /proc or /sys *)
(* as long as clean() works and nobody interrupts.                          *)
THEOREM BindMountsAreUndone == Spec => []BindMountsUndone
<1>1. FailureInv => BindMountsUndone
  BY DEF FailureInv, BindsRecorded, BindMountsUndone
<1> QED
  BY FailureInvariant, <1>1, PTL

(* The deferred handler never takes another process's loop device away, as  *)
(* long as nobody interrupts and what follows the release works.            *)
THEOREM OthersKeepTheirDevices == Spec => []OthersDevicesKept
<1>1. FailureInv => OthersDevicesKept
  BY DEF FailureInv, OnlyOwnDevice, OthersDevicesKept
<1> QED
  BY FailureInvariant, <1>1, PTL

------------------------------------------------------------------------------
(* Commands still ahead in the deferred handler, the close included, ...    *)
Behind(c) ==
    CASE c = "umountBoot" -> 7
      [] c = "umountRoot" -> 6
      [] c = "cryptClose" -> 5
      [] c = "kpartxDel" -> 4
      [] c = "losetupDel" -> 3
      [] c = "cleanUp" -> 2
      [] c = "returned" -> 1
      [] OTHER -> 0

(* ... and, the handler included, before it.                                *)
Ahead(c) ==
    CASE c = "cleanUpFirst" -> 32
      [] c = "block" -> 31
      [] c = "parted" -> 30
      [] c = "losetup" -> 29
      [] c = "kpartx" -> 28
      [] c = "luksFormat" -> 27
      [] c = "cryptOpen" -> 26
      [] c = "mountRoot" -> 25
      [] c = "mountBoot" -> 24
      [] c = "copyRootFS" -> 23
      [] c = "setupRootFS" -> 22
      [] c = "bind" -> 21
      [] c = "grubInstall" -> 18
      [] c = "grubClean" -> 17
      [] c = "syslinux" -> 15
      [] c \in {"umountBoot", "umountRoot", "cryptClose", "kpartxDel", "losetupDel"} -> Behind(c) + 7
      [] c = "convert2Img" -> 9
      [] c = "cleanUp" -> 8
      [] OTHER -> Behind(c)

(* What is left to do; the loops of grub go through their bind mounts.      *)
Left ==
    CASE failed -> Behind(pc)
      [] pc = "bind" -> Ahead("bind") - bound
      [] pc = "grubClean" -> Ahead("grubClean") - undone
      [] OTHER -> Ahead(pc)

(* A command of the build leaves it less to do; nothing else leaves it more. *)
GoesOn == IF Step THEN Left \in 1 .. 32 /\ Left' < Left ELSE Left' = Left

(* How many commands are ahead of each.                                     *)
LEMMA BehindIs ==
    /\ Behind("umountBoot") = 7
    /\ Behind("umountRoot") = 6
    /\ Behind("cryptClose") = 5
    /\ Behind("kpartxDel") = 4
    /\ Behind("losetupDel") = 3
    /\ Behind("cleanUp") = 2
    /\ Behind("returned") = 1
    /\ Behind("closed") = 0
  BY DEF Behind

(* The same, before the deferred handler.                                   *)
LEMMA AheadIs ==
    /\ Ahead("cleanUpFirst") = 32
    /\ Ahead("block") = 31
    /\ Ahead("parted") = 30
    /\ Ahead("losetup") = 29
    /\ Ahead("kpartx") = 28
    /\ Ahead("luksFormat") = 27
    /\ Ahead("cryptOpen") = 26
    /\ Ahead("mountRoot") = 25
    /\ Ahead("mountBoot") = 24
    /\ Ahead("copyRootFS") = 23
    /\ Ahead("setupRootFS") = 22
    /\ Ahead("bind") = 21
    /\ Ahead("grubInstall") = 18
    /\ Ahead("grubClean") = 17
    /\ Ahead("syslinux") = 15
    /\ Ahead("umountBoot") = 14
    /\ Ahead("umountRoot") = 13
    /\ Ahead("cryptClose") = 12
    /\ Ahead("kpartxDel") = 11
    /\ Ahead("losetupDel") = 10
    /\ Ahead("convert2Img") = 9
    /\ Ahead("cleanUp") = 8
    /\ Ahead("returned") = 1
    /\ Ahead("closed") = 0
  BY BehindIs DEF Ahead

(* A build is over after at most 32 commands, whatever fails and whenever   *)
(* the user interrupts, the deferred handler and grub's loops included.     *)
THEOREM BuildGoesOn == Spec => [][GoesOn]_vars
<1>1. ASSUME FailureInv, Step
      PROVE  Left \in 1 .. 32 /\ Left' < Left
  <2>1. /\ bound \in 0 .. 3 /\ undone \in 0 .. 3
        /\ pc = "bind" => bound < 3
        /\ pc = "grubClean" => undone < bound
        /\ pc = "grubInstall" => undone = 0
        /\ pc = "bind" => undone = 0
        /\ failed \in BOOLEAN /\ cfg.split \in BOOLEAN
        /\ failed => pc \in Releasing \cup {"cleanUp", "returned", "closed"}
    BY <1>1, BindPointType DEF FailureInv, IInv, TypeOK, CleanInOrder, Acquiring, ErrorPath, Configs
  <2> USE <2>1, BehindIs, AheadIs DEF Left, Abort, Continue, Plain, Acquire, FirstRelease, GrubFails, Releasing
  <2>2. CASE CleanUp
    BY <2>2 DEF CleanUp
  <2>3. CASE Block
    BY <2>3 DEF Block
  <2>4. CASE Parted
    BY <2>4 DEF Parted
  <2>5. CASE Losetup
    BY <2>5 DEF Losetup
  <2>6. CASE Kpartx
    BY <2>6 DEF Kpartx
  <2>7. CASE LuksFormat
    BY <2>7 DEF LuksFormat
  <2>8. CASE CryptOpen
    BY <2>8 DEF CryptOpen
  <2>9. CASE MountRoot
    BY <2>9 DEF MountRoot
  <2>10. CASE MountBoot
    BY <2>10 DEF MountBoot
  <2>11. CASE CopyRootFS
    BY <2>11 DEF CopyRootFS
  <2>12. CASE SetupRootFS
    <3>1. /\ pc = "setupRootFS" /\ ~failed /\ bound' = bound
          /\ \/ pc' \in {"bind", "syslinux"} /\ ~failed'
             \/ pc' \in {"umountBoot", "umountRoot"} /\ failed'
      BY <2>12 DEF SetupRootFS, grubVars
    <3> QED
      BY <3>1
  <2>13. CASE Syslinux
    BY <2>13 DEF Syslinux
  <2>14. CASE Bind
    <3>1. /\ pc = "bind" /\ ~failed /\ undone' = undone
          /\ \/ pc' \in {"bind", "grubInstall"} /\ ~failed' /\ bound' = bound + 1
             \/ pc' = "grubClean" /\ ~failed'
             \/ pc' \in {"umountBoot", "umountRoot"} /\ failed'
      BY <2>14 DEF Bind
    <3> QED
      BY <3>1
  <2>15. CASE GrubInstall
    <3>1. /\ pc = "grubInstall" /\ ~failed /\ undone' = undone
          /\ \/ pc' = "grubClean" /\ ~failed'
             \/ pc' \in {"umountBoot", "umountRoot"} /\ failed'
      BY <2>15 DEF GrubInstall, grubVars
    <3> QED
      BY <3>1
  <2>16. CASE GrubClean
    BY <2>16 DEF GrubClean
  <2>17. CASE UmountBoot
    <3>1. pc = "umountBoot" /\ pc' = "umountRoot" /\ failed' = failed
      BY <2>17 DEF UmountBoot, Release
    <3> QED
      BY <3>1
  <2>18. CASE UmountRoot
    <3>1. pc = "umountRoot" /\ pc' \in {"cryptClose", "kpartxDel"} /\ failed' = failed
      BY <2>18 DEF UmountRoot, Release
    <3> QED
      BY <3>1
  <2>19. CASE CryptClose
    <3>1. pc = "cryptClose" /\ pc' = "kpartxDel" /\ failed' = failed
      BY <2>19 DEF CryptClose, Release
    <3> QED
      BY <3>1
  <2>20. CASE KpartxDel
    <3>1. pc = "kpartxDel" /\ pc' = "losetupDel" /\ failed' = failed
      BY <2>20 DEF KpartxDel, Release
    <3> QED
      BY <3>1
  <2>21. CASE LosetupDel
    <3>1. /\ pc = "losetupDel"
          /\ \/ failed /\ failed' /\ pc' = "cleanUp"
             \/ ~failed /\ failed' /\ pc' \in {"umountBoot", "umountRoot"}
             \/ ~failed /\ ~failed' /\ pc' = "convert2Img"
      BY <2>21 DEF LosetupDel, Release
    <3> QED
      BY <3>1
  <2>22. CASE Convert2Img
    BY <2>22 DEF Convert2Img
  <2>23. CASE Close
    BY <2>23 DEF Close
  <2> QED
    BY <1>1, <2>2, <2>3, <2>4, <2>5, <2>6, <2>7, <2>8, <2>9, <2>10, <2>11, <2>12, <2>13, <2>14, <2>15, <2>16, <2>17, <2>18, <2>19, <2>20, <2>21, <2>22, <2>23 DEF Step
<1>2. ASSUME Cancel \/ OtherAttach \/ Closed \/ UNCHANGED vars
      PROVE  Left' = Left
  <2>1. UNCHANGED <<pc, failed, bound, undone>>
    BY <1>2 DEF Cancel, OtherAttach, Closed, vars, context, grubVars
  <2> QED
    BY <2>1 DEF Left
<1>3. FailureInv /\ [Next]_vars => [GoesOn]_vars
  BY <1>1, <1>2 DEF Next, GoesOn
<1> QED
  BY FailureInvariant, <1>3, PTL DEF Spec
==============================================================================
