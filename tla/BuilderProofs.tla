---------------------------- MODULE BuilderProofs ----------------------------
(***************************************************************************)
(* Safety of Builder for every set of failing commands, interrupted or     *)
(* not.  The argument is the order of unmountImg: a release that succeeds  *)
(* proves that everything stacked on its resource is gone, so an error     *)
(* that is kept until the end (ErrorsKept) is all it takes to know that    *)
(* nothing is held (ReleasedInOrder).                                      *)
(***************************************************************************)
EXTENDS Builder, TLAPS

(* The bind points are indexed from 1 to 3 and are resources.               *)
LEMMA BindPointType ==
    /\ Len(BindPoint) = 3
    /\ \A i \in 1 .. 3 : BindPoint[i] \in BindMounts
  BY DEF BindPoint, BindMounts

(* What keeps a resource busy.                                              *)
LEMMA UsersOf ==
    /\ Users["loop"] = {"maps"}
    /\ Users["maps"] = {"crypt", "root", "boot"}
    /\ Users["crypt"] = {"root"}
    /\ Users["root"] = {"boot"} \cup BindMounts
  BY DEF Users, Resources

(* A build that has not started satisfies the invariant.                    *)
LEMMA InitIInv == Init => IInv
<1> SUFFICES ASSUME Init PROVE IInv
  OBVIOUS
<1>1. TypeOK
  <2> USE DEF Init
  <2>1. pc \in Commands
    BY DEF Commands
  <2>2. bound \in 0 .. Len(BindPoint) /\ undone \in 0 .. Len(BindPoint)
    BY BindPointType
  <2>3. cancelled \in BOOLEAN /\ err \in BOOLEAN /\ failed \in BOOLEAN
    OBVIOUS
  <2> QED
    BY <2>1, <2>2, <2>3 DEF TypeOK
<1>2. ErrorsKept /\ OnlyLuksMaps
  BY DEF Init, ErrorsKept, OnlyLuksMaps
<1>3. CleanInOrder
  BY DEF Init, CleanInOrder
<1>4. WrittenLast /\ EndsClean
  BY DEF Init, WrittenLast, EndsClean
<1>5. ReleasedInOrder /\ GivenBackLast
  BY DEF Init, ReleasedInOrder, GivenBackLast, Stale
<1> QED
  BY <1>1, <1>2, <1>3, <1>4, <1>5 DEF IInv

(* The types, bind points within bounds included, are kept.                 *)
LEMMA TypeOKStep == IInv /\ [Next]_vars => TypeOK'
<1> SUFFICES ASSUME IInv, [Next]_vars PROVE TypeOK'
  OBVIOUS
<1> USE BindPointType DEF IInv, TypeOK, Commands, Resources, BindMounts, context, grubVars, files, Runs, Refused, Interrupted,
      FirstRelease, Abort, Continue, Plain, Acquire, Release, Releasable, Addressable, Stale
<1>1. CASE CleanUp
  <2>1. pc' \in Commands \cup {"returned", "closed"}
    BY <1>1 DEF CleanUp
  <2>2. cancelled' \in BOOLEAN /\ err' \in BOOLEAN /\ failed' \in BOOLEAN
    BY <1>1 DEF CleanUp
  <2>3. raw' \in BOOLEAN
    BY <1>1 DEF CleanUp
  <2> HIDE DEF Commands
  <2> QED
    BY <1>1, <2>1, <2>2, <2>3 DEF CleanUp
<1>2. CASE Block
  BY <1>2 DEF Block
<1>3. CASE Parted
  BY <1>3 DEF Parted
<1>4. CASE Losetup
  BY <1>4 DEF Losetup
<1>5. CASE Kpartx
  BY <1>5 DEF Kpartx
<1>6. CASE LuksFormat
  BY <1>6 DEF LuksFormat
<1>7. CASE CryptOpen
  BY <1>7 DEF CryptOpen
<1>8. CASE MountRoot
  BY <1>8 DEF MountRoot
<1>9. CASE MountBoot
  BY <1>9 DEF MountBoot
<1>10. CASE CopyRootFS
  BY <1>10 DEF CopyRootFS
<1>11. CASE SetupRootFS
  <2>1. pc' \in Commands \cup {"returned", "closed"}
    BY <1>11 DEF SetupRootFS
  <2>2. cancelled' \in BOOLEAN /\ err' \in BOOLEAN /\ failed' \in BOOLEAN
    BY <1>11 DEF SetupRootFS
  <2>3. held' \subseteq Resources /\ wiped' \subseteq BindMounts \cup {"policy-rc.d"}
    BY <1>11 DEF SetupRootFS
  <2> HIDE DEF Commands
  <2> QED
    BY <1>11, <2>1, <2>2, <2>3 DEF SetupRootFS
<1>12. CASE Syslinux
  BY <1>12 DEF Syslinux
<1>13. CASE Bind
  <2>1. bound \in 0 .. 2 /\ bound' \in 0 .. 3
    BY <1>13 DEF Bind, GrubFails, CleanInOrder
  <2>2. BindPoint[bound + 1] \in BindMounts
    BY <2>1
  <2>3. held' \subseteq Resources
    BY <1>13, <2>2 DEF Bind
  <2>4. pc' \in Commands
    BY <1>13 DEF Bind, GrubFails
  <2>5. err' \in BOOLEAN /\ failed' \in BOOLEAN /\ cancelled' \in BOOLEAN
    BY <1>13 DEF Bind, GrubFails
  <2> QED
    BY <1>13, <2>1, <2>3, <2>4, <2>5 DEF Bind
<1>14. CASE GrubInstall
  BY <1>14 DEF GrubInstall, GrubFails
<1>15. CASE GrubClean
  <2>1. undone' \in 0 .. 3
    BY <1>15 DEF GrubClean, CleanInOrder
  <2>2. held' \subseteq Resources
    BY <1>15 DEF GrubClean
  <2>3. pc' \in Commands
    BY <1>15 DEF GrubClean
  <2>4. err' \in BOOLEAN /\ failed' \in BOOLEAN /\ cancelled' \in BOOLEAN
    BY <1>15 DEF GrubClean
  <2> QED
    BY <1>15, <2>1, <2>2, <2>3, <2>4 DEF GrubClean
<1>16. CASE UmountBoot
  BY <1>16 DEF UmountBoot
<1>17. CASE UmountRoot
  BY <1>17 DEF UmountRoot
<1>18. CASE CryptClose
  BY <1>18 DEF CryptClose
<1>19. CASE KpartxDel
  BY <1>19 DEF KpartxDel
<1>20. CASE LosetupDel
  <2>1. pc' \in Commands \cup {"returned", "closed"}
    BY <1>20 DEF LosetupDel
  <2>2. cancelled' \in BOOLEAN /\ err' \in BOOLEAN /\ failed' \in BOOLEAN
    BY <1>20 DEF LosetupDel
  <2>3. held' \subseteq Resources /\ foreign' \in {"none", "attached", "robbed"}
    BY <1>20 DEF LosetupDel
  <2> HIDE DEF Commands
  <2> QED
    BY <1>20, <2>1, <2>2, <2>3 DEF LosetupDel
<1>21. CASE Convert2Img
  BY <1>21 DEF Convert2Img
<1>22. CASE Close
  BY <1>22 DEF Close
<1>23. CASE Cancel
  BY <1>23 DEF Cancel
<1>23a. CASE OtherAttach
  BY <1>23a DEF OtherAttach
<1>24. CASE Closed
  BY <1>24 DEF Closed, vars
<1>25. CASE UNCHANGED vars
  BY <1>25 DEF vars
<1> QED
  BY <1>1, <1>2, <1>3, <1>4, <1>5, <1>6, <1>7, <1>8, <1>9, <1>10, <1>11, <1>12, <1>13, <1>14, <1>15, <1>16, <1>17, <1>18, <1>19, <1>20, <1>21, <1>22, <1>23, <1>23a, <1>24, <1>25 DEF Next, Step

(* An error seen is never forgotten before Build returns it.                *)
LEMMA ErrorsKeptStep == IInv /\ [Next]_vars => ErrorsKept'
<1> SUFFICES ASSUME IInv, [Next]_vars PROVE ErrorsKept'
  OBVIOUS
<1> USE DEF IInv, ErrorsKept, Acquiring, context, grubVars, files, Runs, Refused, Interrupted,
      FirstRelease, Abort, Continue, Plain, Acquire, Release, Releasable, Addressable, Stale
<1>1. CASE CleanUp
  BY <1>1 DEF CleanUp
<1>2. CASE Block
  BY <1>2 DEF Block
<1>3. CASE Parted
  BY <1>3 DEF Parted
<1>4. CASE Losetup
  BY <1>4 DEF Losetup
<1>5. CASE Kpartx
  BY <1>5 DEF Kpartx
<1>6. CASE LuksFormat
  BY <1>6 DEF LuksFormat
<1>7. CASE CryptOpen
  BY <1>7 DEF CryptOpen
<1>8. CASE MountRoot
  BY <1>8 DEF MountRoot
<1>9. CASE MountBoot
  BY <1>9 DEF MountBoot
<1>10. CASE CopyRootFS
  BY <1>10 DEF CopyRootFS
<1>11. CASE SetupRootFS
  BY <1>11 DEF SetupRootFS
<1>12. CASE Syslinux
  BY <1>12 DEF Syslinux
<1>13. CASE Bind
  BY <1>13 DEF Bind, GrubFails
<1>14. CASE GrubInstall
  BY <1>14 DEF GrubInstall, GrubFails
<1>15. CASE GrubClean
  BY <1>15 DEF GrubClean
<1>16. CASE UmountBoot
  BY <1>16 DEF UmountBoot
<1>17. CASE UmountRoot
  BY <1>17 DEF UmountRoot
<1>18. CASE CryptClose
  BY <1>18 DEF CryptClose
<1>19. CASE KpartxDel
  BY <1>19 DEF KpartxDel
<1>20. CASE LosetupDel
  BY <1>20 DEF LosetupDel
<1>21. CASE Convert2Img
  BY <1>21 DEF Convert2Img
<1>22. CASE Close
  BY <1>22 DEF Close
<1>23. CASE Cancel
  BY <1>23 DEF Cancel
<1>23a. CASE OtherAttach
  BY <1>23a DEF OtherAttach
<1>24. CASE Closed
  BY <1>24 DEF Closed, vars
<1>25. CASE UNCHANGED vars
  BY <1>25 DEF vars
<1> QED
  BY <1>1, <1>2, <1>3, <1>4, <1>5, <1>6, <1>7, <1>8, <1>9, <1>10, <1>11, <1>12, <1>13, <1>14, <1>15, <1>16, <1>17, <1>18, <1>19, <1>20, <1>21, <1>22, <1>23, <1>23a, <1>24, <1>25 DEF Next, Step

(* The LUKS mapping only exists for an encrypted build.                     *)
LEMMA OnlyLuksMapsStep == IInv /\ [Next]_vars => OnlyLuksMaps'
<1> SUFFICES ASSUME IInv, [Next]_vars PROVE OnlyLuksMaps'
  OBVIOUS
<1> USE DEF IInv, OnlyLuksMaps, Acquiring, context, grubVars, files, Runs, Refused, Interrupted,
      FirstRelease, Abort, Continue, Plain, Acquire, Release, Releasable, Addressable, Stale
<1>1. CASE CleanUp
  BY <1>1 DEF CleanUp
<1>2. CASE Block
  BY <1>2 DEF Block
<1>3. CASE Parted
  BY <1>3 DEF Parted
<1>4. CASE Losetup
  BY <1>4 DEF Losetup
<1>5. CASE Kpartx
  BY <1>5 DEF Kpartx
<1>6. CASE LuksFormat
  BY <1>6 DEF LuksFormat
<1>7. CASE CryptOpen
  BY <1>7 DEF CryptOpen
<1>8. CASE MountRoot
  BY <1>8 DEF MountRoot
<1>9. CASE MountBoot
  BY <1>9 DEF MountBoot
<1>10. CASE CopyRootFS
  BY <1>10 DEF CopyRootFS
<1>11. CASE SetupRootFS
  BY <1>11 DEF SetupRootFS
<1>12. CASE Syslinux
  BY <1>12 DEF Syslinux
<1>13. CASE Bind
  <2>1. BindPoint[bound + 1] # "crypt"
    BY <1>13, BindPointType DEF Bind, TypeOK, CleanInOrder, BindMounts
  <2> QED
    BY <1>13, <2>1 DEF Bind, GrubFails
<1>14. CASE GrubInstall
  BY <1>14 DEF GrubInstall, GrubFails
<1>15. CASE GrubClean
  BY <1>15 DEF GrubClean
<1>16. CASE UmountBoot
  BY <1>16 DEF UmountBoot
<1>17. CASE UmountRoot
  BY <1>17 DEF UmountRoot
<1>18. CASE CryptClose
  BY <1>18 DEF CryptClose
<1>19. CASE KpartxDel
  BY <1>19 DEF KpartxDel
<1>20. CASE LosetupDel
  BY <1>20 DEF LosetupDel
<1>21. CASE Convert2Img
  BY <1>21 DEF Convert2Img
<1>22. CASE Close
  BY <1>22 DEF Close
<1>23. CASE Cancel
  BY <1>23 DEF Cancel
<1>23a. CASE OtherAttach
  BY <1>23a DEF OtherAttach
<1>24. CASE Closed
  BY <1>24 DEF Closed, vars
<1>25. CASE UNCHANGED vars
  BY <1>25 DEF vars
<1> QED
  BY <1>1, <1>2, <1>3, <1>4, <1>5, <1>6, <1>7, <1>8, <1>9, <1>10, <1>11, <1>12, <1>13, <1>14, <1>15, <1>16, <1>17, <1>18, <1>19, <1>20, <1>21, <1>22, <1>23, <1>23a, <1>24, <1>25 DEF Next, Step

(* The bind mounts are recorded and undone in order.                        *)
LEMMA CleanInOrderStep == IInv /\ [Next]_vars => CleanInOrder'
<1> SUFFICES ASSUME IInv, [Next]_vars PROVE CleanInOrder'
  OBVIOUS
<1> USE BindPointType DEF IInv, CleanInOrder, Acquiring, context, grubVars, files, Runs, Refused, Interrupted,
      FirstRelease, Abort, Continue, Plain, Acquire, Release, Releasable, Addressable, Stale
<1>1. CASE CleanUp
  BY <1>1 DEF CleanUp
<1>2. CASE Block
  BY <1>2 DEF Block
<1>3. CASE Parted
  BY <1>3 DEF Parted
<1>4. CASE Losetup
  BY <1>4 DEF Losetup
<1>5. CASE Kpartx
  BY <1>5 DEF Kpartx
<1>6. CASE LuksFormat
  BY <1>6 DEF LuksFormat
<1>7. CASE CryptOpen
  BY <1>7 DEF CryptOpen
<1>8. CASE MountRoot
  BY <1>8 DEF MountRoot
<1>9. CASE MountBoot
  BY <1>9 DEF MountBoot
<1>10. CASE CopyRootFS
  BY <1>10 DEF CopyRootFS
<1>11. CASE SetupRootFS
  BY <1>11 DEF SetupRootFS
<1>12. CASE Syslinux
  BY <1>12 DEF Syslinux
<1>13. CASE Bind
  BY <1>13 DEF Bind, GrubFails, TypeOK
<1>14. CASE GrubInstall
  BY <1>14 DEF GrubInstall, GrubFails
<1>15. CASE GrubClean
  BY <1>15 DEF GrubClean
<1>16. CASE UmountBoot
  BY <1>16 DEF UmountBoot
<1>17. CASE UmountRoot
  BY <1>17 DEF UmountRoot
<1>18. CASE CryptClose
  BY <1>18 DEF CryptClose
<1>19. CASE KpartxDel
  BY <1>19 DEF KpartxDel
<1>20. CASE LosetupDel
  BY <1>20 DEF LosetupDel
<1>21. CASE Convert2Img
  BY <1>21 DEF Convert2Img
<1>22. CASE Close
  BY <1>22 DEF Close
<1>23. CASE Cancel
  BY <1>23 DEF Cancel
<1>23a. CASE OtherAttach
  BY <1>23a DEF OtherAttach
<1>24. CASE Closed
  BY <1>24 DEF Closed, vars
<1>25. CASE UNCHANGED vars
  BY <1>25 DEF vars
<1> QED
  BY <1>1, <1>2, <1>3, <1>4, <1>5, <1>6, <1>7, <1>8, <1>9, <1>10, <1>11, <1>12, <1>13, <1>14, <1>15, <1>16, <1>17, <1>18, <1>19, <1>20, <1>21, <1>22, <1>23, <1>23a, <1>24, <1>25 DEF Next, Step

(* The image is only written once nothing is held.                          *)
LEMMA WrittenLastStep == IInv /\ [Next]_vars => WrittenLast'
<1> SUFFICES ASSUME IInv, [Next]_vars PROVE WrittenLast'
  OBVIOUS
<1> USE DEF IInv, WrittenLast, Acquiring, context, grubVars, files, Runs, Refused, Interrupted,
      FirstRelease, Abort, Continue, Plain, Acquire, Release, Releasable, Addressable, Stale
<1>1. CASE CleanUp
  BY <1>1 DEF CleanUp
<1>2. CASE Block
  BY <1>2 DEF Block
<1>3. CASE Parted
  BY <1>3 DEF Parted
<1>4. CASE Losetup
  BY <1>4 DEF Losetup
<1>5. CASE Kpartx
  BY <1>5 DEF Kpartx
<1>6. CASE LuksFormat
  BY <1>6 DEF LuksFormat
<1>7. CASE CryptOpen
  BY <1>7 DEF CryptOpen
<1>8. CASE MountRoot
  BY <1>8 DEF MountRoot
<1>9. CASE MountBoot
  BY <1>9 DEF MountBoot
<1>10. CASE CopyRootFS
  BY <1>10 DEF CopyRootFS
<1>11. CASE SetupRootFS
  BY <1>11 DEF SetupRootFS
<1>12. CASE Syslinux
  BY <1>12 DEF Syslinux
<1>13. CASE Bind
  BY <1>13 DEF Bind, GrubFails
<1>14. CASE GrubInstall
  BY <1>14 DEF GrubInstall, GrubFails
<1>15. CASE GrubClean
  BY <1>15 DEF GrubClean
<1>16. CASE UmountBoot
  BY <1>16 DEF UmountBoot
<1>17. CASE UmountRoot
  BY <1>17 DEF UmountRoot
<1>18. CASE CryptClose
  BY <1>18 DEF CryptClose
<1>19. CASE KpartxDel
  BY <1>19 DEF KpartxDel, GivenBackLast
<1>20. CASE LosetupDel
  BY <1>20 DEF LosetupDel, GivenBackLast
<1>21. CASE Convert2Img
  <2>1. held' = {}
    BY <1>21 DEF Convert2Img, ReleasedInOrder, ErrorsKept
  <2>2. pc' \notin Acquiring \cup {"grubClean", "convert2Img"}
    BY <1>21 DEF Convert2Img
  <2> QED
    BY <2>1, <2>2
<1>22. CASE Close
  BY <1>22 DEF Close
<1>23. CASE Cancel
  BY <1>23 DEF Cancel
<1>23a. CASE OtherAttach
  BY <1>23a DEF OtherAttach
<1>24. CASE Closed
  BY <1>24 DEF Closed, vars
<1>25. CASE UNCHANGED vars
  BY <1>25 DEF vars
<1> QED
  BY <1>1, <1>2, <1>3, <1>4, <1>5, <1>6, <1>7, <1>8, <1>9, <1>10, <1>11, <1>12, <1>13, <1>14, <1>15, <1>16, <1>17, <1>18, <1>19, <1>20, <1>21, <1>22, <1>23, <1>23a, <1>24, <1>25 DEF Next, Step

(* A release that succeeds frees everything above its resource.             *)
LEMMA ReleasedInOrderStep == IInv /\ [Next]_vars => ReleasedInOrder'
<1> SUFFICES ASSUME IInv, [Next]_vars PROVE ReleasedInOrder'
  OBVIOUS
<1> USE UsersOf DEF IInv, ReleasedInOrder, context, grubVars, files, Runs, Refused, Interrupted,
      FirstRelease, Abort, Continue, Plain, Acquire, Release, Releasable, Addressable, Stale
<1>1. CASE CleanUp
  BY <1>1 DEF CleanUp, ErrorsKept
<1>2. CASE Block
  BY <1>2 DEF Block
<1>3. CASE Parted
  BY <1>3 DEF Parted
<1>4. CASE Losetup
  BY <1>4 DEF Losetup
<1>5. CASE Kpartx
  BY <1>5 DEF Kpartx
<1>6. CASE LuksFormat
  BY <1>6 DEF LuksFormat
<1>7. CASE CryptOpen
  BY <1>7 DEF CryptOpen
<1>8. CASE MountRoot
  BY <1>8 DEF MountRoot
<1>9. CASE MountBoot
  BY <1>9 DEF MountBoot
<1>10. CASE CopyRootFS
  BY <1>10 DEF CopyRootFS
<1>11. CASE SetupRootFS
  BY <1>11 DEF SetupRootFS
<1>12. CASE Syslinux
  BY <1>12 DEF Syslinux
<1>13. CASE Bind
  BY <1>13 DEF Bind, GrubFails
<1>14. CASE GrubInstall
  BY <1>14 DEF GrubInstall, GrubFails
<1>15. CASE GrubClean
  BY <1>15 DEF GrubClean
<1>16. CASE UmountBoot
  BY <1>16 DEF UmountBoot
<1>17. CASE UmountRoot
  <2> SUFFICES ASSUME ~err'
               PROVE  held' \subseteq (IF cfg.luks THEN {"crypt", "maps", "loop"}
                                      ELSE {"maps", "loop"})
    BY <1>17 DEF UmountRoot
  <2>1. Releasable("root") /\ held' = held \ {"root"}
    BY <1>17 DEF UmountRoot
  <2>2. held \cap ({"boot"} \cup BindMounts) = {}
    BY <2>1
  <2> QED
    BY <2>1, <2>2 DEF TypeOK, Resources, OnlyLuksMaps
<1>18. CASE CryptClose
  BY <1>18 DEF CryptClose
<1>19. CASE KpartxDel
  BY <1>19 DEF KpartxDel, GivenBackLast
<1>20. CASE LosetupDel
  BY <1>20 DEF LosetupDel, GivenBackLast
<1>21. CASE Convert2Img
  BY <1>21 DEF Convert2Img
<1>22. CASE Close
  BY <1>22 DEF Close
<1>23. CASE Cancel
  BY <1>23 DEF Cancel
<1>23a. CASE OtherAttach
  BY <1>23a DEF OtherAttach
<1>24. CASE Closed
  BY <1>24 DEF Closed, vars
<1>25. CASE UNCHANGED vars
  BY <1>25 DEF vars
<1> QED
  BY <1>1, <1>2, <1>3, <1>4, <1>5, <1>6, <1>7, <1>8, <1>9, <1>10, <1>11, <1>12, <1>13, <1>14, <1>15, <1>16, <1>17, <1>18, <1>19, <1>20, <1>21, <1>22, <1>23, <1>23a, <1>24, <1>25 DEF Next, Step

(* Nobody else gets the loop device before the forward pass is over.        *)
LEMMA GivenBackLastStep == IInv /\ [Next]_vars => GivenBackLast'
<1> SUFFICES ASSUME IInv, [Next]_vars PROVE GivenBackLast'
  OBVIOUS
<1> USE DEF IInv, GivenBackLast, ErrorsKept, Acquiring, context, grubVars, files, Runs, Refused, Interrupted,
      FirstRelease, Abort, Continue, Plain, Acquire, Release, Releasable, Addressable, Stale
<1>1. CASE CleanUp
  BY <1>1 DEF CleanUp
<1>2. CASE Block
  BY <1>2 DEF Block
<1>3. CASE Parted
  BY <1>3 DEF Parted
<1>4. CASE Losetup
  BY <1>4 DEF Losetup
<1>5. CASE Kpartx
  BY <1>5 DEF Kpartx
<1>6. CASE LuksFormat
  BY <1>6 DEF LuksFormat
<1>7. CASE CryptOpen
  BY <1>7 DEF CryptOpen
<1>8. CASE MountRoot
  BY <1>8 DEF MountRoot
<1>9. CASE MountBoot
  BY <1>9 DEF MountBoot
<1>10. CASE CopyRootFS
  BY <1>10 DEF CopyRootFS
<1>11. CASE SetupRootFS
  BY <1>11 DEF SetupRootFS
<1>12. CASE Syslinux
  BY <1>12 DEF Syslinux
<1>13. CASE Bind
  <2>1. BindPoint[bound + 1] # "loop"
    BY <1>13, BindPointType DEF Bind, TypeOK, CleanInOrder, BindMounts
  <2> QED
    BY <1>13, <2>1 DEF Bind, GrubFails
<1>14. CASE GrubInstall
  BY <1>14 DEF GrubInstall, GrubFails
<1>15. CASE GrubClean
  <2>1. BindPoint[undone + 1] # "loop"
    BY <1>15, BindPointType DEF GrubClean, TypeOK, CleanInOrder, BindMounts
  <2> QED
    BY <1>15, <2>1 DEF GrubClean
<1>16. CASE UmountBoot
  BY <1>16 DEF UmountBoot
<1>17. CASE UmountRoot
  BY <1>17 DEF UmountRoot
<1>18. CASE CryptClose
  BY <1>18 DEF CryptClose
<1>19. CASE KpartxDel
  BY <1>19 DEF KpartxDel
<1>20. CASE LosetupDel
  BY <1>20 DEF LosetupDel
<1>21. CASE Convert2Img
  BY <1>21 DEF Convert2Img
<1>22. CASE Close
  BY <1>22 DEF Close
<1>23. CASE Cancel
  BY <1>23 DEF Cancel
<1>23a. CASE OtherAttach
  BY <1>23a DEF OtherAttach
<1>24. CASE Closed
  BY <1>24 DEF Closed, vars
<1>25. CASE UNCHANGED vars
  BY <1>25 DEF vars
<1> QED
  BY <1>1, <1>2, <1>3, <1>4, <1>5, <1>6, <1>7, <1>8, <1>9, <1>10, <1>11, <1>12, <1>13, <1>14, <1>15, <1>16, <1>17, <1>18, <1>19, <1>20, <1>21, <1>22, <1>23, <1>23a, <1>24, <1>25 DEF Next, Step

(* A build that ends well leaves an image and no raw or key file.           *)
LEMMA EndsCleanStep == IInv /\ [Next]_vars => EndsClean'
<1> SUFFICES ASSUME IInv, [Next]_vars PROVE EndsClean'
  OBVIOUS
<1> USE DEF IInv, EndsClean, ErrorsKept, context, grubVars, files, Runs, Refused, Interrupted,
      FirstRelease, Abort, Continue, Plain, Acquire, Release, Releasable, Addressable, Stale
<1>1. CASE CleanUp
  BY <1>1 DEF CleanUp
<1>2. CASE Block
  BY <1>2 DEF Block
<1>3. CASE Parted
  BY <1>3 DEF Parted
<1>4. CASE Losetup
  BY <1>4 DEF Losetup
<1>5. CASE Kpartx
  BY <1>5 DEF Kpartx
<1>6. CASE LuksFormat
  BY <1>6 DEF LuksFormat
<1>7. CASE CryptOpen
  BY <1>7 DEF CryptOpen
<1>8. CASE MountRoot
  BY <1>8 DEF MountRoot
<1>9. CASE MountBoot
  BY <1>9 DEF MountBoot
<1>10. CASE CopyRootFS
  BY <1>10 DEF CopyRootFS
<1>11. CASE SetupRootFS
  BY <1>11 DEF SetupRootFS
<1>12. CASE Syslinux
  BY <1>12 DEF Syslinux
<1>13. CASE Bind
  BY <1>13 DEF Bind, GrubFails
<1>14. CASE GrubInstall
  BY <1>14 DEF GrubInstall, GrubFails
<1>15. CASE GrubClean
  BY <1>15 DEF GrubClean
<1>16. CASE UmountBoot
  BY <1>16 DEF UmountBoot
<1>17. CASE UmountRoot
  BY <1>17 DEF UmountRoot
<1>18. CASE CryptClose
  BY <1>18 DEF CryptClose
<1>19. CASE KpartxDel
  BY <1>19 DEF KpartxDel
<1>20. CASE LosetupDel
  BY <1>20 DEF LosetupDel
<1>21. CASE Convert2Img
  BY <1>21 DEF Convert2Img
<1>22. CASE Close
  BY <1>22 DEF Close
<1>23. CASE Cancel
  BY <1>23 DEF Cancel
<1>23a. CASE OtherAttach
  BY <1>23a DEF OtherAttach
<1>24. CASE Closed
  BY <1>24 DEF Closed, vars
<1>25. CASE UNCHANGED vars
  BY <1>25 DEF vars
<1> QED
  BY <1>1, <1>2, <1>3, <1>4, <1>5, <1>6, <1>7, <1>8, <1>9, <1>10, <1>11, <1>12, <1>13, <1>14, <1>15, <1>16, <1>17, <1>18, <1>19, <1>20, <1>21, <1>22, <1>23, <1>23a, <1>24, <1>25 DEF Next, Step

------------------------------------------------------------------------------
(* IInv holds initially and every step keeps it, so it always holds, for    *)
(* whatever commands fail and whether or not the user interrupts.           *)
THEOREM InductiveInvariant == Spec => []IInv
<1>1. IInv /\ [Next]_vars => IInv'
  BY TypeOKStep, ErrorsKeptStep, OnlyLuksMapsStep, CleanInOrderStep, WrittenLastStep,
     ReleasedInOrderStep, GivenBackLastStep, EndsCleanStep DEF IInv
<1> QED
  BY InitIInv, <1>1, PTL DEF Spec

(* The variables of Build keep their types.                                 *)
THEOREM TypeCorrect == Spec => []TypeOK
<1>1. IInv => TypeOK
  BY DEF IInv
<1> QED
  BY InductiveInvariant, <1>1, PTL

(* convert2Img only ever reads a raw file that nothing has mounted, mapped  *)
(* or attached, whatever commands failed before.                            *)
THEOREM ImageIsQuiescent == Spec => []QuiescentImage
<1>1. IInv => QuiescentImage
  BY DEF IInv, WrittenLast, ReleasedInOrder, ErrorsKept, QuiescentImage
<1> QED
  BY InductiveInvariant, <1>1, PTL

(* A nil error from Build means a complete image and a host left clean.     *)
THEOREM SuccessIsClean == Spec => []SuccessLeavesNothing
<1>1. IInv => SuccessLeavesNothing
  BY DEF IInv, ReleasedInOrder, EndsClean, SuccessLeavesNothing
<1> QED
  BY InductiveInvariant, <1>1, PTL

(* After an error or an interrupt nothing more is attached, mapped or       *)
(* mounted: commands that take a resource run only while no error was seen  *)
(* (ErrorsKept), and none of them starts under a cancelled context.         *)
THEOREM FailureOnlyReleases == Spec => NoAcquireAfterFailure
<1>1. ASSUME IInv, [Next]_vars, err \/ cancelled PROVE held' \subseteq held
  <2> USE <1>1 DEF IInv, ErrorsKept, Acquiring, Runs, Refused, Interrupted, Plain, Acquire,
        Release, context
  <2>1. CASE CleanUp
    BY <2>1 DEF CleanUp
  <2>2. CASE Block
    BY <2>2 DEF Block
  <2>3. CASE Parted
    BY <2>3 DEF Parted
  <2>4. CASE Losetup
    BY <2>4 DEF Losetup
  <2>5. CASE Kpartx
    BY <2>5 DEF Kpartx
  <2>6. CASE LuksFormat
    BY <2>6 DEF LuksFormat
  <2>7. CASE CryptOpen
    BY <2>7 DEF CryptOpen
  <2>8. CASE MountRoot
    BY <2>8 DEF MountRoot
  <2>9. CASE MountBoot
    BY <2>9 DEF MountBoot
  <2>10. CASE CopyRootFS
    BY <2>10 DEF CopyRootFS
  <2>11. CASE SetupRootFS
    BY <2>11 DEF SetupRootFS
  <2>12. CASE Syslinux
    BY <2>12 DEF Syslinux
  <2>13. CASE Bind
    BY <2>13 DEF Bind
  <2>14. CASE GrubInstall
    BY <2>14 DEF GrubInstall
  <2>15. CASE GrubClean
    BY <2>15 DEF GrubClean
  <2>16. CASE UmountBoot
    BY <2>16 DEF UmountBoot
  <2>17. CASE UmountRoot
    BY <2>17 DEF UmountRoot
  <2>18. CASE CryptClose
    BY <2>18 DEF CryptClose
  <2>19. CASE KpartxDel
    BY <2>19 DEF KpartxDel
  <2>20. CASE LosetupDel
    BY <2>20 DEF LosetupDel
  <2>21. CASE Convert2Img
    BY <2>21 DEF Convert2Img
  <2>22. CASE Close
    BY <2>22 DEF Close
  <2>23. CASE Cancel
    BY <2>23 DEF Cancel
  <2>23a. CASE OtherAttach
    BY <2>23a DEF OtherAttach
  <2>24. CASE Closed
    BY <2>24 DEF Closed, vars
  <2>25. CASE UNCHANGED vars
    BY <2>25 DEF vars
  <2> QED
    BY <2>1, <2>2, <2>3, <2>4, <2>5, <2>6, <2>7, <2>8, <2>9, <2>10, <2>11, <2>12, <2>13, <2>14, <2>15, <2>16, <2>17, <2>18, <2>19, <2>20, <2>21, <2>22, <2>23, <2>23a, <2>24, <2>25 DEF Next, Step
<1>2. IInv /\ [Next]_vars => [err \/ cancelled => held' \subseteq held]_vars
  BY <1>1
<1> QED
  BY InductiveInvariant, <1>2, PTL DEF Spec, NoAcquireAfterFailure

==============================================================================
