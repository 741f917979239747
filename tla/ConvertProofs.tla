---------------------------- MODULE ConvertProofs ----------------------------
(***************************************************************************)
(* For any number of runs given the same output path: an output is only    *)
(* ever given up for a complete image, and what is temporary goes away.    *)
(***************************************************************************)
EXTENDS Convert, Naturals, TLAPS

(* The runs launched are some of them, with flags.                          *)
LEMMA LaunchedRuns == TypeOK => Launched \subseteq Proc /\ conf \in [Launched -> RunType]
  BY ConvertAssumption DEF TypeOK, Launched

(* Writing to a file leaves the bytes of runs in it.                        *)
LEMMA WriteType ==
    ASSUME NEW b \in [Files -> SUBSET Proc], NEW f, NEW S, f \in Files => S \subseteq Proc
    PROVE  [b EXCEPT ![f] = S] \in [Files -> SUBSET Proc]
  OBVIOUS

(* No run has started, and none holds an image.                             *)
LEMMA InitCInv == Init => CInv
<1> SUFFICES ASSUME Init PROVE CInv
  OBVIOUS
<1>1. TypeOK /\ ReplacesWithImage
  BY DEF Init, TypeOK, ReplacesWithImage, Steps, Files
<1>2. Launched \subseteq Proc
  BY <1>1, LaunchedRuns
<1>3. TmpFollows /\ VMFollows
  BY <1>2 DEF Init, TmpFollows, VMFollows
<1>4. FileFollows /\ AloneFollows /\ OldFollows /\ BytesFollow
  BY <1>2 DEF Init, FileFollows, AloneFollows, OldFollows, BytesFollow, ToCreate
<1> QED
  BY <1>1, <1>3, <1>4 DEF CInv

(* Every step of a run keeps the types.                                     *)
LEMMA TypeOKStep == CInv /\ [Next]_vars => TypeOK'
<1> SUFFICES ASSUME CInv, [Next]_vars PROVE TypeOK'
  OBVIOUS
<1> USE ConvertAssumption, LaunchedRuns DEF CInv, TypeOK, Steps, Files, host, files, registry, Live, Goto, Proceed, Fail,
      Refused, Killed, Command, Tagged
<1>1. ASSUME NEW p \in Launched, Validate(p) PROVE TypeOK'
  BY <1>1 DEF Validate
<1>2. ASSUME NEW p \in Launched, Prepare(p) PROVE TypeOK'
  BY <1>2 DEF Prepare
<1>3. ASSUME NEW p \in Launched, MkTmp(p) PROVE TypeOK'
  BY <1>3 DEF MkTmp
<1>4. ASSUME NEW p \in Launched, Inspect(p) PROVE TypeOK'
  BY <1>4 DEF Inspect
<1>5. ASSUME NEW p \in Launched, VMImage(p) PROVE TypeOK'
  BY <1>5 DEF VMImage
<1>6. ASSUME NEW p \in Launched, NewBuilder(p) PROVE TypeOK'
  BY <1>6 DEF NewBuilder
<1>7. ASSUME NEW p \in Launched, Build(p) PROVE TypeOK'
  BY <1>7 DEF Build
<1>8. ASSUME NEW p \in Launched, RemoveOld(p) PROVE TypeOK'
  BY <1>8 DEF RemoveOld
<1>9. ASSUME NEW p \in Launched, Create(p) PROVE TypeOK'
  BY <1>9 DEF Create
<1>10. ASSUME NEW p \in Launched, Copy(p) PROVE TypeOK'
  <2>1. body' \in [Files -> SUBSET Proc]
    <3>1. body' = [body EXCEPT ![fd[p]] = body[fd[p]] \cup {p}]
      BY <1>10 DEF Copy
    <3>2. fd[p] \in Files => body[fd[p]] \cup {p} \subseteq Proc
      OBVIOUS
    <3> HIDE DEF CInv, TypeOK, Files
    <3>3. body \in [Files -> SUBSET Proc]
      BY DEF CInv, TypeOK
    <3> QED
      BY <3>1, <3>2, <3>3, WriteType
  <2>2. whole' \subseteq Proc /\ err' \subseteq Proc /\ cancelled' \subseteq Proc
    BY <1>10 DEF Copy
  <2>3. pc' \in [Proc -> Steps \cup {"ended"}]
    BY <1>10 DEF Copy
  <2> QED
    BY <1>10, <2>1, <2>2, <2>3 DEF Copy
<1>11. ASSUME NEW p \in Launched, RemoveSource(p) PROVE TypeOK'
  BY <1>11 DEF RemoveSource
<1>11a. ASSUME NEW p \in Launched, CloseFile(p) PROVE TypeOK'
  BY <1>11a DEF CloseFile
<1>12. ASSUME NEW p \in Launched, RemoveDir(p) PROVE TypeOK'
  BY <1>12 DEF RemoveDir
<1>13. ASSUME NEW p \in Launched, RemoveVM(p) PROVE TypeOK'
  BY <1>13 DEF RemoveVM
<1>14. ASSUME NEW p \in Launched, Chown(p) PROVE TypeOK'
  BY <1>14 DEF Chown
<1>15. ASSUME NEW p \in Launched, MakeDisk(p) PROVE TypeOK'
  BY <1>15 DEF MakeDisk
<1>16. ASSUME NEW p \in Launched, Push(p) PROVE TypeOK'
  BY <1>16 DEF Push
<1>17. ASSUME NEW p \in Launched, Cancel(p) PROVE TypeOK'
  BY <1>17 DEF Cancel
<1>18. CASE UNCHANGED vars
  BY <1>18 DEF vars
<1> QED
  BY <1>1, <1>2, <1>3, <1>4, <1>5, <1>6, <1>7, <1>8, <1>9, <1>10, <1>11, <1>12, <1>13, <1>14, <1>15, <1>16, <1>17, <1>18, <1>11a DEF Next, Step, Ended

(* A run loses its image only once it has replaced the output.              *)
LEMMA ReplacesWithImageStep == CInv /\ [Next]_vars => ReplacesWithImage'
<1> SUFFICES ASSUME CInv, [Next]_vars PROVE ReplacesWithImage'
  OBVIOUS
<1> USE ConvertAssumption, LaunchedRuns DEF CInv, TypeOK, ReplacesWithImage, Steps, Files, host, files, registry, Live, Goto, Proceed, Fail,
      Refused, Killed, Command, Tagged
<1>1. ASSUME NEW p \in Launched, Validate(p) PROVE ReplacesWithImage'
  BY <1>1 DEF Validate
<1>2. ASSUME NEW p \in Launched, Prepare(p) PROVE ReplacesWithImage'
  BY <1>2 DEF Prepare
<1>3. ASSUME NEW p \in Launched, MkTmp(p) PROVE ReplacesWithImage'
  BY <1>3 DEF MkTmp
<1>4. ASSUME NEW p \in Launched, Inspect(p) PROVE ReplacesWithImage'
  BY <1>4 DEF Inspect
<1>5. ASSUME NEW p \in Launched, VMImage(p) PROVE ReplacesWithImage'
  BY <1>5 DEF VMImage
<1>6. ASSUME NEW p \in Launched, NewBuilder(p) PROVE ReplacesWithImage'
  BY <1>6 DEF NewBuilder
<1>7. ASSUME NEW p \in Launched, Build(p) PROVE ReplacesWithImage'
  <2>1. CASE p \in err'
    BY <1>7, <2>1 DEF Build
  <2>2. CASE p \notin err'
    BY <1>7, <2>2 DEF Build
  <2> QED
    BY <2>1, <2>2
<1>8. ASSUME NEW p \in Launched, RemoveOld(p) PROVE ReplacesWithImage'
  BY <1>8 DEF RemoveOld
<1>9. ASSUME NEW p \in Launched, Create(p) PROVE ReplacesWithImage'
  BY <1>9 DEF Create
<1>10. ASSUME NEW p \in Launched, Copy(p) PROVE ReplacesWithImage'
  BY <1>10 DEF Copy
<1>11. ASSUME NEW p \in Launched, RemoveSource(p) PROVE ReplacesWithImage'
  BY <1>11 DEF RemoveSource
<1>11a. ASSUME NEW p \in Launched, CloseFile(p) PROVE ReplacesWithImage'
  BY <1>11a DEF CloseFile
<1>12. ASSUME NEW p \in Launched, RemoveDir(p) PROVE ReplacesWithImage'
  BY <1>12 DEF RemoveDir
<1>13. ASSUME NEW p \in Launched, RemoveVM(p) PROVE ReplacesWithImage'
  BY <1>13 DEF RemoveVM
<1>14. ASSUME NEW p \in Launched, Chown(p) PROVE ReplacesWithImage'
  BY <1>14 DEF Chown
<1>15. ASSUME NEW p \in Launched, MakeDisk(p) PROVE ReplacesWithImage'
  BY <1>15 DEF MakeDisk
<1>16. ASSUME NEW p \in Launched, Push(p) PROVE ReplacesWithImage'
  BY <1>16 DEF Push
<1>17. ASSUME NEW p \in Launched, Cancel(p) PROVE ReplacesWithImage'
  BY <1>17 DEF Cancel
<1>18. CASE UNCHANGED vars
  BY <1>18 DEF vars
<1> QED
  BY <1>1, <1>2, <1>3, <1>4, <1>5, <1>6, <1>7, <1>8, <1>9, <1>10, <1>11, <1>12, <1>13, <1>14, <1>15, <1>16, <1>17, <1>18, <1>11a DEF Next, Step, Ended

(* The deferred removal of the directory follows every step after MkTmp.    *)
LEMMA TmpFollowsStep == CInv /\ [Next]_vars => TmpFollows'
<1> SUFFICES ASSUME CInv, [Next]_vars PROVE TmpFollows'
  OBVIOUS
<1> USE ConvertAssumption, LaunchedRuns DEF CInv, TypeOK, TmpFollows, Files, host, files, registry,
      Launched, Live, MayCancel, Flaky, Goto, Proceed, Fail, Refused, Killed, Command, Tagged
<1>1. ASSUME NEW p \in Launched, Validate(p) PROVE TmpFollows'
  BY <1>1 DEF Validate
<1>2. ASSUME NEW p \in Launched, Prepare(p) PROVE TmpFollows'
  BY <1>2 DEF Prepare
<1>3. ASSUME NEW p \in Launched, MkTmp(p) PROVE TmpFollows'
  BY <1>3 DEF MkTmp
<1>4. ASSUME NEW p \in Launched, Inspect(p) PROVE TmpFollows'
  BY <1>4 DEF Inspect
<1>5. ASSUME NEW p \in Launched, VMImage(p) PROVE TmpFollows'
  BY <1>5 DEF VMImage
<1>6. ASSUME NEW p \in Launched, NewBuilder(p) PROVE TmpFollows'
  BY <1>6 DEF NewBuilder
<1>7. ASSUME NEW p \in Launched, Build(p) PROVE TmpFollows'
  BY <1>7 DEF Build
<1>8. ASSUME NEW p \in Launched, RemoveOld(p) PROVE TmpFollows'
  BY <1>8 DEF RemoveOld
<1>9. ASSUME NEW p \in Launched, Create(p) PROVE TmpFollows'
  BY <1>9 DEF Create
<1>10. ASSUME NEW p \in Launched, Copy(p) PROVE TmpFollows'
  BY <1>10 DEF Copy
<1>11. ASSUME NEW p \in Launched, RemoveSource(p) PROVE TmpFollows'
  BY <1>11 DEF RemoveSource
<1>12. ASSUME NEW p \in Launched, CloseFile(p) PROVE TmpFollows'
  BY <1>12 DEF CloseFile
<1>13. ASSUME NEW p \in Launched, RemoveDir(p) PROVE TmpFollows'
  BY <1>13 DEF RemoveDir
<1>14. ASSUME NEW p \in Launched, RemoveVM(p) PROVE TmpFollows'
  BY <1>14 DEF RemoveVM
<1>15. ASSUME NEW p \in Launched, Chown(p) PROVE TmpFollows'
  BY <1>15 DEF Chown
<1>16. ASSUME NEW p \in Launched, MakeDisk(p) PROVE TmpFollows'
  BY <1>16 DEF MakeDisk
<1>17. ASSUME NEW p \in Launched, Push(p) PROVE TmpFollows'
  BY <1>17 DEF Push
<1>18. ASSUME NEW p \in Launched, Cancel(p) PROVE TmpFollows'
  BY <1>18 DEF Cancel
<1>19. CASE UNCHANGED vars
  BY <1>19 DEF vars
<1> QED
  BY <1>1, <1>2, <1>3, <1>4, <1>5, <1>6, <1>7, <1>8, <1>9, <1>10, <1>11, <1>12,
     <1>13, <1>14, <1>15, <1>16, <1>17, <1>18, <1>19 DEF Next, Step, Ended

(* The deferred removal of the image follows every step after VMImage.      *)
LEMMA VMFollowsStep == CInv /\ [Next]_vars => VMFollows'
<1> SUFFICES ASSUME CInv, [Next]_vars PROVE VMFollows'
  OBVIOUS
<1>0. /\ Launched \subseteq Proc /\ pc \in [Proc -> Steps \cup {"ended"}]
      /\ VMFollows
  BY LaunchedRuns DEF CInv, TypeOK
<1> USE <1>0 DEF VMFollows, host, files, registry,
      Launched, Live, MayCancel, Flaky, Goto, Proceed, Fail, Refused, Killed, Command, Tagged
<1>1. ASSUME NEW p \in Launched, Validate(p) PROVE VMFollows'
  BY <1>1 DEF Validate
<1>2. ASSUME NEW p \in Launched, Prepare(p) PROVE VMFollows'
  BY <1>2 DEF Prepare
<1>3. ASSUME NEW p \in Launched, MkTmp(p) PROVE VMFollows'
  BY <1>3 DEF MkTmp
<1>4. ASSUME NEW p \in Launched, Inspect(p) PROVE VMFollows'
  BY <1>4 DEF Inspect
<1>5. ASSUME NEW p \in Launched, VMImage(p) PROVE VMFollows'
  BY <1>5 DEF VMImage
<1>6. ASSUME NEW p \in Launched, NewBuilder(p) PROVE VMFollows'
  BY <1>6 DEF NewBuilder
<1>7. ASSUME NEW p \in Launched, Build(p) PROVE VMFollows'
  BY <1>7 DEF Build
<1>8. ASSUME NEW p \in Launched, RemoveOld(p) PROVE VMFollows'
  BY <1>8 DEF RemoveOld
<1>9. ASSUME NEW p \in Launched, Create(p) PROVE VMFollows'
  <2>1. pc[p] = "create" /\ (pc' = [pc EXCEPT ![p] = "copy"] \/ pc' = [pc EXCEPT ![p] = "close"])
    BY <1>9 DEF Create
  <2>2. UNCHANGED <<conf, cancelled, images, removes>>
    BY <1>9 DEF Create
  <2> QED
    BY <2>1, <2>2
<1>10. ASSUME NEW p \in Launched, Copy(p) PROVE VMFollows'
  BY <1>10 DEF Copy
<1>11. ASSUME NEW p \in Launched, RemoveSource(p) PROVE VMFollows'
  BY <1>11 DEF RemoveSource
<1>12. ASSUME NEW p \in Launched, CloseFile(p) PROVE VMFollows'
  BY <1>12 DEF CloseFile
<1>13. ASSUME NEW p \in Launched, RemoveDir(p) PROVE VMFollows'
  BY <1>13 DEF RemoveDir
<1>14. ASSUME NEW p \in Launched, RemoveVM(p) PROVE VMFollows'
  BY <1>14 DEF RemoveVM
<1>15. ASSUME NEW p \in Launched, Chown(p) PROVE VMFollows'
  BY <1>15 DEF Chown
<1>16. ASSUME NEW p \in Launched, MakeDisk(p) PROVE VMFollows'
  BY <1>16 DEF MakeDisk
<1>17. ASSUME NEW p \in Launched, Push(p) PROVE VMFollows'
  BY <1>17 DEF Push
<1>18. ASSUME NEW p \in Launched, Cancel(p) PROVE VMFollows'
  BY <1>18 DEF Cancel
<1>19. CASE UNCHANGED vars
  BY <1>19 DEF vars
<1> QED
  BY <1>1, <1>2, <1>3, <1>4, <1>5, <1>6, <1>7, <1>8, <1>9, <1>10, <1>11, <1>12,
     <1>13, <1>14, <1>15, <1>16, <1>17, <1>18, <1>19 DEF Next, Step, Ended

(* Only a run about to create the output takes it away.                     *)
LEMMA FileFollowsStep == CInv /\ [Next]_vars => FileFollows'
<1> SUFFICES ASSUME CInv, [Next]_vars PROVE FileFollows'
  OBVIOUS
<1> USE ConvertAssumption, LaunchedRuns DEF CInv, TypeOK, FileFollows, ToCreate, Steps, Files, host, files, registry,
      Launched, Live, MayCancel, Flaky, Goto, Proceed, Fail, Refused, Killed, Command, Tagged
<1>1. ASSUME NEW p \in Launched, Validate(p) PROVE FileFollows'
  BY <1>1 DEF Validate
<1>2. ASSUME NEW p \in Launched, Prepare(p) PROVE FileFollows'
  BY <1>2 DEF Prepare
<1>3. ASSUME NEW p \in Launched, MkTmp(p) PROVE FileFollows'
  BY <1>3 DEF MkTmp
<1>4. ASSUME NEW p \in Launched, Inspect(p) PROVE FileFollows'
  BY <1>4 DEF Inspect
<1>5. ASSUME NEW p \in Launched, VMImage(p) PROVE FileFollows'
  BY <1>5 DEF VMImage
<1>6. ASSUME NEW p \in Launched, NewBuilder(p) PROVE FileFollows'
  BY <1>6 DEF NewBuilder
<1>7. ASSUME NEW p \in Launched, Build(p) PROVE FileFollows'
  BY <1>7 DEF Build
<1>8. ASSUME NEW p \in Launched, RemoveOld(p) PROVE FileFollows'
  BY <1>8 DEF RemoveOld
<1>9. ASSUME NEW p \in Launched, Create(p) PROVE FileFollows'
  BY <1>9 DEF Create
<1>10. ASSUME NEW p \in Launched, Copy(p) PROVE FileFollows'
  BY <1>10 DEF Copy
<1>11. ASSUME NEW p \in Launched, RemoveSource(p) PROVE FileFollows'
  BY <1>11 DEF RemoveSource
<1>12. ASSUME NEW p \in Launched, CloseFile(p) PROVE FileFollows'
  BY <1>12 DEF CloseFile
<1>13. ASSUME NEW p \in Launched, RemoveDir(p) PROVE FileFollows'
  BY <1>13 DEF RemoveDir
<1>14. ASSUME NEW p \in Launched, RemoveVM(p) PROVE FileFollows'
  BY <1>14 DEF RemoveVM
<1>15. ASSUME NEW p \in Launched, Chown(p) PROVE FileFollows'
  BY <1>15 DEF Chown
<1>16. ASSUME NEW p \in Launched, MakeDisk(p) PROVE FileFollows'
  BY <1>16 DEF MakeDisk
<1>17. ASSUME NEW p \in Launched, Push(p) PROVE FileFollows'
  BY <1>17 DEF Push
<1>18. ASSUME NEW p \in Launched, Cancel(p) PROVE FileFollows'
  BY <1>18 DEF Cancel
<1>19. CASE UNCHANGED vars
  BY <1>19 DEF vars
<1> QED
  BY <1>1, <1>2, <1>3, <1>4, <1>5, <1>6, <1>7, <1>8, <1>9, <1>10, <1>11, <1>12,
     <1>13, <1>14, <1>15, <1>16, <1>17, <1>18, <1>19 DEF Next, Step, Ended

(* A run alone on its output finds it as it left it.                        *)
LEMMA AloneFollowsStep == CInv /\ [Next]_vars => AloneFollows'
<1> SUFFICES ASSUME CInv, [Next]_vars PROVE AloneFollows'
  OBVIOUS
<1> USE ConvertAssumption, LaunchedRuns DEF CInv, TypeOK, AloneFollows, ToCreate, Steps, Files, host, files, registry,
      Launched, Live, MayCancel, Flaky, Goto, Proceed, Fail, Refused, Killed, Command, Tagged
<1>1. ASSUME NEW p \in Launched, Validate(p) PROVE AloneFollows'
  BY <1>1 DEF Validate
<1>2. ASSUME NEW p \in Launched, Prepare(p) PROVE AloneFollows'
  BY <1>2 DEF Prepare
<1>3. ASSUME NEW p \in Launched, MkTmp(p) PROVE AloneFollows'
  BY <1>3 DEF MkTmp
<1>4. ASSUME NEW p \in Launched, Inspect(p) PROVE AloneFollows'
  BY <1>4 DEF Inspect
<1>5. ASSUME NEW p \in Launched, VMImage(p) PROVE AloneFollows'
  BY <1>5 DEF VMImage
<1>6. ASSUME NEW p \in Launched, NewBuilder(p) PROVE AloneFollows'
  BY <1>6 DEF NewBuilder
<1>7. ASSUME NEW p \in Launched, Build(p) PROVE AloneFollows'
  BY <1>7 DEF Build
<1>8. ASSUME NEW p \in Launched, RemoveOld(p) PROVE AloneFollows'
  BY <1>8 DEF RemoveOld
<1>9. ASSUME NEW p \in Launched, Create(p) PROVE AloneFollows'
  BY <1>9 DEF Create
<1>10. ASSUME NEW p \in Launched, Copy(p) PROVE AloneFollows'
  BY <1>10 DEF Copy
<1>11. ASSUME NEW p \in Launched, RemoveSource(p) PROVE AloneFollows'
  BY <1>11 DEF RemoveSource
<1>12. ASSUME NEW p \in Launched, CloseFile(p) PROVE AloneFollows'
  BY <1>12 DEF CloseFile
<1>13. ASSUME NEW p \in Launched, RemoveDir(p) PROVE AloneFollows'
  BY <1>13 DEF RemoveDir
<1>14. ASSUME NEW p \in Launched, RemoveVM(p) PROVE AloneFollows'
  BY <1>14 DEF RemoveVM
<1>15. ASSUME NEW p \in Launched, Chown(p) PROVE AloneFollows'
  BY <1>15 DEF Chown
<1>16. ASSUME NEW p \in Launched, MakeDisk(p) PROVE AloneFollows'
  BY <1>16 DEF MakeDisk
<1>17. ASSUME NEW p \in Launched, Push(p) PROVE AloneFollows'
  BY <1>17 DEF Push
<1>18. ASSUME NEW p \in Launched, Cancel(p) PROVE AloneFollows'
  BY <1>18 DEF Cancel
<1>19. CASE UNCHANGED vars
  BY <1>19 DEF vars
<1> QED
  BY <1>1, <1>2, <1>3, <1>4, <1>5, <1>6, <1>7, <1>8, <1>9, <1>10, <1>11, <1>12,
     <1>13, <1>14, <1>15, <1>16, <1>17, <1>18, <1>19 DEF Next, Step, Ended

(* A run without --force that finds the old output does not start.          *)
LEMMA OldFollowsStep == CInv /\ [Next]_vars => OldFollows'
<1> SUFFICES ASSUME CInv, [Next]_vars PROVE OldFollows'
  OBVIOUS
<1> USE ConvertAssumption, LaunchedRuns DEF CInv, TypeOK, OldFollows, Files, host, files, registry,
      Launched, Live, MayCancel, Flaky, Goto, Proceed, Fail, Refused, Killed, Command, Tagged
<1>1. ASSUME NEW p \in Launched, Validate(p) PROVE OldFollows'
  BY <1>1 DEF Validate
<1>2. ASSUME NEW p \in Launched, Prepare(p) PROVE OldFollows'
  BY <1>2 DEF Prepare
<1>3. ASSUME NEW p \in Launched, MkTmp(p) PROVE OldFollows'
  BY <1>3 DEF MkTmp
<1>4. ASSUME NEW p \in Launched, Inspect(p) PROVE OldFollows'
  BY <1>4 DEF Inspect
<1>5. ASSUME NEW p \in Launched, VMImage(p) PROVE OldFollows'
  BY <1>5 DEF VMImage
<1>6. ASSUME NEW p \in Launched, NewBuilder(p) PROVE OldFollows'
  BY <1>6 DEF NewBuilder
<1>7. ASSUME NEW p \in Launched, Build(p) PROVE OldFollows'
  BY <1>7 DEF Build
<1>8. ASSUME NEW p \in Launched, RemoveOld(p) PROVE OldFollows'
  BY <1>8 DEF RemoveOld
<1>9. ASSUME NEW p \in Launched, Create(p) PROVE OldFollows'
  BY <1>9 DEF Create
<1>10. ASSUME NEW p \in Launched, Copy(p) PROVE OldFollows'
  BY <1>10 DEF Copy
<1>11. ASSUME NEW p \in Launched, RemoveSource(p) PROVE OldFollows'
  BY <1>11 DEF RemoveSource
<1>12. ASSUME NEW p \in Launched, CloseFile(p) PROVE OldFollows'
  BY <1>12 DEF CloseFile
<1>13. ASSUME NEW p \in Launched, RemoveDir(p) PROVE OldFollows'
  BY <1>13 DEF RemoveDir
<1>14. ASSUME NEW p \in Launched, RemoveVM(p) PROVE OldFollows'
  BY <1>14 DEF RemoveVM
<1>15. ASSUME NEW p \in Launched, Chown(p) PROVE OldFollows'
  BY <1>15 DEF Chown
<1>16. ASSUME NEW p \in Launched, MakeDisk(p) PROVE OldFollows'
  BY <1>16 DEF MakeDisk
<1>17. ASSUME NEW p \in Launched, Push(p) PROVE OldFollows'
  BY <1>17 DEF Push
<1>18. ASSUME NEW p \in Launched, Cancel(p) PROVE OldFollows'
  BY <1>18 DEF Cancel
<1>19. CASE UNCHANGED vars
  BY <1>19 DEF vars
<1> QED
  BY <1>1, <1>2, <1>3, <1>4, <1>5, <1>6, <1>7, <1>8, <1>9, <1>10, <1>11, <1>12,
     <1>13, <1>14, <1>15, <1>16, <1>17, <1>18, <1>19 DEF Next, Step, Ended

(* A run opens its file once, and only writes to the one it opened.         *)
LEMMA BytesFollowStep == CInv /\ [Next]_vars => BytesFollow'
<1> SUFFICES ASSUME CInv, [Next]_vars PROVE BytesFollow'
  OBVIOUS
<1>0. /\ Launched \subseteq Proc /\ pc \in [Proc -> Steps \cup {"ended"}] /\ whole \subseteq Proc
      /\ path \in Files \cup {NoFile} /\ body \in [Files -> SUBSET Proc]
      /\ fd \in [Proc -> Files \cup {NoFile}] /\ Proc \subseteq Files /\ NoFile \notin Files
      /\ (\A p \in Proc : pc[p] = "copy" => fd[p] \in Files)
      /\ BytesFollow
  BY ConvertAssumption, LaunchedRuns DEF CInv, TypeOK, Files
<1> USE <1>0 DEF BytesFollow, ToCreate, host, files, registry,
      Launched, Live, Flaky, Goto, Proceed, Fail, Refused, Killed, Command, Tagged
<1>1. ASSUME NEW p \in Launched, Validate(p) PROVE BytesFollow'
  BY <1>1 DEF Validate
<1>2. ASSUME NEW p \in Launched, Prepare(p) PROVE BytesFollow'
  BY <1>2 DEF Prepare
<1>3. ASSUME NEW p \in Launched, MkTmp(p) PROVE BytesFollow'
  BY <1>3 DEF MkTmp
<1>4. ASSUME NEW p \in Launched, Inspect(p) PROVE BytesFollow'
  BY <1>4 DEF Inspect
<1>5. ASSUME NEW p \in Launched, VMImage(p) PROVE BytesFollow'
  BY <1>5 DEF VMImage
<1>6. ASSUME NEW p \in Launched, NewBuilder(p) PROVE BytesFollow'
  BY <1>6 DEF NewBuilder
<1>7. ASSUME NEW p \in Launched, Build(p) PROVE BytesFollow'
  BY <1>7 DEF Build
<1>8. ASSUME NEW p \in Launched, RemoveOld(p) PROVE BytesFollow'
  BY <1>8 DEF RemoveOld
<1>9. ASSUME NEW p \in Launched, Create(p) PROVE BytesFollow'
  BY <1>9 DEF Create
<1>10. ASSUME NEW p \in Launched, Copy(p) PROVE BytesFollow'
  BY <1>10 DEF Copy
<1>11. ASSUME NEW p \in Launched, RemoveSource(p) PROVE BytesFollow'
  BY <1>11 DEF RemoveSource
<1>12. ASSUME NEW p \in Launched, CloseFile(p) PROVE BytesFollow'
  BY <1>12 DEF CloseFile
<1>13. ASSUME NEW p \in Launched, RemoveDir(p) PROVE BytesFollow'
  BY <1>13 DEF RemoveDir
<1>14. ASSUME NEW p \in Launched, RemoveVM(p) PROVE BytesFollow'
  BY <1>14 DEF RemoveVM
<1>15. ASSUME NEW p \in Launched, Chown(p) PROVE BytesFollow'
  BY <1>15 DEF Chown
<1>16. ASSUME NEW p \in Launched, MakeDisk(p) PROVE BytesFollow'
  BY <1>16 DEF MakeDisk
<1>17. ASSUME NEW p \in Launched, Push(p) PROVE BytesFollow'
  BY <1>17 DEF Push
<1>18. ASSUME NEW p \in Launched, Cancel(p) PROVE BytesFollow'
  BY <1>18 DEF Cancel
<1>19. CASE UNCHANGED vars
  BY <1>19 DEF vars
<1> QED
  BY <1>1, <1>2, <1>3, <1>4, <1>5, <1>6, <1>7, <1>8, <1>9, <1>10, <1>11, <1>12,
     <1>13, <1>14, <1>15, <1>16, <1>17, <1>18, <1>19 DEF Next, Step, Ended

(* The types of every run, and the image of a run that replaces the output. *)
THEOREM ConvertInvariant == Spec => []CInv
<1>1. CInv /\ [Next]_vars => CInv'
  BY TypeOKStep, ReplacesWithImageStep, TmpFollowsStep, VMFollowsStep, FileFollowsStep,
     AloneFollowsStep, OldFollowsStep, BytesFollowStep DEF CInv
<1> QED
  BY InitCInv, <1>1, PTL DEF Spec

(* The old output is only given up by a run with a complete image of its    *)
(* own: only RemoveOld takes the file away, and ReplacesWithImage says what *)
(* a run has that is about to.                                              *)
THEOREM OldOutputSafe == Spec => OldOutputOutlivesBuild
<1> DEFINE Replaces == \E p \in vmDisk \ err : pc[p] = "removeOld" /\ pc'[p] = "create"
<1>1. ASSUME CInv, [Next]_vars, path = Old, path' # Old PROVE Replaces
  <2> USE <1>1, ConvertAssumption, LaunchedRuns DEF CInv, ReplacesWithImage, files, Files
  <2>1. ASSUME NEW p \in Launched, Validate(p) PROVE Replaces
    BY <2>1 DEF Validate
  <2>2. ASSUME NEW p \in Launched, Prepare(p) PROVE Replaces
    BY <2>2 DEF Prepare
  <2>3. ASSUME NEW p \in Launched, MkTmp(p) PROVE Replaces
    BY <2>3 DEF MkTmp
  <2>4. ASSUME NEW p \in Launched, Inspect(p) PROVE Replaces
    BY <2>4 DEF Inspect
  <2>5. ASSUME NEW p \in Launched, VMImage(p) PROVE Replaces
    BY <2>5 DEF VMImage
  <2>6. ASSUME NEW p \in Launched, NewBuilder(p) PROVE Replaces
    BY <2>6 DEF NewBuilder
  <2>7. ASSUME NEW p \in Launched, Build(p) PROVE Replaces
    BY <2>7 DEF Build
  <2>8. ASSUME NEW p \in Launched, RemoveOld(p) PROVE Replaces
    <3>1. pc[p] = "removeOld" /\ pc' = [pc EXCEPT ![p] = "create"]
      BY <2>8 DEF RemoveOld, Proceed, Goto
    <3>2. p \in vmDisk \ err /\ pc \in [Proc -> Steps \cup {"ended"}] /\ p \in Proc
      BY <3>1 DEF TypeOK
    <3> QED
      BY <3>1, <3>2
  <2>9. ASSUME NEW p \in Launched, Create(p) PROVE Replaces
    BY <2>9 DEF Create
  <2>10. ASSUME NEW p \in Launched, Copy(p) PROVE Replaces
    BY <2>10 DEF Copy
  <2>11. ASSUME NEW p \in Launched, RemoveSource(p) PROVE Replaces
    BY <2>11 DEF RemoveSource
  <2>11a. ASSUME NEW p \in Launched, CloseFile(p) PROVE Replaces
    BY <2>11a DEF CloseFile
  <2>12. ASSUME NEW p \in Launched, RemoveDir(p) PROVE Replaces
    BY <2>12 DEF RemoveDir
  <2>13. ASSUME NEW p \in Launched, RemoveVM(p) PROVE Replaces
    BY <2>13 DEF RemoveVM
  <2>14. ASSUME NEW p \in Launched, Chown(p) PROVE Replaces
    BY <2>14 DEF Chown
  <2>15. ASSUME NEW p \in Launched, MakeDisk(p) PROVE Replaces
    BY <2>15 DEF MakeDisk
  <2>16. ASSUME NEW p \in Launched, Push(p) PROVE Replaces
    BY <2>16 DEF Push
  <2>17. ASSUME NEW p \in Launched, Cancel(p) PROVE Replaces
    BY <2>17 DEF Cancel
  <2>18. CASE UNCHANGED vars
    BY <2>18 DEF vars
  <2> QED
    BY <2>1, <2>2, <2>3, <2>4, <2>5, <2>6, <2>7, <2>8, <2>9, <2>10, <2>11, <2>12, <2>13, <2>14, <2>15, <2>16, <2>17, <2>18, <2>11a DEF Next, Step, Ended
<1>2. CInv /\ [Next]_vars => [path = Old /\ path' # Old => Replaces]_vars
  BY <1>1
<1> QED
  BY ConvertInvariant, <1>2, PTL DEF Spec, OldOutputOutlivesBuild

(* Nothing of the temporary directory stays, unless it is mounted.          *)
THEOREM TmpIsCollected == Spec => []TmpCollected
<1>1. CInv => TmpCollected
  BY DEF CInv, TmpFollows, TmpCollected
<1> QED
  BY ConvertInvariant, <1>1, PTL

(* The kernel-enabled image of a run nobody interrupts goes away with it.   *)
THEOREM VMImageIsCollected == Spec => []VMImageCollected
<1>1. CInv => VMImageCollected
  BY DEF CInv, VMFollows, VMImageCollected
<1> QED
  BY ConvertInvariant, <1>1, PTL

(* Any number of runs, each reporting success, leave an output.             *)
THEOREM SomeFileIsLeft == Spec => []SuccessLeavesAFile
<1>1. CInv => SuccessLeavesAFile
  BY DEF CInv, FileFollows, ToCreate, EndedWell, SuccessLeavesAFile
<1> QED
  BY ConvertInvariant, <1>1, PTL

(* A run alone that reports success left its own image, and made and pushed *)
(* the container disk of it, unless a write failed at Close.                *)
THEOREM SuccessIsOwnImage == Spec => []SuccessMeansOwnImage
<1>1. CInv => SuccessMeansOwnImage
  BY ConvertAssumption DEF CInv, AloneFollows, ToCreate, EndedWell, SuccessMeansOwnImage, Files
<1> QED
  BY ConvertInvariant, <1>1, PTL

(* Without --force the old output stays, whatever runs there are: each one  *)
(* that looks finds it and ends.                                            *)
THEOREM OldOutputStays == Spec => OldOutputKept
<1>1. ASSUME CInv, [Next]_vars, \A p \in Launched : ~conf[p].force, path = Old
      PROVE  path' = Old /\ body'[Old] = body[Old]
  <2> USE <1>1, LaunchedRuns DEF CInv, OldFollows, files
  <2>1. ASSUME NEW p \in Launched, pc[p] = "validate", Step(p) \/ Cancel(p)
        PROVE  path' = Old /\ body'[Old] = body[Old]
    BY <2>1 DEF Step, Validate, Prepare, MkTmp, Inspect, VMImage, NewBuilder, Build, RemoveOld, Create,
       Copy, RemoveSource, CloseFile, RemoveDir, RemoveVM, Chown, MakeDisk, Push, Cancel, Command
  <2>2. ASSUME NEW p \in Launched, pc[p] = "ended", Step(p) \/ Cancel(p)
        PROVE  path' = Old /\ body'[Old] = body[Old]
    BY <2>2 DEF Step, Validate, Prepare, MkTmp, Inspect, VMImage, NewBuilder, Build, RemoveOld, Create,
       Copy, RemoveSource, CloseFile, RemoveDir, RemoveVM, Chown, MakeDisk, Push, Cancel, Command
  <2>3. CASE UNCHANGED vars
    BY <2>3 DEF vars
  <2> QED
    BY <2>1, <2>2, <2>3 DEF Next, Ended
<1>2. CInv /\ [Next]_vars =>
        [(\A p \in Launched : ~conf[p].force) /\ path = Old =>
            path' = Old /\ body'[Old] = body[Old]]_vars
  BY <1>1
<1> QED
  BY ConvertInvariant, <1>2, PTL DEF Spec, OldOutputKept
(* What no step changes any more: the runs that are done stay done, and     *)
(* those that find the output end without touching it.                      *)
LEMMA SettledStays ==
    ASSUME CInv, [Next]_vars, NEW p \in Proc, Settled(p)
    PROVE  Settled(p)'
<1> USE DEF Settled, EndedWell
<1>1. /\ p \in Launched /\ Launched \subseteq Proc /\ pc \in [Proc -> Steps \cup {"ended"}]
      /\ path # NoFile /\ (\A q \in Launched : pc[q] = "validate" => fd[q] = NoFile)
  BY LaunchedRuns, ConvertAssumption DEF CInv, TypeOK, BytesFollow, ToCreate, Files
<1>2. ASSUME NEW q \in Launched, Step(q) \/ Cancel(q)
      PROVE  Settled(p)'
  <2>1. pc[q] # "ended"
    BY <1>2 DEF Step, Validate, Prepare, MkTmp, Inspect, VMImage, NewBuilder, Build, RemoveOld, Create,
       Copy, RemoveSource, CloseFile, RemoveDir, RemoveVM, Chown, MakeDisk, Push, Cancel, Command
  <2>2. q # p /\ pc[q] = "validate" /\ ~conf[q].force
    BY <2>1
  <2>3. Validate(q) \/ Cancel(q)
    BY <1>2, <2>2 DEF Step, Prepare, MkTmp, Inspect, VMImage, NewBuilder, Build, RemoveOld, Create,
       Copy, RemoveSource, CloseFile, RemoveDir, RemoveVM, Chown, MakeDisk, Push, Command
  <2>4. CASE Validate(q)
    <3>1. pc' = [pc EXCEPT ![q] = "ended"] /\ err' = err \cup {q} /\ UNCHANGED <<conf, path, fd>>
      BY <1>1, <2>2, <2>4 DEF Validate, Fail, Goto, files
    <3> QED
      BY <1>1, <2>2, <3>1 DEF Launched
  <2>5. CASE Cancel(q)
    BY <2>5 DEF Cancel, files, Launched
  <2> QED
    BY <2>3, <2>4, <2>5
<1>3. CASE UNCHANGED vars
  BY <1>3 DEF vars, Launched
<1> QED
  BY <1>2, <1>3 DEF Next, Ended

(* The file of a run that is settled is whole and its own: every run that   *)
(* has opened a file opened another one.                                    *)
LEMMA SettledPublished ==
    ASSUME CInv, NEW p \in Proc, Settled(p)
    PROVE  Published(p)
<1>1. /\ p \in Launched /\ pc[p] = "ended" /\ p \notin err /\ path = fd[p]
      /\ (\A q \in Launched \ {p} : pc[q] = "validate" \/ fd[q] # fd[p])
  BY DEF Settled, EndedWell
<1>2. /\ fd[p] \in Files /\ NoFile \notin Files
      /\ p \in body[fd[p]] \/ \E q \in Launched \ {p} : fd[q] = fd[p]
      /\ "closeFile" \notin Flaky(p) => p \in whole
  BY <1>1, ConvertAssumption DEF CInv, BytesFollow, ToCreate
<1>3. \A q \in Launched \ {p} : fd[q] # fd[p]
  BY <1>1, <1>2 DEF CInv, BytesFollow, ToCreate
<1>4. body[fd[p]] = {p}
  BY <1>2, <1>3 DEF CInv, BytesFollow
<1> QED
  BY <1>1, <1>2, <1>4 DEF Published

(* An output that is there before the runs without --force look at the path *)
(* stays, whole and whatever they do, for any number of runs.               *)
THEOREM SequentialRunsAreSafe == Spec => SequentialRunsSafe
<1>1. ASSUME NEW p \in Proc
      PROVE  []CInv /\ [][Next]_vars => [](Settled(p) => []Published(p))
  <2>1. CInv /\ [Next]_vars /\ Settled(p) => Settled(p)'
    BY SettledStays
  <2>2. CInv /\ Settled(p) => Published(p)
    BY SettledPublished
  <2> QED
    BY <2>1, <2>2, PTL
<1>2. []CInv /\ [][Next]_vars => SequentialRunsSafe
  BY <1>1 DEF SequentialRunsSafe
<1> QED
  BY ConvertInvariant, <1>2, PTL DEF Spec

------------------------------------------------------------------------------
(* What is left to do of a run before a step: the steps of the code, in the *)
(* order of the code, its deferred calls included.                          *)
Left(s) ==
    CASE s = "validate" -> 18
      [] s = "prepare" -> 17
      [] s = "mkTmp" -> 16
      [] s = "inspect" -> 15
      [] s = "vmImage" -> 14
      [] s = "newBuilder" -> 13
      [] s = "build" -> 12
      [] s = "removeOld" -> 11
      [] s = "create" -> 10
      [] s = "copy" -> 9
      [] s = "removeSource" -> 8
      [] s = "closeFile" -> 7
      [] s = "close" -> 6
      [] s = "removeVM" -> 5
      [] s = "removeTmp" -> 4
      [] s = "chown" -> 3
      [] s = "makeDisk" -> 2
      [] s = "push" -> 1
      [] OTHER -> 0

(* A step leaves p less to do and the other runs where they are.            *)
Lowers(p) ==
    /\ Left(pc[p]) \in 1 .. 18 /\ Left(pc'[p]) < Left(pc[p])
    /\ \A q \in Proc \ {p} : pc'[q] = pc[q]

(* A step of p leaves it less to do; nothing else changes what is left.     *)
GoesOn(p) ==
    IF Step(p) THEN Left(pc[p]) \in 1 .. 18 /\ Left(pc'[p]) < Left(pc[p])
    ELSE Left(pc'[p]) = Left(pc[p])

(* What is left before each step.                                           *)
LEMMA LeftIs ==
    /\ Left("validate") = 18
    /\ Left("prepare") = 17
    /\ Left("mkTmp") = 16
    /\ Left("inspect") = 15
    /\ Left("vmImage") = 14
    /\ Left("newBuilder") = 13
    /\ Left("build") = 12
    /\ Left("removeOld") = 11
    /\ Left("create") = 10
    /\ Left("copy") = 9
    /\ Left("removeSource") = 8
    /\ Left("closeFile") = 7
    /\ Left("close") = 6
    /\ Left("removeVM") = 5
    /\ Left("removeTmp") = 4
    /\ Left("chown") = 3
    /\ Left("makeDisk") = 2
    /\ Left("push") = 1
    /\ Left("ended") = 0
  BY DEF Left

(* A run is over after at most 18 steps of its own, whatever fails, whoever *)
(* interrupts, and however many runs there are.                             *)
THEOREM RunsGoOn == Spec => [][\A p \in Launched : GoesOn(p)]_vars
<1>1. ASSUME CInv, NEW p \in Launched, Step(p)
      PROVE  Lowers(p)
  <2>1. pc \in [Proc -> Steps \cup {"ended"}] /\ p \in Proc
    BY <1>1, LaunchedRuns DEF CInv, TypeOK
  <2> USE DEF Goto, Proceed, Fail, Command
  <2>2. CASE Validate(p)
    <3>1. pc[p] = "validate" /\ \E t \in {"prepare", "ended"} : pc' = [pc EXCEPT ![p] = t]
      BY <2>2 DEF Validate
    <3> QED
      BY <2>1, <3>1, LeftIs DEF Lowers
  <2>3. CASE Prepare(p)
    <3>1. pc[p] = "prepare" /\ \E t \in {"mkTmp", "ended"} : pc' = [pc EXCEPT ![p] = t]
      BY <2>3 DEF Prepare
    <3> QED
      BY <2>1, <3>1, LeftIs DEF Lowers
  <2>4. CASE MkTmp(p)
    <3>1. pc[p] = "mkTmp" /\ \E t \in {"inspect", "ended"} : pc' = [pc EXCEPT ![p] = t]
      BY <2>4 DEF MkTmp
    <3> QED
      BY <2>1, <3>1, LeftIs DEF Lowers
  <2>5. CASE Inspect(p)
    <3>1. pc[p] = "inspect" /\ \E t \in {"vmImage", "removeTmp"} : pc' = [pc EXCEPT ![p] = t]
      BY <2>5 DEF Inspect
    <3> QED
      BY <2>1, <3>1, LeftIs DEF Lowers
  <2>6. CASE VMImage(p)
    <3>1. pc[p] = "vmImage" /\ \E t \in {"newBuilder", "removeTmp"} : pc' = [pc EXCEPT ![p] = t]
      BY <2>6 DEF VMImage
    <3> QED
      BY <2>1, <3>1, LeftIs DEF Lowers
  <2>7. CASE NewBuilder(p)
    <3>1. pc[p] = "newBuilder" /\ \E t \in {"build", "removeVM"} : pc' = [pc EXCEPT ![p] = t]
      BY <2>7 DEF NewBuilder
    <3> QED
      BY <2>1, <3>1, LeftIs DEF Lowers
  <2>8. CASE Build(p)
    <3>1. pc[p] = "build" /\ \E t \in {"removeOld", "close"} : pc' = [pc EXCEPT ![p] = t]
      BY <2>8 DEF Build
    <3> QED
      BY <2>1, <3>1, LeftIs DEF Lowers
  <2>9. CASE RemoveOld(p)
    <3>1. pc[p] = "removeOld" /\ \E t \in {"create", "close"} : pc' = [pc EXCEPT ![p] = t]
      BY <2>9 DEF RemoveOld
    <3> QED
      BY <2>1, <3>1, LeftIs DEF Lowers
  <2>10. CASE Create(p)
    <3>1. pc[p] = "create" /\ \E t \in {"copy", "close"} : pc' = [pc EXCEPT ![p] = t]
      BY <2>10 DEF Create
    <3> QED
      BY <2>1, <3>1, LeftIs DEF Lowers
  <2>11. CASE Copy(p)
    <3>1. pc[p] = "copy" /\ \E t \in {"removeSource", "close"} : pc' = [pc EXCEPT ![p] = t]
      BY <2>11 DEF Copy
    <3> QED
      BY <2>1, <3>1, LeftIs DEF Lowers
  <2>12. CASE RemoveSource(p)
    <3>1. pc[p] = "removeSource" /\ \E t \in {"closeFile", "close"} : pc' = [pc EXCEPT ![p] = t]
      BY <2>12 DEF RemoveSource
    <3> QED
      BY <2>1, <3>1, LeftIs DEF Lowers
  <2>13. CASE CloseFile(p)
    <3>1. pc[p] = "closeFile" /\ \E t \in {"close"} : pc' = [pc EXCEPT ![p] = t]
      BY <2>13 DEF CloseFile
    <3> QED
      BY <2>1, <3>1, LeftIs DEF Lowers
  <2>14. CASE RemoveDir(p)
    <3>1. \/ pc[p] = "close" /\ pc' = [pc EXCEPT ![p] = "removeVM"]
          \/ pc[p] = "removeTmp" /\ \E t \in {"ended", "chown"} : pc' = [pc EXCEPT ![p] = t]
      BY <2>14 DEF RemoveDir
    <3> QED
      BY <2>1, <3>1, LeftIs DEF Lowers
  <2>15. CASE RemoveVM(p)
    <3>1. pc[p] = "removeVM" /\ \E t \in {"removeTmp"} : pc' = [pc EXCEPT ![p] = t]
      BY <2>15 DEF RemoveVM
    <3> QED
      BY <2>1, <3>1, LeftIs DEF Lowers
  <2>16. CASE Chown(p)
    <3>1. pc[p] = "chown" /\ \E t \in {"makeDisk", "ended"} : pc' = [pc EXCEPT ![p] = t]
      BY <2>16 DEF Chown
    <3> QED
      BY <2>1, <3>1, LeftIs DEF Lowers
  <2>17. CASE MakeDisk(p)
    <3>1. pc[p] = "makeDisk" /\ \E t \in {"push", "ended"} : pc' = [pc EXCEPT ![p] = t]
      BY <2>17 DEF MakeDisk
    <3> QED
      BY <2>1, <3>1, LeftIs DEF Lowers
  <2>18. CASE Push(p)
    <3>1. pc[p] = "push" /\ \E t \in {"ended"} : pc' = [pc EXCEPT ![p] = t]
      BY <2>18 DEF Push
    <3> QED
      BY <2>1, <3>1, LeftIs DEF Lowers
  <2> QED
    BY <1>1, <2>2, <2>3, <2>4, <2>5, <2>6, <2>7, <2>8, <2>9, <2>10, <2>11, <2>12, <2>13, <2>14, <2>15, <2>16, <2>17, <2>18 DEF Step
<1>2. ASSUME NEW p \in Launched, (\E q \in Launched : Cancel(q)) \/ Ended \/ UNCHANGED vars
      PROVE  Left(pc'[p]) = Left(pc[p])
  BY <1>2 DEF Cancel, Ended, vars
<1>3. CInv /\ [Next]_vars => [\A p \in Launched : GoesOn(p)]_vars
  <2> SUFFICES ASSUME CInv, [Next]_vars, NEW p \in Launched PROVE GoesOn(p)
    OBVIOUS
  <2>1. CASE Step(p)
    BY <1>1, <2>1 DEF GoesOn, Lowers
  <2>2. CASE ~Step(p) /\ \E q \in Launched \ {p} : Step(q)
    <3>1. PICK q \in Launched \ {p} : Step(q)
      BY <2>2
    <3>2. Lowers(q) /\ p \in Proc \ {q}
      BY <1>1, <3>1, LaunchedRuns DEF CInv
    <3> QED
      BY <2>2, <3>2 DEF GoesOn, Lowers
  <2>3. CASE ~Step(p) /\ ((\E q \in Launched : Cancel(q)) \/ Ended \/ UNCHANGED vars)
    BY <1>2, <2>3 DEF GoesOn
  <2> QED
    BY <2>1, <2>2, <2>3 DEF Next
<1> QED
  BY ConvertInvariant, <1>3, PTL DEF Spec
=============================================================================
