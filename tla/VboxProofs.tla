----------------------------- MODULE VboxProofs -----------------------------
(***************************************************************************)
(* For any runs with any disks.  Overlapping or not, whoever started a     *)
(* machine powers it off, if startvm told it so (RunningOwned), and one    *)
(* that was started has somebody who will unregister it (RegisteredOwned). *)
(* Runs that follow one another find the machine as the step before left   *)
(* it (SlotsFollow), and what stays attached when it is deleted is nothing *)
(* (FilesFollow).                                                          *)
(***************************************************************************)
EXTENDS Vbox, TLAPS

(* The disks of a run, numbered from one.                                   *)
LEMMA DisksType ==
    ASSUME TypeOK, NEW p \in Proc
    PROVE  /\ Len(Disks(p)) \in 0 .. MaxDisks
           /\ DOMAIN Disks(p) = 1 .. Len(Disks(p))
           /\ \A i \in 1 .. Len(Disks(p)) : Disks(p)[i] \in DiskSpec
           /\ Disks(p) = <<>> <=> Len(Disks(p)) = 0
<1>1. conf.runs[p] \in RunType
  BY VboxAssumption DEF TypeOK, ScenarioType
<1>2. Disks(p) \in UNION {[1 .. n -> DiskSpec] : n \in 0 .. MaxDisks}
  BY <1>1 DEF RunType, Disks
<1>3. PICK n \in 0 .. MaxDisks : Disks(p) \in [1 .. n -> DiskSpec]
  BY <1>2
<1>4. n \in Nat
  BY VboxAssumption
<1>5. Disks(p) \in Seq(DiskSpec) /\ Len(Disks(p)) = n
  BY <1>3, <1>4
<1> QED
  BY <1>3, <1>4, <1>5

(* The file of a disk is one the user has.                                  *)
LEMMA DiskFileType ==
    ASSUME TypeOK, NEW p \in Proc, NEW i \in 1 .. Len(Disks(p))
    PROVE  DiskFile(p, i) \in Data /\ DiskFile(p, i) # NoPath
<1>1. Disks(p)[i] \in DiskSpec /\ i \in 1 .. MaxDisks
  BY DisksType, VboxAssumption
<1>2. Disks(p)[i].path \in Data \cup {NoPath}
  BY <1>1 DEF DiskSpec
<1>3. DiskImg[i] \in Data
  BY <1>1, VboxAssumption
<1> QED
  BY <1>2, <1>3, VboxAssumption DEF DiskFile, Files

(* What the user named are the image and data.                              *)
LEMMA GivenType == TypeOK => Given \subseteq Data \cup {Image}
<1> SUFFICES ASSUME TypeOK, NEW f \in Given PROVE f \in Data \cup {Image}
  OBVIOUS
<1>1. f # NoPath /\ (f = Image \/ \E p \in Proc : \E i \in DOMAIN Disks(p) : f = Disks(p)[i].path)
  BY DEF Given
<1>2. \A p \in Proc : \A i \in DOMAIN Disks(p) : Disks(p)[i].path \in Data \cup {NoPath}
  BY DisksType DEF DiskSpec
<1> QED
  BY <1>1, <1>2

(* Runs that do not overlap: the others are at rest.                        *)
LEMMA OthersRest ==
    ASSUME OneAtATime, ~conf.overlap, NEW p \in Proc, ~Resting(p)
    PROVE  \A r \in Proc : r # p => Resting(r)
  BY DEF OneAtATime

(* A machine starts from nothing.                                           *)
LEMMA InitVInv == Init => VInv
<1> SUFFICES ASSUME Init PROVE VInv
  OBVIOUS
<1> USE VboxAssumption DEF Init
<1>1. TypeOK
  <2>1. exists \subseteq Files
    <3>1. conf \in ScenarioType
      OBVIOUS
    <3>2. \A p \in Proc : \A i \in DOMAIN Disks(p) : Disks(p)[i].path \in Data \cup {NoPath}
      <4> SUFFICES ASSUME NEW p \in Proc, NEW i \in DOMAIN Disks(p)
                   PROVE  Disks(p)[i].path \in Data \cup {NoPath}
        OBVIOUS
      <4>1. Disks(p) \in UNION {[1 .. n -> DiskSpec] : n \in 0 .. MaxDisks}
        BY <3>1 DEF ScenarioType, RunType, Disks
      <4>2. Disks(p)[i] \in DiskSpec
        BY <4>1
      <4> QED
        BY <4>2 DEF DiskSpec
    <3>3. Given \subseteq Files
      BY <3>2 DEF Given, Files
    <3>4. {DiskImg[i] : i \in 1 .. MaxDisks} \subseteq Files
      BY DEF Files
    <3>5. PICK there \in SUBSET {DiskImg[i] : i \in 1 .. MaxDisks} : exists = Given \cup there
      OBVIOUS
    <3> QED
      BY <3>3, <3>4, <3>5
  <2>2. at \in [Proc -> 0 .. MaxDisks]
    OBVIOUS
  <2>3. pc \in [Proc -> Points]
    BY DEF Points
  <2> QED
    BY <2>1, <2>2, <2>3 DEF TypeOK
<1>2. StartedFollows /\ OneAtATime /\ GoneIsEmpty /\ RunningOwned
  BY DEF StartedFollows, OneAtATime, GoneIsEmpty, RunningOwned, Resting, Watching
<1>3. OffWhenCleaned /\ RegisteredOwned /\ DisksFollow
  BY DEF OffWhenCleaned, RegisteredOwned, DisksFollow, Watching, CleaningUp
<1>4. SlotsFollow /\ FilesFollow
  BY DEF SlotsFollow, FilesFollow, Making, Watching
<1> QED
  BY <1>1, <1>2, <1>3, <1>4 DEF VInv

(* The types, disks within bounds included, are kept.                       *)
LEMMA TypeOKStep == VInv /\ [Next]_vars => TypeOK'
<1> SUFFICES ASSUME VInv, [Next]_vars PROVE TypeOK'
  OBVIOUS
<1> USE VboxAssumption DEF VInv, TypeOK, Points, Commands, Slots, run, machine, console,
      Goto, EarlyReturn, MayFail, Cut, Resting, Changeable
<1>1. ASSUME NEW p \in Proc, Begin(p) PROVE TypeOK'
  BY <1>1 DEF Begin
<1>2. ASSUME NEW p \in Proc, Convert(p) PROVE TypeOK'
  BY <1>2 DEF Convert, Files
<1>3. ASSUME NEW p \in Proc, Poweroff(p) PROVE TypeOK'
  BY <1>3 DEF Poweroff
<1>4. ASSUME NEW p \in Proc, Detach(p) PROVE TypeOK'
  BY <1>4 DEF Detach
<1>5. ASSUME NEW p \in Proc, Unregister(p) PROVE TypeOK'
  BY <1>5 DEF Unregister
<1>6. ASSUME NEW p \in Proc, CreateVM(p) PROVE TypeOK'
  BY <1>6 DEF CreateVM
<1>7. ASSUME NEW p \in Proc, Settings(p) PROVE TypeOK'
  BY <1>7 DEF Settings
<1>8. ASSUME NEW p \in Proc, AttachImage(p) PROVE TypeOK'
  BY <1>8 DEF AttachImage, Path, Files
<1>9. ASSUME NEW p \in Proc, AttachDisk(p) PROVE TypeOK'
  <2>1. CASE UNCHANGED <<slot, at>>
    BY <1>9, <2>1 DEF AttachDisk
  <2>2. CASE /\ slot' = [slot EXCEPT ![at[p] + 1] = DiskFile(p, at[p] + 1)]
             /\ at' \in {at, [at EXCEPT ![p] = at[p] + 1]}
    <3>1. at[p] + 1 \in 1 .. Len(Disks(p))
      BY <1>9, DisksType DEF AttachDisk, VInv, DisksFollow
    <3>2. at[p] + 1 \in 1 .. MaxDisks
      BY <3>1, DisksType
    <3>3. DiskFile(p, at[p] + 1) \in Files
      BY <3>1, DiskFileType DEF Files
    <3>4. slot' \in [Slots -> Files \cup {NoPath}] /\ at' \in [Proc -> 0 .. MaxDisks]
      <4>1. slot' \in [Slots -> Files \cup {NoPath}]
        BY <2>2, <3>2, <3>3
      <4>2. at' \in [Proc -> 0 .. MaxDisks]
        BY <2>2, <3>2, DisksType
      <4> QED
        BY <4>1, <4>2
    <3>5. pc' \in [Proc -> Points]
      BY <1>9 DEF AttachDisk
    <3> QED
      BY <1>9, <3>4, <3>5 DEF AttachDisk
  <2> QED
    BY <1>9, <2>1, <2>2 DEF AttachDisk
<1>10. ASSUME NEW p \in Proc, Listen(p) PROVE TypeOK'
  BY <1>10 DEF Listen
<1>11. ASSUME NEW p \in Proc, Start(p) PROVE TypeOK'
  BY <1>11 DEF Start, CanStart, Peer
<1>12. ASSUME NEW p \in Proc, Term(p) PROVE TypeOK'
  BY <1>12 DEF Term
<1>13. ASSUME NEW p \in Proc, Accept(p) PROVE TypeOK'
  BY <1>13 DEF Accept
<1>14. ASSUME NEW p \in Proc, Console(p) PROVE TypeOK'
  BY <1>14 DEF Console
<1>15. ASSUME NEW p \in Proc, CloseListener(p) PROVE TypeOK'
  BY <1>15 DEF CloseListener
<1>16. ASSUME NEW p \in Proc, RemoveVdi(p) PROVE TypeOK'
  BY <1>16 DEF RemoveVdi
<1>17. ASSUME NEW p \in Proc, Hangup(p) PROVE TypeOK'
  BY <1>17 DEF Hangup
<1>18. ASSUME NEW p \in Proc, Kill(p) PROVE TypeOK'
  BY <1>18 DEF Kill
<1>19. CASE GuestStops
  BY <1>19 DEF GuestStops
<1>20. CASE UNCHANGED vars
  BY <1>20 DEF vars
<1> QED
  BY <1>1, <1>2, <1>3, <1>4, <1>5, <1>6, <1>7, <1>8, <1>9, <1>10, <1>11, <1>12,
     <1>13, <1>14, <1>15, <1>16, <1>17, <1>18, <1>19, <1>20 DEF Next, Step, Quiet

(* A run is started once.                                                   *)
LEMMA StartedFollowsStep == VInv /\ [Next]_vars => StartedFollows'
<1> SUFFICES ASSUME VInv, [Next]_vars PROVE StartedFollows'
  OBVIOUS
<1> USE VboxAssumption DEF VInv, TypeOK, StartedFollows, Watching, CleaningUp, run, machine, console,
      Goto, EarlyReturn, MayFail, Cut, Resting, Changeable
<1>1. ASSUME NEW p \in Proc, Begin(p) PROVE StartedFollows'
  BY <1>1 DEF Begin
<1>2. ASSUME NEW p \in Proc, Convert(p) PROVE StartedFollows'
  BY <1>2 DEF Convert
<1>3. ASSUME NEW p \in Proc, Poweroff(p) PROVE StartedFollows'
  BY <1>3 DEF Poweroff
<1>4. ASSUME NEW p \in Proc, Detach(p) PROVE StartedFollows'
  BY <1>4 DEF Detach
<1>5. ASSUME NEW p \in Proc, Unregister(p) PROVE StartedFollows'
  BY <1>5 DEF Unregister
<1>6. ASSUME NEW p \in Proc, CreateVM(p) PROVE StartedFollows'
  BY <1>6 DEF CreateVM
<1>7. ASSUME NEW p \in Proc, Settings(p) PROVE StartedFollows'
  BY <1>7 DEF Settings
<1>8. ASSUME NEW p \in Proc, AttachImage(p) PROVE StartedFollows'
  BY <1>8 DEF AttachImage
<1>9. ASSUME NEW p \in Proc, AttachDisk(p) PROVE StartedFollows'
  BY <1>9 DEF AttachDisk
<1>10. ASSUME NEW p \in Proc, Listen(p) PROVE StartedFollows'
  BY <1>10 DEF Listen
<1>11. ASSUME NEW p \in Proc, Start(p) PROVE StartedFollows'
  BY <1>11 DEF Start
<1>12. ASSUME NEW p \in Proc, Term(p) PROVE StartedFollows'
  BY <1>12 DEF Term
<1>13. ASSUME NEW p \in Proc, Accept(p) PROVE StartedFollows'
  BY <1>13 DEF Accept
<1>14. ASSUME NEW p \in Proc, Console(p) PROVE StartedFollows'
  BY <1>14 DEF Console
<1>15. ASSUME NEW p \in Proc, CloseListener(p) PROVE StartedFollows'
  BY <1>15 DEF CloseListener
<1>16. ASSUME NEW p \in Proc, RemoveVdi(p) PROVE StartedFollows'
  BY <1>16 DEF RemoveVdi
<1>17. ASSUME NEW p \in Proc, Hangup(p) PROVE StartedFollows'
  BY <1>17 DEF Hangup
<1>18. ASSUME NEW p \in Proc, Kill(p) PROVE StartedFollows'
  BY <1>18 DEF Kill
<1>19. CASE GuestStops
  BY <1>19 DEF GuestStops
<1>20. CASE UNCHANGED vars
  BY <1>20 DEF vars
<1> QED
  BY <1>1, <1>2, <1>3, <1>4, <1>5, <1>6, <1>7, <1>8, <1>9, <1>10, <1>11, <1>12,
     <1>13, <1>14, <1>15, <1>16, <1>17, <1>18, <1>19, <1>20 DEF Next, Step, Quiet

(* A run that overlaps no other begins when the others ended.               *)
LEMMA OneAtATimeStep == VInv /\ [Next]_vars => OneAtATime'
<1> SUFFICES ASSUME VInv, [Next]_vars PROVE OneAtATime'
  OBVIOUS
<1> USE VboxAssumption DEF VInv, TypeOK, OneAtATime, run, machine, console,
      Goto, EarlyReturn, MayFail, Cut, Resting, Changeable
<1>1. ASSUME NEW p \in Proc, Begin(p) PROVE OneAtATime'
  BY <1>1 DEF Begin
<1>2. ASSUME NEW p \in Proc, Convert(p) PROVE OneAtATime'
  BY <1>2 DEF Convert
<1>3. ASSUME NEW p \in Proc, Poweroff(p) PROVE OneAtATime'
  BY <1>3 DEF Poweroff
<1>4. ASSUME NEW p \in Proc, Detach(p) PROVE OneAtATime'
  BY <1>4 DEF Detach
<1>5. ASSUME NEW p \in Proc, Unregister(p) PROVE OneAtATime'
  BY <1>5 DEF Unregister
<1>6. ASSUME NEW p \in Proc, CreateVM(p) PROVE OneAtATime'
  BY <1>6 DEF CreateVM
<1>7. ASSUME NEW p \in Proc, Settings(p) PROVE OneAtATime'
  BY <1>7 DEF Settings
<1>8. ASSUME NEW p \in Proc, AttachImage(p) PROVE OneAtATime'
  BY <1>8 DEF AttachImage
<1>9. ASSUME NEW p \in Proc, AttachDisk(p) PROVE OneAtATime'
  BY <1>9 DEF AttachDisk
<1>10. ASSUME NEW p \in Proc, Listen(p) PROVE OneAtATime'
  BY <1>10 DEF Listen
<1>11. ASSUME NEW p \in Proc, Start(p) PROVE OneAtATime'
  BY <1>11 DEF Start
<1>12. ASSUME NEW p \in Proc, Term(p) PROVE OneAtATime'
  BY <1>12 DEF Term
<1>13. ASSUME NEW p \in Proc, Accept(p) PROVE OneAtATime'
  BY <1>13 DEF Accept
<1>14. ASSUME NEW p \in Proc, Console(p) PROVE OneAtATime'
  BY <1>14 DEF Console
<1>15. ASSUME NEW p \in Proc, CloseListener(p) PROVE OneAtATime'
  BY <1>15 DEF CloseListener
<1>16. ASSUME NEW p \in Proc, RemoveVdi(p) PROVE OneAtATime'
  BY <1>16 DEF RemoveVdi
<1>17. ASSUME NEW p \in Proc, Hangup(p) PROVE OneAtATime'
  BY <1>17 DEF Hangup
<1>18. ASSUME NEW p \in Proc, Kill(p) PROVE OneAtATime'
  BY <1>18 DEF Kill
<1>19. CASE GuestStops
  BY <1>19 DEF GuestStops
<1>20. CASE UNCHANGED vars
  BY <1>20 DEF vars
<1> QED
  BY <1>1, <1>2, <1>3, <1>4, <1>5, <1>6, <1>7, <1>8, <1>9, <1>10, <1>11, <1>12,
     <1>13, <1>14, <1>15, <1>16, <1>17, <1>18, <1>19, <1>20 DEF Next, Step, Quiet

(* Only a registered machine gets disks or power.                           *)
LEMMA GoneIsEmptyStep == VInv /\ [Next]_vars => GoneIsEmpty'
<1> SUFFICES ASSUME VInv, [Next]_vars PROVE GoneIsEmpty'
  OBVIOUS
<1> USE VboxAssumption DEF VInv, TypeOK, GoneIsEmpty, run, machine, console,
      Goto, EarlyReturn, MayFail, Cut, Resting, Changeable
<1>1. ASSUME NEW p \in Proc, Begin(p) PROVE GoneIsEmpty'
  BY <1>1 DEF Begin
<1>2. ASSUME NEW p \in Proc, Convert(p) PROVE GoneIsEmpty'
  BY <1>2 DEF Convert
<1>3. ASSUME NEW p \in Proc, Poweroff(p) PROVE GoneIsEmpty'
  BY <1>3 DEF Poweroff
<1>4. ASSUME NEW p \in Proc, Detach(p) PROVE GoneIsEmpty'
  BY <1>4 DEF Detach
<1>5. ASSUME NEW p \in Proc, Unregister(p) PROVE GoneIsEmpty'
  BY <1>5 DEF Unregister
<1>6. ASSUME NEW p \in Proc, CreateVM(p) PROVE GoneIsEmpty'
  BY <1>6 DEF CreateVM
<1>7. ASSUME NEW p \in Proc, Settings(p) PROVE GoneIsEmpty'
  BY <1>7 DEF Settings
<1>8. ASSUME NEW p \in Proc, AttachImage(p) PROVE GoneIsEmpty'
  BY <1>8 DEF AttachImage
<1>9. ASSUME NEW p \in Proc, AttachDisk(p) PROVE GoneIsEmpty'
  BY <1>9 DEF AttachDisk
<1>10. ASSUME NEW p \in Proc, Listen(p) PROVE GoneIsEmpty'
  BY <1>10 DEF Listen
<1>11. ASSUME NEW p \in Proc, Start(p) PROVE GoneIsEmpty'
  BY <1>11 DEF Start, CanStart
<1>12. ASSUME NEW p \in Proc, Term(p) PROVE GoneIsEmpty'
  BY <1>12 DEF Term
<1>13. ASSUME NEW p \in Proc, Accept(p) PROVE GoneIsEmpty'
  BY <1>13 DEF Accept
<1>14. ASSUME NEW p \in Proc, Console(p) PROVE GoneIsEmpty'
  BY <1>14 DEF Console
<1>15. ASSUME NEW p \in Proc, CloseListener(p) PROVE GoneIsEmpty'
  BY <1>15 DEF CloseListener
<1>16. ASSUME NEW p \in Proc, RemoveVdi(p) PROVE GoneIsEmpty'
  BY <1>16 DEF RemoveVdi
<1>17. ASSUME NEW p \in Proc, Hangup(p) PROVE GoneIsEmpty'
  BY <1>17 DEF Hangup
<1>18. ASSUME NEW p \in Proc, Kill(p) PROVE GoneIsEmpty'
  BY <1>18 DEF Kill
<1>19. CASE GuestStops
  BY <1>19 DEF GuestStops
<1>20. CASE UNCHANGED vars
  BY <1>20 DEF vars
<1> QED
  BY <1>1, <1>2, <1>3, <1>4, <1>5, <1>6, <1>7, <1>8, <1>9, <1>10, <1>11, <1>12,
     <1>13, <1>14, <1>15, <1>16, <1>17, <1>18, <1>19, <1>20 DEF Next, Step, Quiet

(* Whoever starts the machine, and knows of it, powers it off.              *)
LEMMA RunningOwnedStep == VInv /\ [Next]_vars => RunningOwned'
<1> SUFFICES ASSUME VInv, [Next]_vars PROVE RunningOwned'
  OBVIOUS
<1> USE VboxAssumption DEF VInv, TypeOK, RunningOwned, StartedFollows, Watching, run, machine, console,
      Goto, EarlyReturn, MayFail, Cut, Resting, Changeable
<1>1. ASSUME NEW p \in Proc, Begin(p) PROVE RunningOwned'
  BY <1>1 DEF Begin
<1>2. ASSUME NEW p \in Proc, Convert(p) PROVE RunningOwned'
  BY <1>2 DEF Convert
<1>3. ASSUME NEW p \in Proc, Poweroff(p) PROVE RunningOwned'
  BY <1>3 DEF Poweroff
<1>4. ASSUME NEW p \in Proc, Detach(p) PROVE RunningOwned'
  BY <1>4 DEF Detach
<1>5. ASSUME NEW p \in Proc, Unregister(p) PROVE RunningOwned'
  BY <1>5 DEF Unregister
<1>6. ASSUME NEW p \in Proc, CreateVM(p) PROVE RunningOwned'
  BY <1>6 DEF CreateVM
<1>7. ASSUME NEW p \in Proc, Settings(p) PROVE RunningOwned'
  BY <1>7 DEF Settings
<1>8. ASSUME NEW p \in Proc, AttachImage(p) PROVE RunningOwned'
  BY <1>8 DEF AttachImage
<1>9. ASSUME NEW p \in Proc, AttachDisk(p) PROVE RunningOwned'
  BY <1>9 DEF AttachDisk
<1>10. ASSUME NEW p \in Proc, Listen(p) PROVE RunningOwned'
  BY <1>10 DEF Listen
<1>11. ASSUME NEW p \in Proc, Start(p) PROVE RunningOwned'
  <2>1. p \notin started /\ pc[p] = "start"
    BY <1>11 DEF Start, CleaningUp
  <2>2. CASE UNCHANGED <<on, starter, started>>
    BY <1>11, <2>1, <2>2 DEF Start
  <2>3. CASE starter' = p
    BY <1>11, <2>1, <2>3 DEF Start
  <2> QED
    BY <1>11, <2>2, <2>3 DEF Start
<1>12. ASSUME NEW p \in Proc, Term(p) PROVE RunningOwned'
  BY <1>12 DEF Term
<1>13. ASSUME NEW p \in Proc, Accept(p) PROVE RunningOwned'
  BY <1>13 DEF Accept
<1>14. ASSUME NEW p \in Proc, Console(p) PROVE RunningOwned'
  BY <1>14 DEF Console
<1>15. ASSUME NEW p \in Proc, CloseListener(p) PROVE RunningOwned'
  BY <1>15 DEF CloseListener
<1>16. ASSUME NEW p \in Proc, RemoveVdi(p) PROVE RunningOwned'
  BY <1>16 DEF RemoveVdi
<1>17. ASSUME NEW p \in Proc, Hangup(p) PROVE RunningOwned'
  BY <1>17 DEF Hangup
<1>18. ASSUME NEW p \in Proc, Kill(p) PROVE RunningOwned'
  BY <1>18 DEF Kill
<1>19. CASE GuestStops
  BY <1>19 DEF GuestStops
<1>20. CASE UNCHANGED vars
  BY <1>20 DEF vars
<1> QED
  BY <1>1, <1>2, <1>3, <1>4, <1>5, <1>6, <1>7, <1>8, <1>9, <1>10, <1>11, <1>12,
     <1>13, <1>14, <1>15, <1>16, <1>17, <1>18, <1>19, <1>20 DEF Next, Step, Quiet

(* Only the run that is not at rest starts the machine.                     *)
LEMMA OffWhenCleanedStep == VInv /\ [Next]_vars => OffWhenCleaned'
<1> SUFFICES ASSUME VInv, [Next]_vars PROVE OffWhenCleaned'
  OBVIOUS
<1> USE VboxAssumption DEF VInv, TypeOK, OffWhenCleaned, OneAtATime, run, machine, console,
      Goto, EarlyReturn, MayFail, Cut, Resting, Changeable
<1>1. ASSUME NEW p \in Proc, Begin(p) PROVE OffWhenCleaned'
  BY <1>1 DEF Begin
<1>2. ASSUME NEW p \in Proc, Convert(p) PROVE OffWhenCleaned'
  BY <1>2 DEF Convert
<1>3. ASSUME NEW p \in Proc, Poweroff(p) PROVE OffWhenCleaned'
  BY <1>3 DEF Poweroff
<1>4. ASSUME NEW p \in Proc, Detach(p) PROVE OffWhenCleaned'
  BY <1>4 DEF Detach
<1>5. ASSUME NEW p \in Proc, Unregister(p) PROVE OffWhenCleaned'
  BY <1>5 DEF Unregister
<1>6. ASSUME NEW p \in Proc, CreateVM(p) PROVE OffWhenCleaned'
  BY <1>6 DEF CreateVM
<1>7. ASSUME NEW p \in Proc, Settings(p) PROVE OffWhenCleaned'
  BY <1>7 DEF Settings
<1>8. ASSUME NEW p \in Proc, AttachImage(p) PROVE OffWhenCleaned'
  BY <1>8 DEF AttachImage
<1>9. ASSUME NEW p \in Proc, AttachDisk(p) PROVE OffWhenCleaned'
  BY <1>9 DEF AttachDisk
<1>10. ASSUME NEW p \in Proc, Listen(p) PROVE OffWhenCleaned'
  BY <1>10 DEF Listen
<1>11. ASSUME NEW p \in Proc, Start(p) PROVE OffWhenCleaned'
  BY <1>11 DEF Start
<1>12. ASSUME NEW p \in Proc, Term(p) PROVE OffWhenCleaned'
  BY <1>12 DEF Term
<1>13. ASSUME NEW p \in Proc, Accept(p) PROVE OffWhenCleaned'
  BY <1>13 DEF Accept
<1>14. ASSUME NEW p \in Proc, Console(p) PROVE OffWhenCleaned'
  BY <1>14 DEF Console
<1>15. ASSUME NEW p \in Proc, CloseListener(p) PROVE OffWhenCleaned'
  BY <1>15 DEF CloseListener
<1>16. ASSUME NEW p \in Proc, RemoveVdi(p) PROVE OffWhenCleaned'
  BY <1>16 DEF RemoveVdi
<1>17. ASSUME NEW p \in Proc, Hangup(p) PROVE OffWhenCleaned'
  BY <1>17 DEF Hangup
<1>18. ASSUME NEW p \in Proc, Kill(p) PROVE OffWhenCleaned'
  BY <1>18 DEF Kill
<1>19. CASE GuestStops
  BY <1>19 DEF GuestStops
<1>20. CASE UNCHANGED vars
  BY <1>20 DEF vars
<1> QED
  BY <1>1, <1>2, <1>3, <1>4, <1>5, <1>6, <1>7, <1>8, <1>9, <1>10, <1>11, <1>12,
     <1>13, <1>14, <1>15, <1>16, <1>17, <1>18, <1>19, <1>20 DEF Next, Step, Quiet

(* A cleanup that finds the machine on leaves it to whoever started it.     *)
LEMMA RegisteredOwnedStep == VInv /\ [Next]_vars => RegisteredOwned'
<1> SUFFICES ASSUME VInv, [Next]_vars PROVE RegisteredOwned'
  OBVIOUS
<1> USE VboxAssumption DEF VInv, TypeOK, RegisteredOwned, StartedFollows, Watching, CleaningUp, run, machine, console,
      Goto, EarlyReturn, MayFail, Cut, Resting, Changeable
<1>1. ASSUME NEW p \in Proc, Begin(p) PROVE RegisteredOwned'
  BY <1>1 DEF Begin
<1>2. ASSUME NEW p \in Proc, Convert(p) PROVE RegisteredOwned'
  BY <1>2 DEF Convert
<1>3. ASSUME NEW p \in Proc, Poweroff(p) PROVE RegisteredOwned'
  BY <1>3 DEF Poweroff
<1>4. ASSUME NEW p \in Proc, Detach(p) PROVE RegisteredOwned'
  BY <1>4 DEF Detach
<1>5. ASSUME NEW p \in Proc, Unregister(p) PROVE RegisteredOwned'
  <2>1. UNCHANGED <<conf, started, killed>> /\ \A q \in started : q # p => pc'[q] = pc[q]
    BY <1>5 DEF Unregister
  <2>2. CASE by' = Nobody
    BY <2>1, <2>2
  <2>3. CASE MayFail("poweroff") \/ MayFail("unregister")
    BY <2>1, <2>3
  <2>4. CASE /\ by' = by /\ by # Nobody
             /\ ~MayFail("poweroff") /\ ~MayFail("unregister")
    <3>1. on /\ pc[p] = "unregister"
      BY <1>5, <2>4 DEF Unregister
    <3>2. CASE conf.overlap /\ killed = {}
      <4>1. CASE Cut("start")
        BY <2>1, <3>2, <4>1
      <4>2. CASE ~Cut("start")
        <5>1. starter \in started /\ pc[starter] \in Watching \cup {"poweroff"}
          BY <2>4, <3>1, <3>2, <4>2 DEF RunningOwned
        <5> QED
          BY <2>1, <2>4, <3>1, <3>2, <5>1
      <4> QED
        BY <4>1, <4>2
    <3>3. CASE conf.overlap /\ killed # {}
      BY <2>1, <3>3
    <3>4. CASE ~conf.overlap
      <4>1. by # p
        BY <2>4, <3>1, <3>4 DEF OffWhenCleaned
      <4> QED
        BY <2>1, <2>4, <3>1, <3>4, <4>1
    <3> QED
      BY <3>2, <3>3, <3>4
  <2> QED
    BY <1>5, <2>2, <2>3, <2>4 DEF Unregister
<1>6. ASSUME NEW p \in Proc, CreateVM(p) PROVE RegisteredOwned'
  BY <1>6 DEF CreateVM
<1>7. ASSUME NEW p \in Proc, Settings(p) PROVE RegisteredOwned'
  BY <1>7 DEF Settings
<1>8. ASSUME NEW p \in Proc, AttachImage(p) PROVE RegisteredOwned'
  BY <1>8 DEF AttachImage
<1>9. ASSUME NEW p \in Proc, AttachDisk(p) PROVE RegisteredOwned'
  BY <1>9 DEF AttachDisk
<1>10. ASSUME NEW p \in Proc, Listen(p) PROVE RegisteredOwned'
  BY <1>10 DEF Listen
<1>11. ASSUME NEW p \in Proc, Start(p) PROVE RegisteredOwned'
  BY <1>11 DEF Start
<1>12. ASSUME NEW p \in Proc, Term(p) PROVE RegisteredOwned'
  BY <1>12 DEF Term
<1>13. ASSUME NEW p \in Proc, Accept(p) PROVE RegisteredOwned'
  BY <1>13 DEF Accept
<1>14. ASSUME NEW p \in Proc, Console(p) PROVE RegisteredOwned'
  BY <1>14 DEF Console
<1>15. ASSUME NEW p \in Proc, CloseListener(p) PROVE RegisteredOwned'
  BY <1>15 DEF CloseListener
<1>16. ASSUME NEW p \in Proc, RemoveVdi(p) PROVE RegisteredOwned'
  BY <1>16 DEF RemoveVdi
<1>17. ASSUME NEW p \in Proc, Hangup(p) PROVE RegisteredOwned'
  BY <1>17 DEF Hangup
<1>18. ASSUME NEW p \in Proc, Kill(p) PROVE RegisteredOwned'
  BY <1>18 DEF Kill
<1>19. CASE GuestStops
  BY <1>19 DEF GuestStops
<1>20. CASE UNCHANGED vars
  BY <1>20 DEF vars
<1> QED
  BY <1>1, <1>2, <1>3, <1>4, <1>5, <1>6, <1>7, <1>8, <1>9, <1>10, <1>11, <1>12,
     <1>13, <1>14, <1>15, <1>16, <1>17, <1>18, <1>19, <1>20 DEF Next, Step, Quiet

(* The loop attaches each disk once.                                        *)
LEMMA DisksFollowStep == VInv /\ [Next]_vars => DisksFollow'
<1> SUFFICES ASSUME VInv, [Next]_vars PROVE DisksFollow'
  OBVIOUS
<1> USE VboxAssumption DEF VInv, TypeOK, DisksFollow, StartedFollows, Disks, Watching, CleaningUp, run, machine, console,
      Goto, EarlyReturn, MayFail, Cut, Resting, Changeable
<1>1. ASSUME NEW p \in Proc, Begin(p) PROVE DisksFollow'
  BY <1>1 DEF Begin
<1>2. ASSUME NEW p \in Proc, Convert(p) PROVE DisksFollow'
  BY <1>2 DEF Convert
<1>3. ASSUME NEW p \in Proc, Poweroff(p) PROVE DisksFollow'
  BY <1>3 DEF Poweroff
<1>4. ASSUME NEW p \in Proc, Detach(p) PROVE DisksFollow'
  BY <1>4 DEF Detach
<1>5. ASSUME NEW p \in Proc, Unregister(p) PROVE DisksFollow'
  BY <1>5 DEF Unregister
<1>6. ASSUME NEW p \in Proc, CreateVM(p) PROVE DisksFollow'
  BY <1>6 DEF CreateVM
<1>7. ASSUME NEW p \in Proc, Settings(p) PROVE DisksFollow'
  BY <1>7 DEF Settings
<1>8. ASSUME NEW p \in Proc, AttachImage(p) PROVE DisksFollow'
  <2>1. Len(Disks(p)) \in 0 .. MaxDisks /\ (Disks(p) = <<>> <=> Len(Disks(p)) = 0)
    BY DisksType
  <2>2. at[p] = 0
    BY <1>8 DEF AttachImage
  <2> QED
    BY <1>8, <2>1, <2>2 DEF AttachImage
<1>9. ASSUME NEW p \in Proc, AttachDisk(p) PROVE DisksFollow'
  BY <1>9 DEF AttachDisk
<1>10. ASSUME NEW p \in Proc, Listen(p) PROVE DisksFollow'
  BY <1>10 DEF Listen
<1>11. ASSUME NEW p \in Proc, Start(p) PROVE DisksFollow'
  BY <1>11 DEF Start
<1>12. ASSUME NEW p \in Proc, Term(p) PROVE DisksFollow'
  BY <1>12 DEF Term
<1>13. ASSUME NEW p \in Proc, Accept(p) PROVE DisksFollow'
  BY <1>13 DEF Accept
<1>14. ASSUME NEW p \in Proc, Console(p) PROVE DisksFollow'
  BY <1>14 DEF Console
<1>15. ASSUME NEW p \in Proc, CloseListener(p) PROVE DisksFollow'
  BY <1>15 DEF CloseListener
<1>16. ASSUME NEW p \in Proc, RemoveVdi(p) PROVE DisksFollow'
  BY <1>16 DEF RemoveVdi
<1>17. ASSUME NEW p \in Proc, Hangup(p) PROVE DisksFollow'
  BY <1>17 DEF Hangup
<1>18. ASSUME NEW p \in Proc, Kill(p) PROVE DisksFollow'
  BY <1>18 DEF Kill
<1>19. CASE GuestStops
  BY <1>19 DEF GuestStops
<1>20. CASE UNCHANGED vars
  BY <1>20 DEF vars
<1> QED
  BY <1>1, <1>2, <1>3, <1>4, <1>5, <1>6, <1>7, <1>8, <1>9, <1>10, <1>11, <1>12,
     <1>13, <1>14, <1>15, <1>16, <1>17, <1>18, <1>19, <1>20 DEF Next, Step, Quiet

(* A run alone finds the machine as it left it.                             *)
LEMMA SlotsFollowStep == VInv /\ [Next]_vars => SlotsFollow'
<1> SUFFICES ASSUME VInv, [Next]_vars PROVE SlotsFollow'
  OBVIOUS
<1>a. ASSUME NEW p \in Proc, conf' = conf,
             \A r \in Proc : r # p => pc'[r] \notin Making \cup Watching,
             pc'[p] \in Making \cup Watching => by' # Nobody,
             pc'[p] \in {"settings", "attachImage"} => \A s \in Slots : slot'[s] = NoPath,
             pc'[p] \in (Making \ {"settings", "attachImage"}) \cup Watching =>
               \A s \in Slots : slot'[s] = IF s = 0 THEN Path(p)
                                           ELSE IF s <= at'[p] THEN DiskFile(p, s) ELSE NoPath
      PROVE  SlotsFollow'
  <2>1. Path(p)' = Path(p) /\ \A s \in Slots : DiskFile(p, s)' = DiskFile(p, s)
    BY <1>a DEF Path, DiskFile, Disks
  <2>2. \A r \in Proc : r # p => /\ pc'[r] \notin {"settings", "attachImage"}
                               /\ pc'[r] \notin (Making \ {"settings", "attachImage"}) \cup Watching
    BY <1>a DEF Making
  <2> QED
    BY <1>a, <2>1, <2>2 DEF SlotsFollow
<1>b. \A p \in Proc : at[p] \in 0 .. MaxDisks
  BY DEF VInv, TypeOK
<1>c. ASSUME NEW p \in Proc, UNCHANGED <<conf, at, by, slot>>, \A r \in Proc : r # p => pc'[r] = pc[r],
             \/ pc'[p] \notin Making \cup Watching
             \/ {pc[p], pc'[p]} \subseteq (Making \ {"settings", "attachImage"}) \cup Watching
      PROVE  SlotsFollow'
  <2>1. \A r \in Proc : Path(r)' = Path(r) /\ \A s \in Slots : DiskFile(r, s)' = DiskFile(r, s)
    BY <1>c DEF Path, DiskFile, Disks
  <2>2. \A r \in Proc :
          /\ pc'[r] \in Making \cup Watching => pc[r] \in Making \cup Watching
          /\ pc'[r] \in {"settings", "attachImage"} => pc[r] = pc'[r]
          /\ pc'[r] \in (Making \ {"settings", "attachImage"}) \cup Watching =>
               pc[r] \in (Making \ {"settings", "attachImage"}) \cup Watching
    BY <1>c DEF Making, Watching
  <2> QED
    BY <1>c, <2>1, <2>2 DEF VInv, SlotsFollow
<1>d. pc \in [Proc -> Points]
  BY DEF VInv, TypeOK
<1> USE VboxAssumption DEF VInv, TypeOK, SlotsFollow, OneAtATime, Making, Watching, Disks, Path, DiskFile, Slots, run, machine, console,
      Goto, EarlyReturn, MayFail, Cut, Resting, Changeable
<1>1. ASSUME NEW p \in Proc, Begin(p) PROVE SlotsFollow'
  BY <1>1 DEF Begin
<1>2. ASSUME NEW p \in Proc, Convert(p) PROVE SlotsFollow'
  BY <1>2 DEF Convert
<1>3. ASSUME NEW p \in Proc, Poweroff(p) PROVE SlotsFollow'
  BY <1>3 DEF Poweroff
<1>4. ASSUME NEW p \in Proc, Detach(p) PROVE SlotsFollow'
  <2> SUFFICES ASSUME ~conf.overlap PROVE \A r \in Proc : pc'[r] \notin Making \cup Watching
    BY <1>4 DEF Detach
  <2>1. \A r \in Proc : r # p => Resting(r)
    BY <1>4, OthersRest DEF Detach
  <2>2. pc' = [pc EXCEPT ![p] = "unregister"]
    BY <1>4 DEF Detach
  <2> HIDE DEF SlotsFollow
  <2> QED
    BY <2>1, <2>2
<1>5. ASSUME NEW p \in Proc, Unregister(p) PROVE SlotsFollow'
  <2> SUFFICES ASSUME ~conf.overlap PROVE \A r \in Proc : pc'[r] \notin Making \cup Watching
    BY <1>5 DEF Unregister
  <2>1. \A r \in Proc : r # p => Resting(r)
    BY <1>5, OthersRest DEF Unregister
  <2>2. \E s \in {"closeListener", "createvm"} : pc' = [pc EXCEPT ![p] = s]
    BY <1>5 DEF Unregister
  <2> HIDE DEF SlotsFollow
  <2> QED
    BY <2>1, <2>2
<1>6. ASSUME NEW p \in Proc, CreateVM(p) PROVE SlotsFollow'
  <2> SUFFICES ASSUME ~conf.overlap PROVE SlotsFollow'
    BY <1>6 DEF CreateVM
  <2>1. \A r \in Proc : r # p => pc'[r] \notin Making \cup Watching
    BY <1>6, OthersRest DEF CreateVM
  <2>2. CASE pc'[p] = "settings"
    <3>1. by' # Nobody /\ \A s \in Slots : slot'[s] = NoPath
      BY <1>6, <2>2 DEF CreateVM, GoneIsEmpty
    <3> QED
      BY <2>1, <2>2, <3>1
  <2>3. CASE pc'[p] = "removeVdi"
    <3>1. conf' = conf
      BY <1>6 DEF CreateVM
    <3>2. "removeVdi" \notin Making \cup Watching
      OBVIOUS
    <3> HIDE DEF VInv, TypeOK, SlotsFollow, Making, Watching, Path, DiskFile, Slots
    <3> QED
      BY <1>a, <2>1, <2>3, <3>1, <3>2
  <2>4. pc'[p] \in {"settings", "removeVdi"}
    BY <1>6 DEF CreateVM
  <2> QED
    BY <2>2, <2>3, <2>4
<1>7. ASSUME NEW p \in Proc, Settings(p) PROVE SlotsFollow'
  BY <1>7 DEF Settings
<1>8. ASSUME NEW p \in Proc, AttachImage(p) PROVE SlotsFollow'
  <2> SUFFICES ASSUME ~conf.overlap PROVE SlotsFollow'
    BY <1>8 DEF AttachImage
  <2>1. \A r \in Proc : r # p => pc'[r] \notin Making \cup Watching
    BY <1>8, OthersRest DEF AttachImage
  <2>2. CASE pc'[p] \in {"networks", "attach"}
    <3>1. at'[p] = 0 /\ by' # Nobody
      BY <1>8, <2>2 DEF AttachImage, DisksFollow, StartedFollows, CleaningUp
    <3>2. \A s \in Slots : slot'[s] = IF s = 0 THEN Path(p) ELSE NoPath
      BY <1>8, <2>2 DEF AttachImage
    <3>3. conf' = conf /\ \A s \in Slots : s # 0 => ~(s <= 0)
      BY <1>8 DEF AttachImage
    <3> HIDE DEF VInv, TypeOK, SlotsFollow, Making, Watching, Path, DiskFile, Slots
    <3> QED
      BY <1>a, <2>1, <2>2, <3>1, <3>2, <3>3
  <2>3. CASE pc'[p] = "removeVdi"
    BY <2>1, <2>3
  <2> QED
    BY <1>8, <2>2, <2>3 DEF AttachImage
<1>9. ASSUME NEW p \in Proc, AttachDisk(p) PROVE SlotsFollow'
  <2> SUFFICES ASSUME ~conf.overlap PROVE SlotsFollow'
    BY <1>9 DEF AttachDisk
  <2>1. \A r \in Proc : r # p => pc'[r] \notin Making \cup Watching
    BY <1>9, OthersRest DEF AttachDisk
  <2>2. CASE pc'[p] \in {"networks", "attach"}
    <3>1. at'[p] = at[p] + 1 /\ by' # Nobody /\ conf' = conf
      BY <1>9, <2>2 DEF AttachDisk
    <3>2. slot' = [slot EXCEPT ![at[p] + 1] = DiskFile(p, at[p] + 1)]
      BY <1>9, <2>2 DEF AttachDisk
    <3>3. at[p] \in 0 .. MaxDisks /\ at[p] + 1 # 0
      <4> HIDE DEF VInv, TypeOK, SlotsFollow
      <4> QED
        BY <1>b, VboxAssumption
    <3>4. \A s \in Slots : slot[s] = IF s = 0 THEN Path(p)
                                      ELSE IF s <= at[p] THEN DiskFile(p, s) ELSE NoPath
      BY <1>9 DEF AttachDisk
    <3>5. \A s \in Slots : slot'[s] = IF s = 0 THEN Path(p)
                                       ELSE IF s <= at[p] + 1 THEN DiskFile(p, s) ELSE NoPath
      <4> TAKE s \in Slots
      <4>1. CASE s = at[p] + 1
        BY <3>2, <3>3, <4>1
      <4>2. CASE s # at[p] + 1
        <5>1. slot'[s] = slot[s] /\ (s <= at[p] + 1 <=> s <= at[p])
          BY <3>2, <3>3, <4>2
        <5> QED
          BY <3>4, <5>1
      <4> QED
        BY <4>1, <4>2
    <3> HIDE DEF VInv, TypeOK, SlotsFollow, Making, Watching, Path, DiskFile, Slots
    <3> QED
      BY <1>a, <2>1, <2>2, <3>1, <3>5
  <2>3. CASE pc'[p] = "removeVdi"
    <3>1. conf' = conf
      BY <1>9 DEF AttachDisk
    <3>2. "removeVdi" \notin Making \cup Watching
      OBVIOUS
    <3> HIDE DEF VInv, TypeOK, SlotsFollow, Making, Watching, Path, DiskFile, Slots
    <3> QED
      BY <1>a, <2>1, <2>3, <3>1, <3>2
  <2>4. pc'[p] \in {"networks", "attach", "removeVdi"}
    BY <1>9 DEF AttachDisk
  <2> QED
    BY <2>2, <2>3, <2>4
<1>10. ASSUME NEW p \in Proc, Listen(p) PROVE SlotsFollow'
  <2>1. /\ UNCHANGED <<conf, at, by, slot>>
        /\ \E s \in {"start", "removeVdi"} : pc' = [pc EXCEPT ![p] = s]
    BY <1>10 DEF Listen
  <2>2. pc[p] = "listen"
    BY <1>10 DEF Listen
  <2> HIDE DEF VInv, TypeOK, SlotsFollow, OneAtATime
  <2> QED
    BY <1>c, <1>d, <2>1, <2>2
<1>11. ASSUME NEW p \in Proc, Start(p) PROVE SlotsFollow'
  <2>1. /\ UNCHANGED <<conf, at, by, slot>>
        /\ \E s \in {"term", "closeListener"} : pc' = [pc EXCEPT ![p] = s]
    BY <1>11 DEF Start
  <2>2. pc[p] = "start"
    BY <1>11 DEF Start
  <2> HIDE DEF VInv, TypeOK, SlotsFollow, OneAtATime
  <2> QED
    BY <1>c, <1>d, <2>1, <2>2
<1>12. ASSUME NEW p \in Proc, Term(p) PROVE SlotsFollow'
  <2>1. /\ UNCHANGED <<conf, at, by, slot>>
        /\ \E s \in {"accept", "poweroff"} : pc' = [pc EXCEPT ![p] = s]
    BY <1>12 DEF Term
  <2>2. pc[p] = "term"
    BY <1>12 DEF Term
  <2> HIDE DEF VInv, TypeOK, SlotsFollow, OneAtATime
  <2> QED
    BY <1>c, <1>d, <2>1, <2>2
<1>13. ASSUME NEW p \in Proc, Accept(p) PROVE SlotsFollow'
  <2>1. /\ UNCHANGED <<conf, at, by, slot>>
        /\ \E s \in {"console", "poweroff"} : pc' = [pc EXCEPT ![p] = s]
    BY <1>13 DEF Accept
  <2>2. pc[p] = "accept"
    BY <1>13 DEF Accept
  <2> HIDE DEF VInv, TypeOK, SlotsFollow, OneAtATime
  <2> QED
    BY <1>c, <1>d, <2>1, <2>2
<1>14. ASSUME NEW p \in Proc, Console(p) PROVE SlotsFollow'
  <2>1. /\ UNCHANGED <<conf, at, by, slot>>
        /\ \E s \in {"poweroff"} : pc' = [pc EXCEPT ![p] = s]
    BY <1>14 DEF Console
  <2>2. pc[p] = "console"
    BY <1>14 DEF Console
  <2> HIDE DEF VInv, TypeOK, SlotsFollow, OneAtATime
  <2> QED
    BY <1>c, <1>d, <2>1, <2>2
<1>15. ASSUME NEW p \in Proc, CloseListener(p) PROVE SlotsFollow'
  <2>1. /\ UNCHANGED <<conf, at, by, slot>>
        /\ \E s \in {"removeVdi"} : pc' = [pc EXCEPT ![p] = s]
    BY <1>15 DEF CloseListener
  <2>2. pc[p] = "closeListener"
    BY <1>15 DEF CloseListener
  <2> HIDE DEF VInv, TypeOK, SlotsFollow, OneAtATime
  <2> QED
    BY <1>c, <1>d, <2>1, <2>2
<1>16. ASSUME NEW p \in Proc, RemoveVdi(p) PROVE SlotsFollow'
  <2>1. /\ UNCHANGED <<conf, at, by, slot>>
        /\ \E s \in {"ended"} : pc' = [pc EXCEPT ![p] = s]
    BY <1>16 DEF RemoveVdi
  <2>2. pc[p] = "removeVdi"
    BY <1>16 DEF RemoveVdi
  <2> HIDE DEF VInv, TypeOK, SlotsFollow, OneAtATime
  <2> QED
    BY <1>c, <1>d, <2>1, <2>2
<1>17. ASSUME NEW p \in Proc, Hangup(p) PROVE SlotsFollow'
  <2>1. /\ UNCHANGED <<conf, at, by, slot>>
        /\ \E s \in {"poweroff"} : pc' = [pc EXCEPT ![p] = s]
    BY <1>17 DEF Hangup
  <2>2. pc[p] = "console"
    BY <1>17 DEF Hangup
  <2> HIDE DEF VInv, TypeOK, SlotsFollow, OneAtATime
  <2> QED
    BY <1>c, <1>d, <2>1, <2>2
<1>18. ASSUME NEW p \in Proc, Kill(p) PROVE SlotsFollow'
  <2>1. /\ UNCHANGED <<conf, at, by, slot>>
        /\ \E s \in {"ended"} : pc' = [pc EXCEPT ![p] = s]
    BY <1>18 DEF Kill
  <2> HIDE DEF VInv, TypeOK, SlotsFollow, OneAtATime
  <2> QED
    BY <1>c, <1>d, <2>1
<1>19. CASE GuestStops
  BY <1>19 DEF GuestStops
<1>20. CASE UNCHANGED vars
  BY <1>20 DEF vars
<1> QED
  BY <1>1, <1>2, <1>3, <1>4, <1>5, <1>6, <1>7, <1>8, <1>9, <1>10, <1>11, <1>12,
     <1>13, <1>14, <1>15, <1>16, <1>17, <1>18, <1>19, <1>20 DEF Next, Step, Quiet

(* The cleanup leaves nothing attached to what it deletes.                  *)
LEMMA FilesFollowStep == VInv /\ [Next]_vars => FilesFollow'
<1> SUFFICES ASSUME VInv, [Next]_vars PROVE FilesFollow'
  OBVIOUS
<1> DEFINE AllSame == /\ ~conf.overlap /\ ~MayFail("poweroff") /\ ~MayFail("detach")
                      /\ \A p, q \in Proc : Len(Disks(p)) = Len(Disks(q))
<1>a. conf' = conf
  BY DEF Next, Step, vars, Quiet, Begin, Convert, Poweroff, Detach, Unregister, CreateVM, Settings, AttachImage, AttachDisk,
      Listen, Start, Term, Accept, Console, CloseListener, RemoveVdi, Hangup, Kill, GuestStops
<1>b. /\ Given' = Given /\ Vdi \notin Given /\ AllSame' = AllSame
      /\ \A p \in Proc : Len(Disks(p))' = Len(Disks(p))
  BY <1>a, GivenType, VboxAssumption DEF Given, Disks, MayFail, VInv
<1> USE VboxAssumption DEF VInv, TypeOK, FilesFollow, Slots, run, machine, console,
      Goto, EarlyReturn, MayFail, Cut, Resting, Changeable
<1>1. ASSUME NEW p \in Proc, Begin(p) PROVE FilesFollow'
  BY <1>1, <1>b DEF Begin
<1>2. ASSUME NEW p \in Proc, Convert(p) PROVE FilesFollow'
  BY <1>2, <1>b DEF Convert
<1>3. ASSUME NEW p \in Proc, Poweroff(p) PROVE FilesFollow'
  BY <1>3, <1>b DEF Poweroff
<1>4. ASSUME NEW p \in Proc, Detach(p) PROVE FilesFollow'
  <2> SUFFICES ASSUME AllSame PROVE FilesFollow'
    BY <1>4, <1>b DEF Detach
  <2>1. Given \in SUBSET exists /\ exists' = exists
    BY <1>4, <1>b DEF Detach
  <2>2. \A s \in Slots : slot[s] # NoPath => s \in Named(p)
    BY DisksType DEF Named
  <2>3. \A s \in Slots : slot'[s] = NoPath
    <3>1. CASE by = Nobody
      BY <1>4, <3>1 DEF Detach, GoneIsEmpty
    <3>2. CASE by # Nobody
      <4>1. Undetached(p) = {{}}
        BY <1>4, <3>2 DEF Detach, Undetached, OffWhenCleaned
      <4> QED
        BY <1>4, <2>2, <4>1 DEF Detach
    <3> QED
      BY <3>1, <3>2
  <2> QED
    BY <1>b, <2>1, <2>3
<1>5. ASSUME NEW p \in Proc, Unregister(p) PROVE FilesFollow'
  <2> SUFFICES ASSUME AllSame PROVE FilesFollow'
    BY <1>5, <1>b DEF Unregister
  <2>1. Attached = {}
    BY <1>5 DEF Unregister, Attached
  <2>2. exists' = exists /\ \A s \in Slots : slot'[s] # NoPath => slot[s] # NoPath
    BY <1>5, <2>1 DEF Unregister
  <2>3. \A r \in Proc : pc'[r] = "unregister" => pc[r] = "unregister"
    BY <1>5, <1>b DEF Unregister
  <2> QED
    BY <1>b, <2>2, <2>3
<1>6. ASSUME NEW p \in Proc, CreateVM(p) PROVE FilesFollow'
  BY <1>6, <1>b DEF CreateVM
<1>7. ASSUME NEW p \in Proc, Settings(p) PROVE FilesFollow'
  BY <1>7, <1>b DEF Settings
<1>8. ASSUME NEW p \in Proc, AttachImage(p) PROVE FilesFollow'
  <2> SUFFICES ASSUME AllSame PROVE FilesFollow'
    BY <1>8, <1>b DEF AttachImage
  <2>1. \A s \in Slots : s # 0 => slot'[s] = slot[s]
    BY <1>8, <1>b DEF AttachImage
  <2>2. \A r \in Proc : 0 <= Len(Disks(r))
    BY DisksType
  <2>3. \A r \in Proc : pc'[r] # "unregister"
    <3>1. \A r \in Proc : r # p => Resting(r)
      BY <1>8, OthersRest DEF AttachImage
    <3>2. \E s \in {"networks", "attach", "removeVdi"} : pc' = [pc EXCEPT ![p] = s]
      BY <1>8 DEF AttachImage
    <3> HIDE DEF FilesFollow
    <3> QED
      BY <3>1, <3>2
  <2>4. exists' = exists /\ Given \subseteq exists
    BY <1>8 DEF AttachImage
  <2>5. \A r \in Proc : \A s \in Slots : slot'[s] # NoPath => s <= Len(Disks(r))
    BY <2>1, <2>2
  <2> QED
    BY <1>b, <2>3, <2>4, <2>5
<1>9. ASSUME NEW p \in Proc, AttachDisk(p) PROVE FilesFollow'
  <2> SUFFICES ASSUME AllSame PROVE FilesFollow'
    BY <1>9, <1>b DEF AttachDisk
  <2>1. at[p] + 1 \in 1 .. Len(Disks(p)) /\ exists' = exists
    <3>1. pc[p] = "attach" /\ exists' = exists
      BY <1>9 DEF AttachDisk
    <3>2. at[p] \in 0 .. MaxDisks /\ at[p] < Len(Disks(p))
      BY <3>1 DEF DisksFollow
    <3>3. Len(Disks(p)) \in 0 .. MaxDisks
      BY DisksType
    <3> HIDE DEF VInv, TypeOK, FilesFollow
    <3> QED
      BY <3>1, <3>2, <3>3
  <2>2. \A s \in Slots : s # at[p] + 1 => slot'[s] = slot[s]
    <3>1. slot' = slot \/ slot' = [slot EXCEPT ![at[p] + 1] = DiskFile(p, at[p] + 1)]
      BY <1>9 DEF AttachDisk
    <3>2. slot \in [Slots -> Files \cup {NoPath}]
      OBVIOUS
    <3> HIDE DEF VInv, TypeOK, FilesFollow, Slots
    <3> QED
      BY <3>1, <3>2
  <2>3. \A r \in Proc : pc'[r] # "unregister"
    <3>1. pc'[p] \in {"networks", "attach", "removeVdi"} /\ \A r \in Proc : r # p => pc'[r] = pc[r]
      BY <1>9 DEF AttachDisk
    <3>2. \A r \in Proc : r # p => Resting(r)
      BY <1>9, OthersRest DEF AttachDisk
    <3> HIDE DEF VInv, TypeOK, FilesFollow
    <3> QED
      BY <3>1, <3>2
  <2>4. \A r \in Proc : \A s \in Slots : slot'[s] # NoPath => s <= Len(Disks(r))
    <3>1. \A r \in Proc : \A s \in Slots : slot[s] # NoPath => s <= Len(Disks(r))
      OBVIOUS
    <3>2. \A r \in Proc : at[p] + 1 <= Len(Disks(r))
      BY <2>1
    <3> HIDE DEF VInv, TypeOK, FilesFollow, Slots
    <3> QED
      BY <2>2, <3>1, <3>2
  <2> QED
    BY <1>b, <2>1, <2>3, <2>4
<1>10. ASSUME NEW p \in Proc, Listen(p) PROVE FilesFollow'
  BY <1>10, <1>b DEF Listen
<1>11. ASSUME NEW p \in Proc, Start(p) PROVE FilesFollow'
  BY <1>11, <1>b DEF Start
<1>12. ASSUME NEW p \in Proc, Term(p) PROVE FilesFollow'
  BY <1>12, <1>b DEF Term
<1>13. ASSUME NEW p \in Proc, Accept(p) PROVE FilesFollow'
  BY <1>13, <1>b DEF Accept
<1>14. ASSUME NEW p \in Proc, Console(p) PROVE FilesFollow'
  BY <1>14, <1>b DEF Console
<1>15. ASSUME NEW p \in Proc, CloseListener(p) PROVE FilesFollow'
  BY <1>15, <1>b DEF CloseListener
<1>16. ASSUME NEW p \in Proc, RemoveVdi(p) PROVE FilesFollow'
  BY <1>16, <1>b DEF RemoveVdi
<1>17. ASSUME NEW p \in Proc, Hangup(p) PROVE FilesFollow'
  BY <1>17, <1>b DEF Hangup
<1>18. ASSUME NEW p \in Proc, Kill(p) PROVE FilesFollow'
  BY <1>18, <1>b DEF Kill
<1>19. CASE GuestStops
  BY <1>19, <1>b DEF GuestStops
<1>20. CASE UNCHANGED vars
  BY <1>20, <1>b DEF vars
<1> QED
  BY <1>1, <1>2, <1>3, <1>4, <1>5, <1>6, <1>7, <1>8, <1>9, <1>10, <1>11, <1>12,
     <1>13, <1>14, <1>15, <1>16, <1>17, <1>18, <1>19, <1>20 DEF Next, Step, Quiet

------------------------------------------------------------------------------
(* The invariant holds initially and every step keeps it, for any runs with *)
(* any disks, whatever fails.                                               *)
THEOREM VboxInvariant == Spec => []VInv
<1>1. VInv /\ [Next]_vars => VInv'
  BY TypeOKStep, StartedFollowsStep, OneAtATimeStep, GoneIsEmptyStep, RunningOwnedStep,
     OffWhenCleanedStep, RegisteredOwnedStep, DisksFollowStep, SlotsFollowStep,
     FilesFollowStep DEF VInv
<1> QED
  BY InitVInv, <1>1, PTL DEF Spec

(* Runs that follow one another keep the files the user named, though the   *)
(* cleanup of each deletes what is attached to the machine.                 *)
THEOREM FilesAreKept == Spec => []GivenFilesKept
<1>1. VInv => GivenFilesKept
  BY DEF VInv, FilesFollow, GivenFilesKept
<1> QED
  BY VboxInvariant, <1>1, PTL

(* The machine a run watches has its image and disks and no other.          *)
THEOREM BootsItsOwn == Spec => []BootsWhatWasAsked
<1>1. VInv => BootsWhatWasAsked
  <2> SUFFICES ASSUME VInv, NEW p \in Proc, ~conf.overlap, pc[p] \in Watching
               PROVE  slot = [s \in Slots |-> IF s = 0 THEN Path(p)
                                              ELSE IF s \in DOMAIN Disks(p) THEN DiskFile(p, s)
                                              ELSE NoPath]
    BY DEF BootsWhatWasAsked, Watching, VInv, TypeOK
  <2>1. slot \in [Slots -> Files \cup {NoPath}] /\ TypeOK
    BY DEF VInv, TypeOK
  <2>2. at[p] = Len(Disks(p)) /\ DOMAIN Disks(p) = 1 .. Len(Disks(p)) /\ Len(Disks(p)) \in Nat
    BY <2>1, DisksType, VboxAssumption DEF VInv, DisksFollow
  <2>3. \A s \in Slots : slot[s] = IF s = 0 THEN Path(p)
                                   ELSE IF s <= at[p] THEN DiskFile(p, s) ELSE NoPath
    BY DEF VInv, SlotsFollow
  <2>4. \A s \in Slots : s # 0 => (s <= at[p] <=> s \in DOMAIN Disks(p))
    BY <2>2, VboxAssumption DEF Slots
  <2> QED
    BY <2>1, <2>3, <2>4
<1> QED
  BY VboxInvariant, <1>1, PTL

(* No machine runs once every run is over by itself, overlapping or not,    *)
(* but one whose startvm was interrupted.                                   *)
THEOREM NoneRunsOn == Spec => []NoneLeftRunning
<1>1. VInv => NoneLeftRunning
  BY DEF VInv, TypeOK, RunningOwned, NoneLeftRunning, AllRest, Resting, Watching
<1> QED
  BY VboxInvariant, <1>1, PTL

(* A machine that stays is of a run that was killed or never started it.    *)
THEOREM MachineIsCollected == Spec => []MachineCollected
<1>1. VInv => MachineCollected
  BY DEF VInv, TypeOK, RegisteredOwned, MachineCollected, AllRest, Resting, Watching, CleaningUp
<1> QED
  BY VboxInvariant, <1>1, PTL

------------------------------------------------------------------------------
(* The steps of a run before its disks are attached, with the first cleanup *)
(* among them, ...                                                          *)
Before(step) ==
    CASE step = "idle" -> 8
      [] step = "convert" -> 7
      [] step = "poweroff" -> 6
      [] step = "detach" -> 5
      [] step = "unregister" -> 4
      [] step = "createvm" -> 3
      [] step = "settings" -> 2
      [] step = "attachImage" -> 1
      [] OTHER -> 0

(* ... and those after, with the deferred cleanup among them.               *)
After(step) ==
    CASE step = "networks" -> 11
      [] step = "listen" -> 10
      [] step = "start" -> 9
      [] step = "term" -> 8
      [] step = "accept" -> 7
      [] step = "console" -> 6
      [] step = "poweroff" -> 5
      [] step = "detach" -> 4
      [] step = "unregister" -> 3
      [] step = "closeListener" -> 2
      [] step = "removeVdi" -> 1
      [] OTHER -> 0

(* What is left to do for p.                                                *)
Left(p) ==
    CASE /\ pc[p] \in {"idle", "convert", "createvm", "settings", "attachImage"} \cup CleaningUp
         /\ p \notin started -> Before(pc[p]) + MaxDisks + 11
      [] pc[p] = "attach" -> (MaxDisks - at[p]) + 11
      [] OTHER -> After(pc[p])

(* p does something, or is killed.                                          *)
Goes(p) == Begin(p) \/ Step(p) \/ Hangup(p) \/ Kill(p)

(* That leaves p less to do; nothing else leaves it more.                   *)
GoesOn(p) ==
    IF Goes(p) THEN Left(p) \in 1 .. (MaxDisks + 19) /\ Left(p)' < Left(p) ELSE Left(p)' = Left(p)

(* How many steps there are before the disks.                               *)
LEMMA BeforeIs ==
    /\ Before("idle") = 8
    /\ Before("convert") = 7
    /\ Before("poweroff") = 6
    /\ Before("detach") = 5
    /\ Before("unregister") = 4
    /\ Before("createvm") = 3
    /\ Before("settings") = 2
    /\ Before("attachImage") = 1
  BY DEF Before

(* How many there are after them.                                           *)
LEMMA AfterIs ==
    /\ After("networks") = 11
    /\ After("listen") = 10
    /\ After("start") = 9
    /\ After("term") = 8
    /\ After("accept") = 7
    /\ After("console") = 6
    /\ After("poweroff") = 5
    /\ After("detach") = 4
    /\ After("unregister") = 3
    /\ After("closeListener") = 2
    /\ After("removeVdi") = 1
    /\ After("ended") = 0
  BY DEF After

(* A run is over after at most MaxDisks + 19 of its own steps, whatever     *)
(* fails and however many runs share the machine: a run that does not end   *)
(* waits for its machine (EndsWithMachine).                                 *)
THEOREM RunsGoOn == Spec => [][\A p \in Proc : GoesOn(p)]_vars
<1>1. ASSUME VInv, NEW p \in Proc, Goes(p)
      PROVE  Left(p) \in 1 .. (MaxDisks + 19) /\ Left(p)' < Left(p)
  <2>1. /\ pc \in [Proc -> Points]
        /\ at[p] \in 0 .. MaxDisks /\ at \in [Proc -> 0 .. MaxDisks]
        /\ pc[p] = "attach" => at[p] < Len(Disks(p)) /\ Len(Disks(p)) \in 0 .. MaxDisks
        /\ pc[p] = "attachImage" => at[p] = 0
    BY <1>1, DisksType DEF VInv, TypeOK, DisksFollow, StartedFollows, Watching, CleaningUp
  <2>2. /\ pc[p] \in {"idle", "convert", "createvm", "settings", "attachImage", "attach",
                       "networks", "listen", "start"} => p \notin started
        /\ pc[p] \in Watching => p \in started
    BY <1>1 DEF VInv, StartedFollows, Watching, CleaningUp
  <2> USE VboxAssumption, BeforeIs, AfterIs, <2>1, <2>2 DEF Left, Watching, CleaningUp, Goto, EarlyReturn
  <2>3. CASE Begin(p)
    <3>1. /\ pc[p] = "idle" /\ started' = started /\ at' = at
          /\ pc'[p] \in {"convert", "poweroff", "ended"}
      BY <2>3, <2>1 DEF Begin, run
    <3>2. Left(p) = MaxDisks + 19
      BY <3>1, <2>1
    <3>3. pc'[p] = "convert" => Left(p)' = MaxDisks + 18
      BY <3>1
    <3>4. pc'[p] = "poweroff" => Left(p)' = MaxDisks + 17
      BY <3>1
    <3>5. pc'[p] = "ended" => Left(p)' = 0
      BY <3>1
    <3> HIDE DEF Left
    <3> QED
      BY <3>1, <3>2, <3>3, <3>4, <3>5, <2>1
  <2>4. CASE Convert(p)
    <3>1. /\ pc[p] = "convert" /\ started' = started /\ at' = at
          /\ \E s \in {"poweroff", "removeVdi"} : pc' = [pc EXCEPT ![p] = s]
      BY <2>4 DEF Convert, run
    <3> QED
      BY <2>1, <3>1
  <2>5. CASE Poweroff(p)
    <3>1. /\ pc[p] = "poweroff" /\ started' = started /\ at' = at
          /\ pc'[p] = "detach"
      BY <2>5, <2>1 DEF Poweroff, run
    <3>2. Left(p) = IF p \in started THEN 5 ELSE MaxDisks + 17
      BY <3>1, <2>1
    <3>3. Left(p)' = IF p \in started THEN 4 ELSE MaxDisks + 16
      BY <3>1
    <3> HIDE DEF Left
    <3> QED
      BY <3>2, <3>3, <2>1
  <2>6. CASE Detach(p)
    <3>1. /\ pc[p] = "detach" /\ started' = started /\ at' = at
          /\ pc'[p] \in {"unregister"}
      BY <2>6, <2>1 DEF Detach, run
    <3>2. Left(p) = IF p \in started THEN 4 ELSE MaxDisks + 16
      BY <3>1, <2>1
    <3>3. pc'[p] = "unregister" => Left(p)' = IF p \in started THEN 3 ELSE MaxDisks + 15
      BY <3>1
    <3> HIDE DEF Left
    <3> QED
      BY <3>1, <3>2, <3>3, <2>1
  <2>7. CASE Unregister(p)
    <3>1. /\ pc[p] = "unregister" /\ started' = started /\ at' = at
          /\ pc' = [pc EXCEPT ![p] = IF p \in started THEN "closeListener" ELSE "createvm"]
      BY <2>7 DEF Unregister, run
    <3>2. pc'[p] = IF p \in started THEN "closeListener" ELSE "createvm"
      BY <2>1, <3>1
    <3>3. Left(p) = IF p \in started THEN 3 ELSE MaxDisks + 15
      BY <3>1
    <3>4. Left(p)' = IF p \in started THEN 2 ELSE MaxDisks + 14
      BY <3>1, <3>2
    <3> HIDE DEF Left
    <3> QED
      BY <3>3, <3>4
  <2>8. CASE CreateVM(p)
    <3>1. /\ pc[p] = "createvm" /\ started' = started /\ at' = at
          /\ pc'[p] \in {"settings", "removeVdi"}
      BY <2>8, <2>1 DEF CreateVM, run
    <3>2. Left(p) = MaxDisks + 14
      BY <3>1, <2>1
    <3>3. pc'[p] = "settings" => Left(p)' = MaxDisks + 13
      BY <3>1
    <3>4. pc'[p] = "removeVdi" => Left(p)' = 1
      BY <3>1
    <3> HIDE DEF Left
    <3> QED
      BY <3>1, <3>2, <3>3, <3>4, <2>1
  <2>9. CASE Settings(p)
    <3>1. /\ pc[p] \in {"settings", "networks"} /\ started' = started /\ at' = at
          /\ pc'[p] \in {"removeVdi", IF pc[p] = "settings" THEN "attachImage" ELSE "listen"}
      BY <2>9, <2>1 DEF Settings, run
    <3>2. Left(p) = IF pc[p] = "settings" THEN MaxDisks + 13 ELSE 11
      BY <3>1
    <3>3. pc'[p] = "attachImage" => Left(p)' = MaxDisks + 12
      BY <3>1
    <3>4. pc'[p] \in {"listen", "removeVdi"} => Left(p)' \in 1 .. 10
      BY <3>1
    <3> HIDE DEF Left
    <3> QED
      BY <3>1, <3>2, <3>3, <3>4
  <2>10. CASE AttachImage(p)
    <3>1. /\ pc[p] = "attachImage" /\ started' = started /\ at' = at
          /\ \E s \in {"networks", "attach", "removeVdi"} : pc' = [pc EXCEPT ![p] = s]
      BY <2>10 DEF AttachImage, run
    <3> QED
      BY <2>1, <3>1
  <2>11. CASE AttachDisk(p)
    <3>1. /\ pc[p] = "attach" /\ pc'[p] \in {"attach", "networks", "removeVdi"}
          /\ pc'[p] # "removeVdi" => at'[p] = at[p] + 1
      BY <2>11, <2>1 DEF AttachDisk
    <3>2. Left(p) = (MaxDisks - at[p]) + 11 /\ at[p] < MaxDisks
      BY <3>1
    <3>3. pc'[p] = "attach" => Left(p)' = (MaxDisks - (at[p] + 1)) + 11
      BY <3>1
    <3>4. pc'[p] \in {"networks", "removeVdi"} => Left(p)' \in 1 .. 11
      BY <3>1
    <3> HIDE DEF Left
    <3>5. at[p] \in 0 .. MaxDisks /\ MaxDisks \in Nat
      BY <2>1, VboxAssumption
    <3>6. CASE pc'[p] = "attach"
      BY <3>2, <3>3, <3>5, <3>6
    <3>7. CASE pc'[p] \in {"networks", "removeVdi"}
      BY <3>2, <3>4, <3>5, <3>7
    <3> QED
      BY <3>1, <3>6, <3>7
  <2>12. CASE Listen(p)
    <3>1. /\ pc[p] = "listen" /\ started' = started /\ at' = at
          /\ \E s \in {"start", "removeVdi"} : pc' = [pc EXCEPT ![p] = s]
      BY <2>12 DEF Listen, run
    <3> QED
      BY <2>1, <3>1
  <2>13. CASE Start(p)
    <3>1. pc[p] = "start" /\ \E s \in {"term", "closeListener"} : pc' = [pc EXCEPT ![p] = s]
      BY <2>13 DEF Start
    <3> QED
      BY <2>1, <3>1
  <2>14. CASE Term(p)
    <3>1. /\ pc[p] = "term" /\ started' = started /\ at' = at
          /\ \E s \in {"accept", "poweroff"} : pc' = [pc EXCEPT ![p] = s]
      BY <2>14 DEF Term, run
    <3> QED
      BY <2>1, <3>1
  <2>15. CASE Accept(p)
    <3>1. /\ pc[p] = "accept" /\ started' = started /\ at' = at
          /\ \E s \in {"console", "poweroff"} : pc' = [pc EXCEPT ![p] = s]
      BY <2>15 DEF Accept, run
    <3> QED
      BY <2>1, <3>1
  <2>16. CASE Console(p)
    <3>1. /\ pc[p] = "console" /\ started' = started /\ at' = at
          /\ \E s \in {"poweroff"} : pc' = [pc EXCEPT ![p] = s]
      BY <2>16 DEF Console, run
    <3> QED
      BY <2>1, <3>1
  <2>17. CASE Hangup(p)
    <3>1. /\ pc[p] = "console" /\ started' = started /\ at' = at
          /\ \E s \in {"poweroff"} : pc' = [pc EXCEPT ![p] = s]
      BY <2>17 DEF Hangup, run
    <3> QED
      BY <2>1, <3>1
  <2>18. CASE CloseListener(p)
    <3>1. /\ pc[p] = "closeListener" /\ started' = started /\ at' = at
          /\ \E s \in {"removeVdi"} : pc' = [pc EXCEPT ![p] = s]
      BY <2>18 DEF CloseListener, run
    <3> QED
      BY <2>1, <3>1
  <2>19. CASE RemoveVdi(p)
    <3>1. /\ pc[p] = "removeVdi" /\ started' = started /\ at' = at
          /\ \E s \in {"ended"} : pc' = [pc EXCEPT ![p] = s]
      BY <2>19 DEF RemoveVdi, run
    <3> QED
      BY <2>1, <3>1
  <2>20. CASE Kill(p)
    <3>1. pc[p] \notin {"idle", "ended"} /\ pc' = [pc EXCEPT ![p] = "ended"]
      BY <2>20 DEF Kill, Resting
    <3>2. pc'[p] = "ended" /\ Left(p)' = 0
      BY <2>1, <3>1
    <3>3. pc[p] \in {"convert", "createvm", "settings", "attachImage"} \cup CleaningUp =>
            Before(pc[p]) \in 1 .. 8
      OBVIOUS
    <3>4. pc[p] \in {"networks", "listen", "start", "closeListener", "removeVdi"}
                    \cup Watching \cup CleaningUp => After(pc[p]) \in 1 .. 11
      OBVIOUS
    <3> HIDE BeforeIs, AfterIs DEF Watching, CleaningUp
    <3>5. pc[p] \in {"convert", "createvm", "settings", "attachImage", "attach", "networks",
                     "listen", "start", "closeListener", "removeVdi"} \cup Watching \cup CleaningUp
      BY ONLY <2>1, <3>1 DEF Points, Commands, Watching, CleaningUp
    <3>6. /\ MaxDisks \in Nat /\ at[p] \in 0 .. MaxDisks
          /\ pc[p] = "attach" => p \notin started
      BY <2>1, <2>2, VboxAssumption
    <3>7. CASE /\ pc[p] \in {"convert", "createvm", "settings", "attachImage"} \cup CleaningUp
               /\ p \notin started
      <4>1. Left(p) = Before(pc[p]) + MaxDisks + 11
        BY ONLY <3>7 DEF Left, CleaningUp
      <4>2. Before(pc[p]) \in 1 .. 8
        BY <2>2, <3>1, <3>3, <3>7
      <4> HIDE DEF Left
      <4> QED
        BY ONLY <3>2, <3>6, <4>1, <4>2
    <3>8. CASE pc[p] = "attach"
      <4>1. Left(p) = (MaxDisks - at[p]) + 11
        BY <3>8 DEF CleaningUp
      <4> QED
        BY <3>2, <3>6, <4>1
    <3>9. CASE ~ (/\ pc[p] \in {"convert", "createvm", "settings", "attachImage"} \cup CleaningUp
                  /\ p \notin started) /\ pc[p] # "attach"
      <4>1. pc[p] \notin {"idle", "convert", "createvm", "settings", "attachImage"}
        BY <2>2, <3>1, <3>9
      <4>2. pc[p] \in {"networks", "listen", "start", "closeListener", "removeVdi"}
                       \cup Watching \cup CleaningUp
        BY <3>5, <3>9, <4>1
      <4>3. Left(p) = After(pc[p])
        BY <3>1, <3>9, <4>1
      <4> QED
        BY <3>2, <3>4, <3>6, <4>2, <4>3
    <3> QED
      BY <3>7, <3>8, <3>9
  <2> QED
    BY <1>1, <2>3, <2>4, <2>5, <2>6, <2>7, <2>8, <2>9, <2>10, <2>11, <2>12, <2>13, <2>14, <2>15, <2>16, <2>17, <2>18, <2>19, <2>20 DEF Goes, Step
<1>2. ASSUME VInv, NEW p \in Proc, NEW q \in Proc, Goes(q), q # p
      PROVE  Left(p)' = Left(p)
  <2>1. pc'[p] = pc[p] /\ at'[p] = at[p] /\ (p \in started' <=> p \in started)
    <3> USE DEF VInv, TypeOK, Goto, EarlyReturn, run
    <3>1. CASE Begin(q) \/ Convert(q) \/ Poweroff(q) \/ Detach(q) \/ Unregister(q) \/ CreateVM(q)
      BY <1>2, <3>1 DEF Begin, Convert, Poweroff, Detach, Unregister, CreateVM
    <3>2. CASE Settings(q) \/ AttachImage(q) \/ AttachDisk(q) \/ Listen(q) \/ Start(q)
      BY <1>2, <3>2 DEF Settings, AttachImage, AttachDisk, Listen, Start
    <3>3. CASE Term(q) \/ Accept(q) \/ Console(q) \/ CloseListener(q) \/ RemoveVdi(q) \/ Hangup(q) \/ Kill(q)
      BY <1>2, <3>3 DEF Term, Accept, Console, CloseListener, RemoveVdi, Hangup, Kill
    <3> QED
      BY <1>2, <3>1, <3>2, <3>3 DEF Goes, Step
  <2> QED
    BY <2>1 DEF Left
<1>3. ASSUME NEW p \in Proc, GuestStops \/ Quiet \/ UNCHANGED vars
      PROVE  Left(p)' = Left(p)
  <2>1. UNCHANGED <<pc, at, started>>
    BY <1>3 DEF GuestStops, Quiet, vars, run
  <2> QED
    BY <2>1 DEF Left
<1>4. VInv /\ [Next]_vars => [\A p \in Proc : GoesOn(p)]_vars
  <2> SUFFICES ASSUME VInv, [Next]_vars, NEW p \in Proc PROVE GoesOn(p)
    OBVIOUS
  <2>1. CASE \E q \in Proc : Goes(q)
    BY <1>1, <1>2, <2>1 DEF GoesOn
  <2>2. CASE GuestStops \/ Quiet \/ UNCHANGED vars
    BY <1>1, <1>3, <2>2 DEF GoesOn
  <2> QED
    BY <2>1, <2>2 DEF Next, Goes
<1> QED
  BY VboxInvariant, <1>4, PTL DEF Spec
=============================================================================
