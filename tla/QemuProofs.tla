----------------------------- MODULE QemuProofs -----------------------------
(***************************************************************************)
(* For any runs with any disks: a run that overlaps no other only creates  *)
(* what is not there (CreateFollows), what a guest wrote is in a file that *)
(* is there (WritesFollow), and files have formats that were asked for     *)
(* (FormatsFollow), so that a run with sound flags boots.                  *)
(***************************************************************************)
EXTENDS Qemu, SequenceTheorems, FiniteSetTheorems, TLAPS

(* A sequence of one.                                                       *)
LEMMA Single == ASSUME NEW S, NEW x \in S PROVE <<x>> \in Seq(S)
  OBVIOUS

(* A drive is a file in a format.                                           *)
LEMMA DriveType ==
    ASSUME TypeOK
    PROVE  \A p \in Proc :
             /\ DOMAIN drives[p] = 1 .. Len(drives[p]) /\ Len(drives[p]) \in Nat
             /\ at[p] \in Nat /\ at[p] <= Len(drives[p])
             /\ \A k \in DOMAIN drives[p] : /\ drives[p][k].path \in Files
                                            /\ drives[p][k].format \in Formats \cup {""}
<1> SUFFICES ASSUME NEW p \in Proc
             PROVE  /\ DOMAIN drives[p] = 1 .. Len(drives[p]) /\ Len(drives[p]) \in Nat
                    /\ at[p] \in Nat /\ at[p] <= Len(drives[p])
                    /\ \A k \in DOMAIN drives[p] : /\ drives[p][k].path \in Files
                                                   /\ drives[p][k].format \in Formats \cup {""}
  OBVIOUS
<1>1. drives[p] \in Seq(Drive)
  BY DEF TypeOK
<1>2. \A k \in 1 .. Len(drives[p]) : drives[p][k] \in Drive
  BY <1>1
<1>3. \A d \in Drive : d.path \in Files /\ d.format \in Formats \cup {""}
  BY DEF Drive
<1>4. DOMAIN drives[p] = 1 .. Len(drives[p]) /\ Len(drives[p]) \in Nat
  BY <1>1
<1>5. at[p] \in Nat /\ at[p] <= Len(drives[p])
  BY DEF TypeOK
<1> QED
  BY <1>2, <1>3, <1>4, <1>5

(* A run that has not seen to all its drives has a next one.                *)
LEMMA NextDrive ==
    ASSUME TypeOK, NEW p \in Proc, at[p] # Len(drives[p])
    PROVE  /\ at[p] < Len(drives[p]) /\ at[p] + 1 \in Nat /\ at[p] + 1 <= Len(drives[p])
           /\ at[p] + 1 \in DOMAIN drives[p]
           /\ This(p).path \in Files /\ This(p).format \in Formats \cup {""}
<1>1. at[p] \in Nat /\ Len(drives[p]) \in Nat /\ at[p] <= Len(drives[p])
  BY DriveType
<1>2. at[p] < Len(drives[p]) /\ at[p] + 1 \in 1 .. Len(drives[p])
  BY <1>1
<1>3. at[p] + 1 \in DOMAIN drives[p]
  BY <1>2, DriveType
<1>4. This(p).path \in Files /\ This(p).format \in Formats \cup {""}
  <2>1. \A k \in DOMAIN drives[p] : /\ drives[p][k].path \in Files
                                    /\ drives[p][k].format \in Formats \cup {""}
    BY DriveType
  <2> QED
    BY <1>3, <2>1 DEF This
<1>5. at[p] + 1 \in Nat /\ at[p] + 1 <= Len(drives[p])
  BY <1>1, <1>2
<1> QED
  BY <1>2, <1>3, <1>4, <1>5

(* A run about to create a disk has one to create.                          *)
LEMMA CreatesNext ==
    ASSUME TypeOK, CreateFollows, NEW p \in Proc, pc[p] = "create"
    PROVE  at[p] # Len(drives[p])
<1>1. at[p] \in Nat /\ Len(drives[p]) \in Nat /\ at[p] < Len(drives[p])
  BY DriveType DEF CreateFollows
<1> QED
  BY <1>1

(* A guest writes one file, which stays there.                              *)
LEMMA GuestFile ==
    ASSUME TypeOK, NEW p \in Proc, GuestWrites(p)
    PROVE  /\ file' \in [Files -> Content] /\ wrote' \in [Files -> SUBSET Proc]
           /\ \A f \in Files : file'[f] = file[f] \/ (file[f] # "raw" /\ file'[f] = "raw")
           /\ \E k \in DOMAIN drives[p] :
                /\ drives[p][k].path \in Files
                /\ \A f \in Files : f # drives[p][k].path => wrote'[f] = wrote[f] /\ file'[f] = file[f]
                /\ ~Overwrites(drives[p][k]) =>
                     file' = file /\ \A f \in Files : wrote[f] \subseteq wrote'[f]
<1>1. PICK k \in DOMAIN drives[p] :
        LET drive == drives[p][k]
        IN  \/ /\ ~Overwrites(drive)
               /\ wrote' = [wrote EXCEPT ![drive.path] = wrote[drive.path] \cup {p}] /\ file' = file
            \/ /\ Overwrites(drive)
               /\ wrote' = [wrote EXCEPT ![drive.path] = {p}]
               /\ file' \in {file, [file EXCEPT ![drive.path] = "raw"]}
  BY DEF GuestWrites
<1> DEFINE f0 == drives[p][k].path
<1>2. f0 \in Files
  BY DriveType
<1>3. file \in [Files -> Content] /\ wrote \in [Files -> SUBSET Proc] /\ "raw" \in Content
  BY DEF TypeOK, Content, Formats
<1>4. CASE ~Overwrites(drives[p][k])
  <2>1. wrote' = [wrote EXCEPT ![f0] = wrote[f0] \cup {p}] /\ file' = file
    BY <1>1, <1>4
  <2> HIDE DEF f0
  <2>2. \A f \in Files : wrote[f] \subseteq wrote'[f] /\ (f # f0 => wrote'[f] = wrote[f])
    BY <1>2, <1>3, <2>1
  <2>3. wrote' \in [Files -> SUBSET Proc]
    BY <1>2, <1>3, <2>1
  <2> QED
    BY <1>2, <1>3, <2>1, <2>2, <2>3 DEF f0
<1>5. CASE Overwrites(drives[p][k])
  <2>1. /\ wrote' = [wrote EXCEPT ![f0] = {p}]
        /\ file' = file \/ file' = [file EXCEPT ![f0] = "raw"]
        /\ file[f0] # "raw"
    BY <1>1, <1>5 DEF Overwrites
  <2> HIDE DEF f0
  <2>2. \A f \in Files : f # f0 => wrote'[f] = wrote[f] /\ file'[f] = file[f]
    BY <1>2, <1>3, <2>1
  <2>3. wrote' \in [Files -> SUBSET Proc] /\ file' \in [Files -> Content]
    BY <1>2, <1>3, <2>1
  <2>4. file'[f0] = file[f0] \/ (file[f0] # "raw" /\ file'[f0] = "raw")
    BY <1>2, <1>3, <2>1
  <2>5. \A f \in Files : file'[f] = file[f] \/ (file[f] # "raw" /\ file'[f] = "raw")
    BY <2>2, <2>4
  <2> QED
    BY <1>2, <1>5, <2>2, <2>3, <2>5 DEF f0
<1> QED
  BY <1>4, <1>5

(* What a run that is not refused gives to qemu are drives.                 *)
LEMMA DrivesType ==
    ASSUME TypeOK, NEW p \in Proc, ~Refused(p)
    PROVE  Drives(p) \in Seq(Drive)
<1>1. conf.runs[p] \in RunType
  BY QemuAssumption DEF TypeOK, ScenarioType
<1>2. PICK n \in 0 .. MaxDisks : Flags(p).disks \in [1 .. n -> DiskSpec]
  BY <1>1 DEF RunType, Flags
<1>3. MaxDisks \in Nat /\ \A i \in 1 .. MaxDisks : DiskImg[i] \in Names
  BY QemuAssumption DEF MaxDisks
<1>4. \A i \in 1 .. n : Completed(Flags(p).disks[i], i) \in Drive
  <2> SUFFICES ASSUME NEW i \in 1 .. n PROVE Completed(Flags(p).disks[i], i) \in Drive
    OBVIOUS
  <2> DEFINE d == Flags(p).disks[i]
  <2>1. d \in DiskSpec /\ i \in 1 .. MaxDisks
    BY <1>2, <1>3
  <2>2. CompletedDisks(p)[i] = Completed(d, i) /\ i \in DOMAIN CompletedDisks(p)
    BY <1>2 DEF CompletedDisks
  <2>3. Completed(d, i).path # NoName
    BY <2>2 DEF Refused
  <2>4. Completed(d, i).path \in Names \cup {NoName} /\ Completed(d, i).format \in Formats \cup {""}
    BY <1>3, <2>1 DEF Completed, DiskSpec, Formats
  <2>5. Completed(d, i) = [path |-> Completed(d, i).path, format |-> Completed(d, i).format]
    BY DEF Completed
  <2> QED
    BY <2>3, <2>4, <2>5 DEF Drive, Files
<1>5. CompletedDisks(p) \in [1 .. n -> Drive]
  BY <1>2, <1>4 DEF CompletedDisks
<1>6. CompletedDisks(p) \in Seq(Drive)
  BY <1>3, <1>5
<1>7. [path |-> Image, format |-> ""] \in Drive
  BY DEF Drive, Files
<1>8. <<[path |-> Image, format |-> ""]>> \in Seq(Drive)
  BY <1>7, Single
<1> QED
  BY <1>6, <1>8, ConcatProperties DEF Drives

(* Nothing ran yet, and no guest wrote.                                     *)
LEMMA InitQInv == Init => QInv
<1> SUFFICES ASSUME Init PROVE QInv
  OBVIOUS
<1>1. TypeOK
  BY QemuAssumption DEF Init, TypeOK, ScenarioType
<1>2. OneAtATime /\ WritesFollow /\ CreateFollows
  BY DEF Init, OneAtATime, WritesFollow, CreateFollows
<1>3. DrivesFollow /\ BootsFollow
  BY DEF Init, DrivesFollow, BootsFollow
<1>4. FormatsFollow
  <2>1. file = conf.dir
    BY DEF Init
  <2>2. \A f \in Files : conf.dir[f] # Absent => conf.dir[f] \in Formats
    BY <1>1, QemuAssumption DEF TypeOK, ScenarioType, Content
  <2> QED
    BY <2>1, <2>2 DEF FormatsFollow, FormatsOf, Exists
<1> QED
  BY <1>1, <1>2, <1>3, <1>4 DEF QInv

(* The types, drives within bounds included, are kept.                      *)
LEMMA TypeOKStep == QInv /\ [Next]_vars => TypeOK'
<1> SUFFICES ASSUME QInv, [Next]_vars PROVE TypeOK'
  OBVIOUS
<1>0. \A q \in Proc : \A k \in DOMAIN drives[q] : drives[q][k].path \in Files
  BY DriveType DEF QInv
<1>14. \A p \in Proc : at[p] # Len(drives[p]) =>
        /\ at[p] < Len(drives[p]) /\ at[p] + 1 \in Nat /\ at[p] + 1 <= Len(drives[p])
        /\ This(p).path \in Files /\ This(p).format \in Formats \cup {""}
  BY NextDrive DEF QInv
<1>15. \A p \in Proc : pc[p] = "create" => at[p] # Len(drives[p])
  BY CreatesNext DEF QInv
<1> USE QemuAssumption DEF QInv, TypeOK, Content, Goto
<1>1. ASSUME NEW p \in Proc, Begin(p) PROVE TypeOK'
  <2>1. CASE Refused(p)
    BY <1>1, <2>1 DEF Begin
  <2>2. CASE ~Refused(p)
    <3>1. Drives(p) \in Seq(Drive)
      BY <2>2, DrivesType
    <3>2. at[p] \in Nat /\ at[p] <= Len(Drives(p))
      BY <1>1, <3>1 DEF Begin, CreateFollows
    <3> QED
      BY <1>1, <2>2, <3>1, <3>2 DEF Begin
  <2> QED
    BY <2>1, <2>2
<1>2. ASSUME NEW p \in Proc, Stat(p) PROVE TypeOK'
  <2>1. CASE at' = at
    BY <1>2, <2>1 DEF Stat
  <2>2. CASE at[p] # Len(drives[p]) /\ at' = [at EXCEPT ![p] = at[p] + 1]
    <3>1. at[p] + 1 \in Nat /\ at[p] + 1 <= Len(drives[p])
      BY <2>2, <1>14
    <3>2. at' \in [Proc -> Nat] /\ \A q \in Proc : at'[q] <= Len(drives[q])
      BY <2>2, <3>1
    <3> QED
      BY <1>2, <3>2 DEF Stat
  <2> QED
    BY <1>2, <2>1, <2>2 DEF Stat
<1>3. ASSUME NEW p \in Proc, Create(p) PROVE TypeOK'
  <2>1. /\ at[p] + 1 \in Nat /\ at[p] + 1 <= Len(drives[p])
        /\ This(p).path \in Files /\ This(p).format \in Formats \cup {""}
    BY <1>3, <1>15, <1>14 DEF Create
  <2>2. file' \in [Files -> Content] /\ wrote' \in [Files -> SUBSET Proc]
    BY <1>3, <2>1 DEF Create
  <2>3. at' \in [Proc -> Nat] /\ \A q \in Proc : at'[q] <= Len(drives[q])
    <3>1. at' = at \/ at' = [at EXCEPT ![p] = at[p] + 1]
      BY <1>3 DEF Create
    <3> QED
      BY <3>1, <2>1
  <2> QED
    BY <1>3, <2>2, <2>3 DEF Create
<1>4. ASSUME NEW p \in Proc, Launch(p) PROVE TypeOK'
  BY <1>4 DEF Launch
<1>5. ASSUME NEW p \in Proc, KillQemu(p) PROVE TypeOK'
  BY <1>5 DEF KillQemu
<1>6. ASSUME NEW p \in Proc, GuestWrites(p) PROVE TypeOK'
  <2>1. wrote' \in [Files -> SUBSET Proc] /\ file' \in [Files -> Content]
    BY <1>6, GuestFile
  <2> QED
    BY <1>6, <2>1 DEF GuestWrites
<1>7. ASSUME NEW p \in Proc, GuestStops(p) PROVE TypeOK'
  BY <1>7 DEF GuestStops
<1>8. ASSUME NEW p \in Proc, Cancel(p) PROVE TypeOK'
  BY <1>8 DEF Cancel
<1>9. CASE UNCHANGED vars
  BY <1>9 DEF vars
<1> QED
  BY <1>1, <1>2, <1>3, <1>4, <1>5, <1>6, <1>7, <1>8, <1>9 DEF Next, Step, Ended

(* A run that overlaps no other begins when the others ended.               *)
LEMMA OneAtATimeStep == QInv /\ [Next]_vars => OneAtATime'
<1> SUFFICES ASSUME QInv, [Next]_vars PROVE OneAtATime'
  OBVIOUS
<1>0. \A q \in Proc : \A k \in DOMAIN drives[q] : drives[q][k].path \in Files
  BY DriveType DEF QInv
<1> USE QemuAssumption DEF QInv, TypeOK, OneAtATime, Goto
<1>1. ASSUME NEW p \in Proc, Begin(p) PROVE OneAtATime'
  BY <1>1 DEF Begin
<1>2. ASSUME NEW p \in Proc, Stat(p) PROVE OneAtATime'
  BY <1>2 DEF Stat
<1>3. ASSUME NEW p \in Proc, Create(p) PROVE OneAtATime'
  BY <1>3 DEF Create
<1>4. ASSUME NEW p \in Proc, Launch(p) PROVE OneAtATime'
  BY <1>4 DEF Launch
<1>5. ASSUME NEW p \in Proc, KillQemu(p) PROVE OneAtATime'
  BY <1>5 DEF KillQemu
<1>6. ASSUME NEW p \in Proc, GuestWrites(p) PROVE OneAtATime'
  BY <1>6 DEF GuestWrites
<1>7. ASSUME NEW p \in Proc, GuestStops(p) PROVE OneAtATime'
  BY <1>7 DEF GuestStops
<1>8. ASSUME NEW p \in Proc, Cancel(p) PROVE OneAtATime'
  BY <1>8 DEF Cancel
<1>9. CASE UNCHANGED vars
  BY <1>9 DEF vars
<1> QED
  BY <1>1, <1>2, <1>3, <1>4, <1>5, <1>6, <1>7, <1>8, <1>9 DEF Next, Step, Ended

(* No file goes away, and a guest writes to drives qemu could open.         *)
LEMMA WritesFollowStep == QInv /\ [Next]_vars => WritesFollow'
<1> SUFFICES ASSUME QInv, [Next]_vars PROVE WritesFollow'
  OBVIOUS
<1>0. \A q \in Proc : \A k \in DOMAIN drives[q] : drives[q][k].path \in Files
  BY DriveType DEF QInv
<1>14. \A p \in Proc : at[p] # Len(drives[p]) =>
        /\ at[p] < Len(drives[p]) /\ at[p] + 1 \in Nat /\ at[p] + 1 <= Len(drives[p])
        /\ This(p).path \in Files /\ This(p).format \in Formats \cup {""}
  BY NextDrive DEF QInv
<1>15. \A p \in Proc : pc[p] = "create" => at[p] # Len(drives[p])
  BY CreatesNext DEF QInv
<1> USE QemuAssumption DEF QInv, TypeOK, WritesFollow, Exists, Formats, Absent, Goto
<1>1. ASSUME NEW p \in Proc, Begin(p) PROVE WritesFollow'
  <2>1. \A q \in Proc : pc'[q] = "running" => pc[q] = "running" /\ drives'[q] = drives[q]
    BY <1>1 DEF Begin
  <2>2. file' = file /\ wrote' = wrote
    BY <1>1 DEF Begin
  <2> QED
    BY <2>1, <2>2
<1>2. ASSUME NEW p \in Proc, Stat(p) PROVE WritesFollow'
  <2>1. \A q \in Proc : pc'[q] = "running" => pc[q] = "running"
    BY <1>2 DEF Stat
  <2>2. UNCHANGED <<file, wrote, drives>>
    BY <1>2 DEF Stat
  <2> QED
    BY <2>1, <2>2
<1>3. ASSUME NEW p \in Proc, Create(p) PROVE WritesFollow'
  <2>1. \A f \in Files : file[f] # "absent" => file'[f] # "absent"
    <3>1. file' = file \/ file' = [file EXCEPT ![This(p).path] = This(p).format]
      BY <1>3 DEF Create
    <3>2. file' # file => This(p).format # "" /\ This(p).format \in Formats \cup {""}
      BY <1>3, <1>14, <1>15 DEF Create
    <3> QED
      BY <3>1, <3>2
  <2>2. \A f \in Files : wrote'[f] # {} => wrote[f] # {}
    BY <1>3 DEF Create
  <2>3. \A q \in Proc : pc'[q] = "running" => pc[q] = "running"
    BY <1>3 DEF Create
  <2>4. \A q \in Proc : \A k \in DOMAIN drives[q] : drives[q][k].path \in Files
    BY <1>0
  <2>5. drives' = drives
    BY <1>3 DEF Create
  <2> QED
    BY <2>1, <2>2, <2>3, <2>4, <2>5
<1>4. ASSUME NEW p \in Proc, Launch(p) PROVE WritesFollow'
  <2>1. ASSUME NEW q \in Proc, pc'[q] = "running"
        PROVE  \A k \in DOMAIN drives[q] : Exists(drives[q][k].path)
    <3>1. CASE pc[q] = "running"
      BY <3>1
    <3>2. CASE pc[q] # "running"
      <4>1. q = p /\ Usable(p)
        BY <1>4, <2>1, <3>2 DEF Launch
      <4> QED
        BY <4>1 DEF Usable
    <3> QED
      BY <3>1, <3>2
  <2>2. UNCHANGED <<file, wrote, drives>>
    BY <1>4 DEF Launch
  <2> QED
    BY <2>1, <2>2
<1>5. ASSUME NEW p \in Proc, KillQemu(p) PROVE WritesFollow'
  BY <1>5 DEF KillQemu
<1>6. ASSUME NEW p \in Proc, GuestWrites(p) PROVE WritesFollow'
  <2>1. \A f \in Files : file'[f] = file[f] \/ file'[f] = "raw"
    BY <1>6, GuestFile
  <2>2. PICK k \in DOMAIN drives[p] : \A f \in Files : f # drives[p][k].path => wrote'[f] = wrote[f]
    BY <1>6, GuestFile
  <2>3. file[drives[p][k].path] # "absent" /\ drives' = drives /\ pc' = pc
    BY <1>6, <2>2 DEF GuestWrites
  <2>4. \A f \in Files : file[f] # "absent" => file'[f] # "absent"
    BY <2>1
  <2>5. \A f \in Files : wrote'[f] # {} => file'[f] # "absent"
    BY <2>2, <2>3, <2>4
  <2>6. \A q \in Proc : pc'[q] = "running" => \A l \in DOMAIN drives[q] : file'[drives[q][l].path] # "absent"
    BY <1>0, <2>3, <2>4
  <2> QED
    BY <2>3, <2>5, <2>6
<1>7. ASSUME NEW p \in Proc, GuestStops(p) PROVE WritesFollow'
  BY <1>7 DEF GuestStops
<1>8. ASSUME NEW p \in Proc, Cancel(p) PROVE WritesFollow'
  BY <1>8 DEF Cancel
<1>9. CASE UNCHANGED vars
  BY <1>9 DEF vars
<1> QED
  BY <1>1, <1>2, <1>3, <1>4, <1>5, <1>6, <1>7, <1>8, <1>9 DEF Next, Step, Ended

(* A run alone finds the directory as its os.Stat left it.                  *)
LEMMA CreateFollowsStep == QInv /\ [Next]_vars => CreateFollows'
<1> SUFFICES ASSUME QInv, [Next]_vars PROVE CreateFollows'
  OBVIOUS
<1>0. \A q \in Proc : \A k \in DOMAIN drives[q] : drives[q][k].path \in Files
  BY DriveType DEF QInv
<1>14. \A p \in Proc : at[p] # Len(drives[p]) =>
        /\ at[p] < Len(drives[p]) /\ at[p] + 1 \in Nat /\ at[p] + 1 <= Len(drives[p])
        /\ This(p).path \in Files /\ This(p).format \in Formats \cup {""}
  BY NextDrive DEF QInv
<1>15. \A p \in Proc : pc[p] = "create" => at[p] # Len(drives[p])
  BY CreatesNext DEF QInv
<1>16. ASSUME NEW p \in Proc, UNCHANGED <<conf, file, drives>>,
              \A q \in Proc : q # p => pc'[q] = pc[q] /\ at'[q] = at[q],
              /\ pc'[p] = "idle" => at'[p] = 0
              /\ pc'[p] = "create" => /\ at'[p] < Len(drives[p])
                                     /\ file[drives[p][at'[p] + 1].path] = Absent
       PROVE  CreateFollows'
  <2> SUFFICES ASSUME NEW q \in Proc
               PROVE  /\ pc'[q] = "idle" => at'[q] = 0
                      /\ pc'[q] = "create" => at'[q] < Len(drives[q])
                      /\ pc'[q] = "create" /\ ~conf.overlap =>
                           file[drives[q][at'[q] + 1].path] = Absent
    BY <1>16 DEF CreateFollows, Exists, This
  <2>1. CASE q = p
    BY <1>16, <2>1
  <2>2. CASE q # p
    BY <1>16, <2>2 DEF QInv, CreateFollows, Exists, This
  <2> QED
    BY <2>1, <2>2
<1> USE QemuAssumption DEF QInv, TypeOK, CreateFollows, OneAtATime, Exists, This, Goto
<1>1. ASSUME NEW p \in Proc, Begin(p) PROVE CreateFollows'
  BY <1>1 DEF Begin
<1>2. ASSUME NEW p \in Proc, Stat(p) PROVE CreateFollows'
  <2>1. UNCHANGED <<conf, file, drives>>
    BY <1>2 DEF Stat
  <2>2. \A q \in Proc : q # p => pc'[q] = pc[q] /\ at'[q] = at[q]
    BY <1>2 DEF Stat
  <2>3. \/ pc'[p] \in {"launch", "stat", "ended"}
        \/ /\ pc'[p] = "create" /\ at'[p] = at[p] /\ at[p] # Len(drives[p])
           /\ file[drives[p][at[p] + 1].path] = Absent
    BY <1>2 DEF Stat
  <2> HIDE DEF QInv, TypeOK, CreateFollows, OneAtATime, Exists, This, Goto
  <2>4. CASE pc'[p] \in {"launch", "stat", "ended"}
    BY <1>16, <2>1, <2>2, <2>4
  <2>5. CASE /\ pc'[p] = "create" /\ at'[p] = at[p] /\ at[p] # Len(drives[p])
             /\ file[drives[p][at[p] + 1].path] = Absent
    <3>1. at[p] < Len(drives[p])
      BY <1>14, <2>5
    <3> QED
      BY <1>16, <2>1, <2>2, <2>5, <3>1
  <2> QED
    BY <2>3, <2>4, <2>5
<1>3. ASSUME NEW p \in Proc, Create(p) PROVE CreateFollows'
  <2>1. \A q \in Proc : q # p => pc'[q] = pc[q] /\ at'[q] = at[q]
    BY <1>3 DEF Create
  <2>2. pc'[p] \notin {"idle", "create"}
    <3>1. pc' = [pc EXCEPT ![p] = "stat"] \/ pc' = [pc EXCEPT ![p] = "ended"]
      BY <1>3 DEF Create
    <3>2. p \in DOMAIN pc
      OBVIOUS
    <3> HIDE DEF QInv, TypeOK, CreateFollows
    <3> QED
      BY <3>1, <3>2
  <2>3. UNCHANGED <<conf, drives>>
    BY <1>3 DEF Create
  <2>4. ~conf.overlap => \A q \in Proc : q # p => pc[q] \in {"idle", "ended"}
    BY <1>3 DEF Create
  <2> QED
    BY <2>1, <2>2, <2>3, <2>4
<1>4. ASSUME NEW p \in Proc, Launch(p) PROVE CreateFollows'
  BY <1>4 DEF Launch
<1>5. ASSUME NEW p \in Proc, KillQemu(p) PROVE CreateFollows'
  BY <1>5 DEF KillQemu
<1>6. ASSUME NEW p \in Proc, GuestWrites(p) PROVE CreateFollows'
  <2>1. pc[p] = "running" /\ UNCHANGED <<conf, pc, at, drives>>
    BY <1>6 DEF GuestWrites
  <2>2. OneAtATime /\ CreateFollows
    OBVIOUS
  <2> HIDE DEF QInv, TypeOK, CreateFollows, Exists, This
  <2>3. ~conf.overlap => \A q \in Proc : pc[q] # "create"
    BY <2>1, <2>2
  <2> QED
    BY <2>1, <2>2, <2>3 DEF CreateFollows
<1>7. ASSUME NEW p \in Proc, GuestStops(p) PROVE CreateFollows'
  BY <1>7 DEF GuestStops
<1>8. ASSUME NEW p \in Proc, Cancel(p) PROVE CreateFollows'
  BY <1>8 DEF Cancel
<1>9. CASE UNCHANGED vars
  BY <1>9 DEF vars
<1> QED
  BY <1>1, <1>2, <1>3, <1>4, <1>5, <1>6, <1>7, <1>8, <1>9 DEF Next, Step, Ended

------------------------------------------------------------------------------
(* One more index.                                                          *)
LEMMA UpToNext == ASSUME NEW n \in Nat PROVE \A k \in 1 .. n + 1 : k \in 1 .. n \/ k = n + 1
  OBVIOUS

(* What a run asks for does not change.                                     *)
LEMMA ConfStays ==
    [Next]_vars => /\ conf' = conf
                   /\ \A p \in Proc : Drives(p)' = Drives(p) /\ (Refused(p)' <=> Refused(p)) /\ (Sound(p)' <=> Sound(p))
                   /\ \A f \in Files : FormatsOf(f)' = FormatsOf(f)
<1> SUFFICES ASSUME [Next]_vars
             PROVE  /\ conf' = conf
                    /\ \A p \in Proc : /\ Drives(p)' = Drives(p)
                                        /\ (Refused(p)' <=> Refused(p)) /\ (Sound(p)' <=> Sound(p))
                    /\ \A f \in Files : FormatsOf(f)' = FormatsOf(f)
  OBVIOUS
<1>1. conf' = conf
  BY DEF Next, Step, Begin, Stat, Create, Launch, KillQemu, GuestWrites, GuestStops, Cancel, Ended, vars
<1>2. ASSUME NEW p \in Proc PROVE Drives(p)' = Drives(p)
  BY <1>1 DEF Drives, CompletedDisks, Flags
<1>3. ASSUME NEW f \in Files PROVE FormatsOf(f)' = FormatsOf(f)
  BY <1>1 DEF FormatsOf, CompletedDisks, Flags
<1>4. ASSUME NEW p \in Proc PROVE Sound(p)' <=> Sound(p)
  BY <1>1 DEF Sound, FormatsOf, Refused, CompletedDisks, Flags
<1>5. ASSUME NEW p \in Proc PROVE Refused(p)' <=> Refused(p)
  BY <1>1 DEF Refused, CompletedDisks, Flags
<1> QED
  BY <1>1, <1>2, <1>3, <1>4, <1>5

(* The disks of a run: a size makes a format.                               *)
LEMMA DisksType ==
    ASSUME TypeOK, NEW p \in Proc
    PROVE  \E n \in Nat :
             /\ DOMAIN CompletedDisks(p) = 1 .. n /\ DOMAIN Flags(p).disks = 1 .. n
             /\ CompletedDisks(p) = [i \in 1 .. n |-> Completed(Flags(p).disks[i], i)]
             /\ \A i \in 1 .. n :
                  /\ CompletedDisks(p)[i].path \in Names \cup {NoName}
                  /\ CompletedDisks(p)[i].format \in Formats \cup {""}
                  /\ Flags(p).disks[i].sized => CompletedDisks(p)[i].format # ""
<1>1. conf.runs[p] \in RunType
  BY QemuAssumption DEF TypeOK, ScenarioType
<1>2. PICK n \in 0 .. MaxDisks : Flags(p).disks \in [1 .. n -> DiskSpec]
  BY <1>1 DEF RunType, Flags
<1>3. MaxDisks \in Nat /\ \A i \in 1 .. MaxDisks : DiskImg[i] \in Names
  BY QemuAssumption DEF MaxDisks
<1>4. n \in Nat /\ DOMAIN Flags(p).disks = 1 .. n
  BY <1>2, <1>3
<1>5. CompletedDisks(p) = [i \in 1 .. n |-> Completed(Flags(p).disks[i], i)]
  BY <1>4 DEF CompletedDisks
<1>6. ASSUME NEW i \in 1 .. n
      PROVE  /\ CompletedDisks(p)[i].path \in Names \cup {NoName}
             /\ CompletedDisks(p)[i].format \in Formats \cup {""}
             /\ Flags(p).disks[i].sized => CompletedDisks(p)[i].format # ""
  <2> DEFINE d == Flags(p).disks[i]
  <2>1. d \in DiskSpec /\ i \in 1 .. MaxDisks
    BY <1>2, <1>3
  <2>2. CompletedDisks(p)[i] = Completed(d, i)
    BY <1>5
  <2>3. Completed(d, i).path \in Names \cup {NoName} /\ Completed(d, i).format \in Formats \cup {""}
    BY <1>3, <2>1 DEF Completed, DiskSpec, Formats
  <2>4. d.sized => Completed(d, i).format # ""
    BY <2>1 DEF Completed, DiskSpec
  <2> QED
    BY <2>2, <2>3, <2>4
<1> QED
  BY <1>4, <1>5, <1>6

(* The drives are the image and the disks.                                  *)
LEMMA DrivesShape ==
    ASSUME TypeOK, NEW p \in Proc, ~Refused(p), NEW k \in DOMAIN Drives(p)
    PROVE  \/ k = 1 /\ Drives(p)[k].path = Image /\ Drives(p)[k].format = ""
           \/ k # 1 /\ k - 1 \in DOMAIN CompletedDisks(p) /\ Drives(p)[k] = CompletedDisks(p)[k - 1]
<1>1. PICK n \in Nat : DOMAIN CompletedDisks(p) = 1 .. n
                       /\ CompletedDisks(p) = [i \in 1 .. n |-> Completed(Flags(p).disks[i], i)]
  BY DisksType
<1> DEFINE image == [path |-> Image, format |-> ""]
           S == {Completed(Flags(p).disks[i], i) : i \in 1 .. n} \cup {image}
<1>2. CompletedDisks(p) \in [1 .. n -> S] /\ image \in S
  BY <1>1
<1>3. image.path = Image /\ image.format = ""
  OBVIOUS
<1>4. Drives(p) = <<image>> \o CompletedDisks(p)
  BY DEF Drives
<1> HIDE DEF S, image
<1>5. CompletedDisks(p) \in Seq(S) /\ Len(CompletedDisks(p)) = n
  BY <1>2
<1>6. <<image>> \in Seq(S) /\ Len(<<image>>) = 1 /\ <<image>>[1] = image
  BY <1>2, Single
<1>7. Drives(p) \in Seq(S) /\ Len(Drives(p)) = 1 + n
  BY <1>4, <1>5, <1>6, ConcatProperties
<1>8. \A i \in 1 .. 1 + n : Drives(p)[i] = IF i <= 1 THEN <<image>>[i] ELSE CompletedDisks(p)[i - 1]
  BY <1>4, <1>5, <1>6, ConcatProperties
<1>9. k \in 1 .. 1 + n
  BY <1>7, LenProperties
<1>10. CASE k = 1
  <2>1. 1 \in 1 .. 1 + n /\ 1 <= 1
    OBVIOUS
  <2>2. Drives(p)[1] = image
    BY <1>6, <1>8, <2>1
  <2> QED
    BY <1>3, <1>10, <2>2
<1>11. CASE k # 1
  <2>1. k - 1 \in 1 .. n /\ ~(k <= 1)
    BY <1>9, <1>11
  <2> QED
    BY <1>1, <1>8, <1>9, <1>11, <2>1
<1> QED
  BY <1>10, <1>11

(* The format a disk is given is one of those its file is asked to have.    *)
LEMMA Asked ==
    ASSUME TypeOK, NEW p \in Proc, NEW i \in DOMAIN CompletedDisks(p),
           CompletedDisks(p)[i].format # ""
    PROVE  CompletedDisks(p)[i].format \in FormatsOf(CompletedDisks(p)[i].path)
<1>1. CompletedDisks(p)[i].format \in Formats
  BY DisksType
<1> QED
  BY <1>1 DEF FormatsOf

(* So is raw, of a file whose drive is taken for raw.                       *)
LEMMA RawAsked ==
    ASSUME QInv, NEW p \in Proc, pc[p] = "running", NEW k \in DOMAIN drives[p],
           Overwrites(drives[p][k])
    PROVE  "raw" \in FormatsOf(drives[p][k].path)
<1>1. TypeOK /\ ~Refused(p) /\ drives[p] = Drives(p) /\ drives[p][k].format = "raw"
  BY DEF QInv, DrivesFollow, Overwrites
<1>2. k \in DOMAIN Drives(p)
  BY <1>1
<1>3. \E i \in DOMAIN CompletedDisks(p) : Drives(p)[k] = CompletedDisks(p)[i]
  BY <1>1, <1>2, DrivesShape
<1> QED
  BY <1>1, <1>3, Asked

(* Where at most one format is asked for, any two are the same.             *)
LEMMA OneFormat ==
    ASSUME TypeOK, NEW f \in Files, Cardinality(FormatsOf(f)) <= 1,
           NEW x \in FormatsOf(f), NEW y \in FormatsOf(f)
    PROVE  x = y
<1>1. IsFiniteSet({"raw"} \cup {"qcow2"})
  <2>1. IsFiniteSet({"raw"})
    BY FS_Singleton
  <2> QED
    BY <2>1, FS_AddElement
<1>2. FormatsOf(f) \in SUBSET ({"raw"} \cup {"qcow2"})
  BY DEF FormatsOf, Formats
<1>3. IsFiniteSet(FormatsOf(f))
  BY <1>1, <1>2, FS_Subset
<1>4. SUFFICES ASSUME x # y PROVE FALSE
  OBVIOUS
<1>5. IsFiniteSet({x}) /\ Cardinality({x}) = 1
  BY FS_Singleton
<1>6. Cardinality({x} \cup {y}) = IF y \in {x} THEN Cardinality({x}) ELSE Cardinality({x}) + 1
  BY <1>5, FS_AddElement
<1>7. Cardinality({x} \cup {y}) = 2
  BY <1>4, <1>5, <1>6
<1>8. {x} \cup {y} \in SUBSET FormatsOf(f)
  OBVIOUS
<1>9. Cardinality({x} \cup {y}) <= Cardinality(FormatsOf(f))
  BY <1>3, <1>8, FS_Subset
<1>10. Cardinality(FormatsOf(f)) \in Nat
  BY <1>3, FS_CardinalityType
<1> QED
  BY <1>7, <1>9, <1>10

(* Values of a function that differ are as many as its arguments.           *)
LEMMA AsMany ==
    ASSUME NEW n \in Nat, NEW T, NEW g \in [1 .. n -> T],
           \A i, j \in 1 .. n : g[i] = g[j] => i = j,
           \A t \in T : \E i \in 1 .. n : g[i] = t
    PROVE  Cardinality(T) = n
<1>1. g \in Injection(1 .. n, T)
  BY DEF Injection, IsInjective
<1>2. g \in Surjection(1 .. n, T)
  BY DEF Surjection
<1>3. ExistsBijection(1 .. n, T)
  BY <1>1, <1>2 DEF ExistsBijection, Bijection
<1>4. IsFiniteSet(1 .. n) /\ Cardinality(1 .. n) = n
  BY FS_Interval
<1> QED
  BY <1>3, <1>4, FS_Bijection

(* Nobody else runs beside a run that overlaps no other.                    *)
LEMMA NoneLocked ==
    ASSUME QInv, ~conf.overlap, NEW p \in Proc, pc[p] \in {"stat", "create", "launch"}, NEW f
    PROVE  ~Locked(f)
  BY DEF QInv, OneAtATime, Locked

(* A run alone only creates a disk of its flags, where there was none.      *)
LEMMA CreatesAsked ==
    ASSUME QInv, ~conf.overlap, NEW p \in Proc, pc[p] = "create"
    PROVE  /\ This(p).path \in Files /\ conf.dir[This(p).path] = Absent
           /\ \E i \in DOMAIN CompletedDisks(p) : This(p) = CompletedDisks(p)[i]
<1>1. TypeOK /\ ~Refused(p) /\ drives[p] = Drives(p) /\ ~Exists(This(p).path)
  BY DEF QInv, DrivesFollow, CreateFollows
<1>2. at[p] # Len(drives[p])
  BY CreatesNext DEF QInv
<1>3. at[p] + 1 \in DOMAIN drives[p] /\ This(p).path \in Files
  BY <1>1, <1>2, NextDrive
<1>4. conf.dir[This(p).path] = Absent
  BY <1>1, <1>3 DEF QInv, FormatsFollow, Exists
<1>5. conf.dir[Image] # Absent
  BY QemuAssumption DEF QInv, TypeOK
<1>6. \E i \in DOMAIN CompletedDisks(p) : This(p) = CompletedDisks(p)[i]
  <2>1. This(p) = Drives(p)[at[p] + 1] /\ at[p] + 1 \in DOMAIN Drives(p)
    BY <1>1, <1>3 DEF This
  <2>2. This(p).path # Image
    BY <1>4, <1>5
  <2> DEFINE k == at[p] + 1
  <2>3. TypeOK /\ ~Refused(p) /\ k \in DOMAIN Drives(p) /\ Drives(p)[k] = This(p)
    BY <1>1, <2>1
  <2> HIDE DEF k
  <2>4. \E i \in DOMAIN CompletedDisks(p) : Drives(p)[k] = CompletedDisks(p)[i]
    BY <2>2, <2>3, DrivesShape
  <2> QED
    BY <2>3, <2>4
<1> QED
  BY <1>3, <1>4, <1>6

(* A sound run only creates disks it gave a format.                         *)
LEMMA SoundCreates ==
    ASSUME QInv, ~conf.overlap, NEW p \in Proc, Sound(p), pc[p] = "create"
    PROVE  This(p).format # ""
<1>1. TypeOK /\ conf.dir[This(p).path] = Absent
  BY CreatesAsked DEF QInv
<1>2. PICK i \in DOMAIN CompletedDisks(p) : This(p) = CompletedDisks(p)[i]
  BY CreatesAsked
<1>3. Flags(p).disks[i].sized
  BY <1>1, <1>2 DEF Sound
<1> QED
  BY <1>1, <1>2, <1>3, DisksType

(* The drives of a sound run are what qemu can open.                        *)
LEMMA SoundUsable ==
    ASSUME QInv, ~conf.overlap, NEW p \in Proc, Sound(p), pc[p] = "launch"
    PROVE  Usable(p)
<1>1. TypeOK /\ ~Refused(p) /\ drives[p] = Drives(p) /\ at[p] = Len(drives[p])
  BY DEF QInv, Sound, DrivesFollow
<1>2. /\ DOMAIN drives[p] = 1 .. Len(drives[p]) /\ Len(drives[p]) \in Nat
      /\ \A k \in DOMAIN drives[p] : drives[p][k].path \in Files
                                     /\ drives[p][k].format \in Formats \cup {""}
  BY <1>1, DriveType
<1>3. ASSUME NEW k \in DOMAIN drives[p]
      PROVE  \/ k = 1 /\ drives[p][k].path = Image /\ drives[p][k].format = ""
             \/ /\ k # 1 /\ k - 1 \in DOMAIN CompletedDisks(p)
                /\ drives[p][k] = CompletedDisks(p)[k - 1]
  BY <1>1, DrivesShape
<1>4. ASSUME NEW k \in DOMAIN drives[p]
      PROVE  /\ Exists(drives[p][k].path) /\ ~Locked(drives[p][k].path)
             /\ drives[p][k].format \in {"", "raw", file[drives[p][k].path]}
  <2>1. Exists(drives[p][k].path)
    BY <1>1, <1>2 DEF QInv, DrivesFollow
  <2>2. ~Locked(drives[p][k].path)
    BY NoneLocked
  <2>3. CASE drives[p][k].format = ""
    BY <2>1, <2>2, <2>3
  <2>4. CASE drives[p][k].format # ""
    <3>1. k - 1 \in DOMAIN CompletedDisks(p) /\ drives[p][k] = CompletedDisks(p)[k - 1]
      BY <1>3, <2>4
    <3>2. drives[p][k].format \in FormatsOf(drives[p][k].path)
      BY <1>1, <2>4, <3>1, Asked
    <3>3. file[drives[p][k].path] \in FormatsOf(drives[p][k].path)
      BY <1>2, <2>1 DEF QInv, FormatsFollow
    <3>4. Cardinality(FormatsOf(drives[p][k].path)) <= 1
      BY <3>1 DEF Sound
    <3>5. drives[p][k].format = file[drives[p][k].path]
      BY <1>1, <1>2, <3>2, <3>3, <3>4, OneFormat
    <3> QED
      BY <2>1, <2>2, <3>5
  <2> QED
    BY <2>3, <2>4
<1>5. ASSUME NEW i \in 1 .. Len(drives[p]), NEW j \in 1 .. Len(drives[p]),
             drives[p][i].path = drives[p][j].path
      PROVE  i = j
  <2>1. \A k \in DOMAIN CompletedDisks(p) : CompletedDisks(p)[k].path # Image
    <3>1. \A k \in DOMAIN CompletedDisks(p) : CompletedDisks(p)[k].path \in Names \cup {NoName}
      BY <1>1, DisksType
    <3>2. \A k \in DOMAIN CompletedDisks(p) : CompletedDisks(p)[k].path # NoName
      BY <1>1 DEF Refused
    <3> QED
      BY <3>1, <3>2, QemuAssumption
  <2>2. \A k, l \in DOMAIN CompletedDisks(p) :
          CompletedDisks(p)[k].path = CompletedDisks(p)[l].path => k = l
    BY DEF Sound
  <2>3. i \in DOMAIN drives[p] /\ j \in DOMAIN drives[p]
    BY <1>2
  <2>4. CASE i = 1 \/ j = 1
    BY <1>3, <2>1, <2>3, <2>4, <1>5
  <2>5. CASE i # 1 /\ j # 1
    <3>1. /\ i - 1 \in DOMAIN CompletedDisks(p) /\ drives[p][i] = CompletedDisks(p)[i - 1]
          /\ j - 1 \in DOMAIN CompletedDisks(p) /\ drives[p][j] = CompletedDisks(p)[j - 1]
      BY <1>3, <2>3, <2>5
    <3>2. CompletedDisks(p)[i - 1].path = CompletedDisks(p)[j - 1].path
      BY <3>1, <1>5
    <3>3. i - 1 = j - 1
      BY <2>2, <3>1, <3>2
    <3>4. i \in Nat /\ j \in Nat
      <4>1. Len(drives[p]) \in Nat
        BY <1>2
      <4>2. \A k \in 1 .. Len(drives[p]) : k \in Nat
        BY <4>1
      <4> QED
        BY <1>5, <4>2
    <3> QED
      BY <3>3, <3>4
  <2> QED
    BY <2>4, <2>5
<1>6. Cardinality({drives[p][k].path : k \in DOMAIN drives[p]}) = Len(drives[p])
  <2> DEFINE n == Len(drives[p])
             T == {drives[p][k].path : k \in DOMAIN drives[p]}
             g == [k \in 1 .. n |-> drives[p][k].path]
  <2>1. n \in Nat /\ g \in [1 .. n -> T]
    BY <1>2
  <2>2. \A t \in T : \E i \in 1 .. n : g[i] = t
    BY <1>2
  <2>3. \A i, j \in 1 .. n : g[i] = g[j] => i = j
    BY <1>5
  <2> HIDE DEF g, T, n
  <2>4. Cardinality(T) = n
    BY <2>1, <2>2, <2>3, AsMany
  <2> QED
    BY <2>4 DEF T, n
<1> QED
  BY <1>4, <1>6 DEF Usable

(* What a run has seen to stays there.                                      *)
LEMMA DrivesFollowStep == QInv /\ [Next]_vars => DrivesFollow'
<1> SUFFICES ASSUME QInv, [Next]_vars PROVE DrivesFollow'
  OBVIOUS
<1>20. /\ conf' = conf
       /\ \A p \in Proc : Drives(p)' = Drives(p) /\ (Refused(p)' <=> Refused(p)) /\ (Sound(p)' <=> Sound(p))
       /\ \A f \in Files : FormatsOf(f)' = FormatsOf(f)
  BY ConfStays
<1>14. \A p \in Proc : at[p] # Len(drives[p]) =>
        /\ at[p] < Len(drives[p]) /\ at[p] + 1 \in DOMAIN drives[p]
        /\ This(p).path \in Files /\ This(p).format \in Formats \cup {""}
  BY NextDrive DEF QInv
<1>15. \A p \in Proc : pc[p] = "create" => at[p] # Len(drives[p])
  BY CreatesNext DEF QInv
<1>16. \A q \in Proc : \A k \in DOMAIN drives[q] : drives[q][k].path \in Files
  BY DriveType DEF QInv
<1>17. \A q \in Proc : DOMAIN drives[q] = 1 .. Len(drives[q]) /\ Len(drives[q]) \in Nat
  BY DriveType DEF QInv

<1>18. ASSUME NEW p \in Proc, \A q \in Proc : q # p => UNCHANGED <<pc[q], at[q], drives[q]>>,
              \A f \in Files : file[f] # Absent => file'[f] # Absent,
              /\ pc'[p] \in {"stat", "create", "launch"} =>
                   /\ ~Refused(p) /\ drives'[p] = Drives(p)
                   /\ \A k \in 1 .. at'[p] : file'[drives'[p][k].path] # Absent
              /\ pc'[p] = "launch" => at'[p] = Len(drives'[p])
              /\ pc'[p] = "running" => ~Refused(p) /\ drives'[p] = Drives(p)
       PROVE  DrivesFollow'
  <2>1. ASSUME NEW q \in Proc, q # p, pc[q] \in {"stat", "create", "launch"}
        PROVE  \A k \in 1 .. at[q] : file'[drives[q][k].path] # Absent
    <3>1. \A k \in 1 .. at[q] : k \in DOMAIN drives[q]
      BY <1>17 DEF QInv, TypeOK
    <3> QED
      BY <1>18, <2>1, <3>1, <1>16 DEF QInv, DrivesFollow, Exists
  <2>2. ASSUME NEW q \in Proc, q # p
        PROVE  /\ pc'[q] \in {"stat", "create", "launch"} =>
                    /\ ~Refused(q) /\ drives'[q] = Drives(q)
                    /\ \A k \in 1 .. at'[q] : file'[drives'[q][k].path] # Absent
               /\ pc'[q] = "launch" => at'[q] = Len(drives'[q])
               /\ pc'[q] = "running" => ~Refused(q) /\ drives'[q] = Drives(q)
    BY <1>18, <2>1, <2>2 DEF QInv, DrivesFollow
  <2>3. ASSUME NEW q \in Proc
        PROVE  /\ pc'[q] \in {"stat", "create", "launch"} =>
                    /\ ~Refused(q) /\ drives'[q] = Drives(q)
                    /\ \A k \in 1 .. at'[q] : file'[drives'[q][k].path] # Absent
               /\ pc'[q] = "launch" => at'[q] = Len(drives'[q])
               /\ pc'[q] = "running" => ~Refused(q) /\ drives'[q] = Drives(q)
    <3>1. CASE q = p
      BY <1>18, <3>1
    <3>2. CASE q # p
      BY <2>2, <3>2
    <3> QED
      BY <3>1, <3>2
  <2> QED
    BY <2>3, <1>20 DEF DrivesFollow, Exists
<1>19. ASSUME NEW p \in Proc, file' = file, at' = at, drives' = drives,
              \A q \in Proc : q # p => pc'[q] = pc[q], pc'[p] \in {"running", "ended"},
              pc'[p] = "running" => pc[p] = "launch"
       PROVE  DrivesFollow'
  <2>1. \A q \in Proc : q # p => UNCHANGED <<pc[q], at[q], drives[q]>>
    BY <1>19
  <2>2. pc'[p] \notin {"stat", "create", "launch"}
    BY <1>19
  <2>3. pc'[p] # "launch"
    BY <2>2
  <2>4. pc'[p] = "running" => ~Refused(p) /\ drives'[p] = Drives(p)
    BY <1>19 DEF QInv, DrivesFollow
  <2> QED
    BY <1>18, <1>19, <2>1, <2>2, <2>3, <2>4
<1>21. ASSUME UNCHANGED <<pc, at, drives>>, \A f \in Files : file[f] # Absent => file'[f] # Absent
       PROVE  DrivesFollow'
  <2>1. ASSUME NEW q \in Proc, pc[q] \in {"stat", "create", "launch"}
        PROVE  \A k \in 1 .. at[q] : file'[drives[q][k].path] # Absent
    <3>1. \A k \in 1 .. at[q] : k \in DOMAIN drives[q]
      BY <1>17 DEF QInv, TypeOK
    <3> QED
      BY <1>21, <2>1, <3>1, <1>16 DEF QInv, DrivesFollow, Exists
  <2> QED
    BY <1>20, <1>21, <2>1 DEF QInv, DrivesFollow, Exists
<1> USE QemuAssumption DEF QInv, TypeOK, DrivesFollow, CreateFollows, Exists, Goto
<1>1. ASSUME NEW p \in Proc, Begin(p) PROVE DrivesFollow'
  <2>1. \A q \in Proc : q # p => UNCHANGED <<pc[q], at[q], drives[q]>>
    BY <1>1 DEF Begin
  <2>2. pc'[p] = "ended" \/ (pc'[p] = "stat" /\ ~Refused(p) /\ drives'[p] = Drives(p))
    BY <1>1 DEF Begin
  <2>3. file' = file /\ at'[p] = 0
    BY <1>1 DEF Begin
  <2>4. \A k \in 1 .. at'[p] : FALSE
    BY <2>3
  <2> QED
    BY <2>1, <2>2, <2>3, <2>4, <1>18
<1>2. ASSUME NEW p \in Proc, Stat(p) PROVE DrivesFollow'
  <2>1. drives' = drives /\ file' = file /\ ~Refused(p) /\ drives[p] = Drives(p)
    BY <1>2 DEF Stat
  <2>2. \A q \in Proc : q # p => UNCHANGED <<pc[q], at[q], drives[q]>>
    BY <1>2 DEF Stat
  <2>3. \A k \in 1 .. at[p] : file[drives[p][k].path] # Absent
    BY <1>2 DEF Stat
  <2>4. CASE at[p] = Len(drives[p]) /\ pc'[p] = "launch" /\ at' = at
    BY <2>1, <2>2, <2>3, <2>4, <1>18
  <2>5. CASE at'[p] = at[p] + 1 /\ pc'[p] = "stat" /\ Exists(This(p).path)
    <3>1. \A k \in 1 .. at'[p] : k \in 1 .. at[p] \/ k = at[p] + 1
      BY <2>5, UpToNext
    <3>2. file[drives[p][at[p] + 1].path] # Absent
      BY <2>5 DEF This
    <3>3. \A k \in 1 .. at'[p] : file[drives[p][k].path] # Absent
      BY <2>3, <3>1, <3>2
    <3> QED
      BY <2>1, <2>2, <2>5, <3>3, <1>18
  <2>6. CASE pc'[p] \in {"create", "ended"} /\ at' = at
    BY <2>1, <2>2, <2>3, <2>6, <1>18
  <2> QED
    BY <1>2, <2>4, <2>5, <2>6 DEF Stat
<1>3. ASSUME NEW p \in Proc, Create(p) PROVE DrivesFollow'
  <2>1. drives' = drives /\ ~Refused(p) /\ drives[p] = Drives(p)
    BY <1>3 DEF Create
  <2>2. \A q \in Proc : q # p => UNCHANGED <<pc[q], at[q], drives[q]>>
    BY <1>3 DEF Create
  <2>3. This(p).path \in Files /\ This(p).format \in Formats \cup {""} /\ pc[p] = "create"
    BY <1>3, <1>14, <1>15 DEF Create
  <2>4. CASE /\ pc'[p] = "stat" /\ at'[p] = at[p] + 1 /\ This(p).format # ""
             /\ file' = [file EXCEPT ![This(p).path] = This(p).format]
    <3>1. \A f \in Files : file[f] # Absent \/ f = This(p).path => file'[f] # Absent
      BY <2>3, <2>4 DEF Formats, Absent
    <3>2. \A k \in 1 .. at[p] : k \in DOMAIN drives[p] /\ file[drives[p][k].path] # Absent
      <4>1. \A k \in 1 .. at[p] : k \in DOMAIN drives[p]
        BY <1>17
      <4>2. \A k \in 1 .. at[p] : file[drives[p][k].path] # Absent
        BY <2>3
      <4> QED
        BY <4>1, <4>2
    <3>3. \A k \in 1 .. at'[p] : k \in 1 .. at[p] \/ k = at[p] + 1
      BY <2>4, UpToNext
    <3>4. file'[drives[p][at[p] + 1].path] # Absent
      BY <2>3, <3>1 DEF This
    <3>5. \A k \in 1 .. at[p] : file'[drives[p][k].path] # Absent
      BY <1>16, <3>1, <3>2
    <3>6. \A k \in 1 .. at'[p] : file'[drives[p][k].path] # Absent
      BY <3>3, <3>4, <3>5
    <3>7. \A f \in Files : file[f] # Absent => file'[f] # Absent
      BY <3>1
    <3>8. \A k \in 1 .. at'[p] : file'[drives'[p][k].path] # Absent
      BY <2>1, <3>6
    <3> HIDE DEF QInv, TypeOK, DrivesFollow
    <3> QED
      BY <2>1, <2>2, <2>4, <3>7, <3>8, <1>18
  <2>5. CASE pc'[p] = "ended" /\ file' = file
    BY <2>1, <2>2, <2>5, <1>18
  <2> QED
    BY <1>3, <2>4, <2>5 DEF Create
<1>4. ASSUME NEW p \in Proc, Launch(p) PROVE DrivesFollow'
  <2>1. file' = file /\ at' = at /\ drives' = drives
    BY <1>4 DEF Launch
  <2>2. /\ \A q \in Proc : q # p => pc'[q] = pc[q]
        /\ pc'[p] \in {"running", "ended"}
        /\ pc[p] = "launch"
    BY <1>4 DEF Launch
  <2> HIDE DEF QInv, TypeOK, DrivesFollow, CreateFollows, Exists, Goto
  <2> QED
    BY <1>19, <2>1, <2>2
<1>5. ASSUME NEW p \in Proc, KillQemu(p) PROVE DrivesFollow'
  <2>1. file' = file /\ at' = at /\ drives' = drives
    BY <1>5 DEF KillQemu
  <2>2. /\ \A q \in Proc : q # p => pc'[q] = pc[q]
        /\ pc'[p] = "ended"
    BY <1>5 DEF KillQemu
  <2> HIDE DEF QInv, TypeOK, DrivesFollow, CreateFollows, Exists, Goto
  <2> QED
    BY <1>19, <2>1, <2>2
<1>6. ASSUME NEW p \in Proc, GuestWrites(p) PROVE DrivesFollow'
  <2>1. UNCHANGED <<pc, at, drives>> /\ \A f \in Files : file[f] # Absent => file'[f] # Absent
    BY <1>6, GuestFile DEF GuestWrites, Absent
  <2> HIDE DEF QInv, TypeOK, DrivesFollow, CreateFollows, Exists, Goto
  <2> QED
    BY <1>21, <2>1
<1>7. ASSUME NEW p \in Proc, GuestStops(p) PROVE DrivesFollow'
  <2>1. file' = file /\ at' = at /\ drives' = drives
    BY <1>7 DEF GuestStops
  <2>2. /\ \A q \in Proc : q # p => pc'[q] = pc[q]
        /\ pc'[p] = "ended"
    BY <1>7 DEF GuestStops
  <2> HIDE DEF QInv, TypeOK, DrivesFollow, CreateFollows, Exists, Goto
  <2> QED
    BY <1>19, <2>1, <2>2
<1>8. ASSUME NEW p \in Proc, Cancel(p) PROVE DrivesFollow'
  <2>1. UNCHANGED <<pc, file, at, drives>>
    BY <1>8 DEF Cancel
  <2> HIDE DEF QInv, TypeOK, DrivesFollow, CreateFollows, Exists, Goto
  <2> QED
    BY <1>21, <2>1
<1>9. CASE UNCHANGED vars
  <2>1. UNCHANGED <<pc, file, at, drives>>
    BY <1>9 DEF vars
  <2> HIDE DEF QInv, TypeOK, DrivesFollow, CreateFollows, Exists, Goto
  <2> QED
    BY <1>21, <2>1
<1> QED
  BY <1>1, <1>2, <1>3, <1>4, <1>5, <1>6, <1>7, <1>8, <1>9 DEF Next, Step, Ended

(* A run alone gives a file that is not there a format it asked for.        *)
LEMMA FormatsFollowStep == QInv /\ [Next]_vars => FormatsFollow'
<1> SUFFICES ASSUME QInv, [Next]_vars PROVE FormatsFollow'
  OBVIOUS
<1>20. /\ conf' = conf
       /\ \A p \in Proc : Drives(p)' = Drives(p) /\ (Refused(p)' <=> Refused(p)) /\ (Sound(p)' <=> Sound(p))
       /\ \A f \in Files : FormatsOf(f)' = FormatsOf(f)
  BY ConfStays
<1> USE QemuAssumption DEF QInv, TypeOK, FormatsFollow, Exists, Goto
<1>1. ASSUME NEW p \in Proc, Begin(p) PROVE FormatsFollow'
  BY <1>1, <1>20 DEF Begin
<1>2. ASSUME NEW p \in Proc, Stat(p) PROVE FormatsFollow'
  BY <1>2, <1>20 DEF Stat
<1>3. ASSUME NEW p \in Proc, Create(p) PROVE FormatsFollow'
  <2>1. CASE file' = file
    BY <2>1, <1>20
  <2>2. CASE file' = [file EXCEPT ![This(p).path] = This(p).format] /\ This(p).format # "" /\ ~conf.overlap
    <3>1. pc[p] = "create"
      BY <1>3 DEF Create
    <3>2. This(p).path \in Files /\ conf.dir[This(p).path] = Absent
      BY <2>2, <3>1, CreatesAsked
    <3>3. PICK i \in DOMAIN CompletedDisks(p) : This(p) = CompletedDisks(p)[i]
      BY <2>2, <3>1, CreatesAsked
    <3>4. \A f \in Files : file'[f] = IF f = This(p).path THEN This(p).format ELSE file[f]
      BY <2>2, <3>2
    <3>5. TypeOK /\ FormatsFollow
      OBVIOUS
    <3> HIDE DEF QInv, TypeOK, FormatsFollow, Exists
    <3>6. This(p).format \in FormatsOf(This(p).path)
      BY <2>2, <3>3, <3>5, Asked
    <3>7. ASSUME NEW f \in Files
          PROVE  /\ conf.dir[f] # Absent => file'[f] # Absent
                 /\ file'[f] # Absent => file'[f] \in FormatsOf(f)
      <4>1. CASE f = This(p).path
        BY <3>2, <3>4, <3>6, <4>1
      <4>2. CASE f # This(p).path
        BY <2>2, <3>4, <3>5, <4>2 DEF FormatsFollow, Exists
      <4> QED
        BY <4>1, <4>2
    <3> QED
      BY <3>7, <1>20 DEF FormatsFollow, Exists
  <2> QED
    BY <1>3, <2>1, <2>2, <1>20 DEF Create
<1>4. ASSUME NEW p \in Proc, Launch(p) PROVE FormatsFollow'
  BY <1>4, <1>20 DEF Launch
<1>5. ASSUME NEW p \in Proc, KillQemu(p) PROVE FormatsFollow'
  BY <1>5, <1>20 DEF KillQemu
<1>6. ASSUME NEW p \in Proc, GuestWrites(p) PROVE FormatsFollow'
  <2>1. PICK k \in DOMAIN drives[p] :
          /\ \A f \in Files : f # drives[p][k].path => file'[f] = file[f]
          /\ ~Overwrites(drives[p][k]) => file' = file
    BY <1>6, GuestFile
  <2>2. \A f \in Files : file'[f] = file[f] \/ (file[f] # "raw" /\ file'[f] = "raw")
    BY <1>6, GuestFile
  <2>3. Overwrites(drives[p][k]) => "raw" \in FormatsOf(drives[p][k].path)
    BY <1>6, RawAsked DEF GuestWrites
  <2>4. QInv
    OBVIOUS
  <2> HIDE DEF QInv, TypeOK, FormatsFollow, Exists
  <2>5. ASSUME NEW f \in Files, ~conf.overlap
        PROVE  /\ conf.dir[f] # Absent => file'[f] # Absent
               /\ file'[f] # Absent => file'[f] \in FormatsOf(f)
    <3>1. /\ conf.dir[f] # Absent => file[f] # Absent
          /\ file[f] # Absent => file[f] \in FormatsOf(f)
      BY <2>4, <2>5 DEF QInv, FormatsFollow, Exists
    <3>2. CASE file'[f] = file[f]
      BY <3>1, <3>2
    <3>3. CASE file'[f] # file[f]
      <4>1. file'[f] = "raw" /\ f = drives[p][k].path /\ Overwrites(drives[p][k])
        BY <2>1, <2>2, <3>3
      <4> QED
        BY <2>3, <4>1 DEF Absent
    <3> QED
      BY <3>2, <3>3
  <2> QED
    BY <2>5, <1>20 DEF FormatsFollow, Exists
<1>7. ASSUME NEW p \in Proc, GuestStops(p) PROVE FormatsFollow'
  BY <1>7, <1>20 DEF GuestStops
<1>8. ASSUME NEW p \in Proc, Cancel(p) PROVE FormatsFollow'
  BY <1>8, <1>20 DEF Cancel
<1>9. CASE UNCHANGED vars
  BY <1>9, <1>20 DEF vars
<1> QED
  BY <1>1, <1>2, <1>3, <1>4, <1>5, <1>6, <1>7, <1>8, <1>9 DEF Next, Step, Ended

(* A sound run only ends after its guest ran.                               *)
LEMMA BootsFollowStep == QInv /\ [Next]_vars => BootsFollow'
<1> SUFFICES ASSUME QInv, [Next]_vars PROVE BootsFollow'
  OBVIOUS
<1>20. /\ conf' = conf
       /\ \A p \in Proc : Drives(p)' = Drives(p) /\ (Refused(p)' <=> Refused(p)) /\ (Sound(p)' <=> Sound(p))
       /\ \A f \in Files : FormatsOf(f)' = FormatsOf(f)
  BY ConfStays
<1> USE QemuAssumption DEF QInv, TypeOK, BootsFollow, Goto
<1>1. ASSUME NEW p \in Proc, Begin(p) PROVE BootsFollow'
  <2>1. \A q \in Proc : pc'[q] \in {"running", "ended"} => pc[q] = pc'[q] \/ (q = p /\ Refused(p))
    BY <1>1 DEF Begin
  <2>2. ~Refused(p) \/ ~Sound(p)
    BY DEF Sound
  <2> QED
    BY <1>1, <2>1, <2>2, <1>20 DEF Begin
<1>2. ASSUME NEW p \in Proc, Stat(p) PROVE BootsFollow'
  BY <1>2, <1>20 DEF Stat
<1>3. ASSUME NEW p \in Proc, Create(p) PROVE BootsFollow'
  <2>1. ~conf.overlap /\ ~conf.fails /\ Sound(p) => pc'[p] = "stat"
    BY <1>3, SoundCreates, NoneLocked DEF Create
  <2>2. \A q \in Proc : q # p => pc'[q] = pc[q]
    BY <1>3 DEF Create
  <2> QED
    BY <1>3, <2>1, <2>2, <1>20 DEF Create
<1>4. ASSUME NEW p \in Proc, Launch(p) PROVE BootsFollow'
  <2>1. ~conf.overlap /\ ~conf.fails /\ Sound(p) /\ p \notin cancelled => p \in booted'
    <3>1. Sound(p) => ~Flags(p).detached
      BY DEF Sound
    <3>2. ~conf.overlap /\ Sound(p) => Usable(p)
      BY <1>4, SoundUsable DEF Launch
    <3> QED
      BY <1>4, <3>1, <3>2 DEF Launch
  <2>2. \A q \in Proc : q # p => pc'[q] = pc[q]
    BY <1>4 DEF Launch
  <2>3. booted \subseteq booted' /\ cancelled' = cancelled
    BY <1>4 DEF Launch
  <2> QED
    BY <2>1, <2>2, <2>3, <1>20
<1>5. ASSUME NEW p \in Proc, KillQemu(p) PROVE BootsFollow'
  BY <1>5, <1>20 DEF KillQemu
<1>6. ASSUME NEW p \in Proc, GuestWrites(p) PROVE BootsFollow'
  BY <1>6, <1>20 DEF GuestWrites
<1>7. ASSUME NEW p \in Proc, GuestStops(p) PROVE BootsFollow'
  BY <1>7, <1>20 DEF GuestStops
<1>8. ASSUME NEW p \in Proc, Cancel(p) PROVE BootsFollow'
  BY <1>8, <1>20 DEF Cancel
<1>9. CASE UNCHANGED vars
  BY <1>9, <1>20 DEF vars
<1> QED
  BY <1>1, <1>2, <1>3, <1>4, <1>5, <1>6, <1>7, <1>8, <1>9 DEF Next, Step, Ended

------------------------------------------------------------------------------
(* The invariant holds initially and every step keeps it, for any runs with *)
(* any disks.                                                               *)
THEOREM QemuInvariant == Spec => []QInv
<1>1. QInv /\ [Next]_vars => QInv'
  BY TypeOKStep, OneAtATimeStep, WritesFollowStep, CreateFollowsStep, DrivesFollowStep,
     FormatsFollowStep, BootsFollowStep DEF QInv
<1> QED
  BY InitQInv, <1>1, PTL DEF Spec

(* What a guest wrote to a disk is never lost to a later run: qemu-img      *)
(* create only empties a file that was not there, and a guest only writes   *)
(* over a file that was asked for in two formats.                           *)
THEOREM GuestDataIsKept == Spec => GuestDataKept
<1> DEFINE Kept == \A f \in Files : Cardinality(FormatsOf(f)) <= 1 => wrote[f] \subseteq wrote'[f]
<1>1. ASSUME QInv, [Next]_vars, ~conf.overlap PROVE  Kept
  <2> USE <1>1 DEF QInv, TypeOK
  <2>1. ASSUME NEW p \in Proc, Create(p) PROVE Kept
    <3>1. CASE wrote' = wrote
      BY <3>1
    <3>2. CASE wrote' = [wrote EXCEPT ![This(p).path] = {}]
      <4>1. ~Exists(This(p).path)
        BY <2>1 DEF Create, CreateFollows
      <4>2. \A f \in Files : f = This(p).path => wrote[f] = {}
        BY <4>1 DEF WritesFollow
      <4> QED
        BY <3>2, <4>2
    <3> QED
      BY <2>1, <3>1, <3>2 DEF Create
  <2>2. ASSUME NEW p \in Proc, GuestWrites(p) PROVE Kept
    <3>1. PICK k \in DOMAIN drives[p] :
            /\ drives[p][k].path \in Files
            /\ \A f \in Files : f # drives[p][k].path => wrote'[f] = wrote[f]
            /\ ~Overwrites(drives[p][k]) => \A f \in Files : wrote[f] \subseteq wrote'[f]
      BY <2>2, GuestFile
    <3>2. CASE ~Overwrites(drives[p][k])
      BY <3>1, <3>2
    <3>3. CASE Overwrites(drives[p][k])
      <4> DEFINE f0 == drives[p][k].path
      <4>1. "raw" \in FormatsOf(f0)
        BY <2>2, <3>3, RawAsked DEF GuestWrites
      <4>2. file[f0] \in FormatsOf(f0) /\ file[f0] # "raw"
        BY <1>1, <2>2, <3>1, <3>3 DEF GuestWrites, WritesFollow, FormatsFollow, Overwrites
      <4>3. ~(Cardinality(FormatsOf(f0)) <= 1)
        BY <3>1, <4>1, <4>2, OneFormat
      <4> QED
        BY <3>1, <4>3
    <3> QED
      BY <3>2, <3>3
  <2>3. ASSUME NEW p \in Proc,
               Begin(p) \/ Stat(p) \/ Launch(p) \/ KillQemu(p) \/ GuestStops(p) \/ Cancel(p)
        PROVE  Kept
    BY <2>3 DEF Begin, Stat, Launch, KillQemu, GuestStops, Cancel
  <2>4. CASE UNCHANGED vars
    BY <2>4 DEF vars
  <2> QED
    BY <2>1, <2>2, <2>3, <2>4 DEF Next, Step, Ended
<1>2. QInv /\ [Next]_vars => [~conf.overlap => Kept]_vars
  BY <1>1
<1> QED
  BY QemuInvariant, <1>2, PTL DEF Spec, GuestDataKept

(* A run with sound flags boots its guest, whatever disks earlier runs left *)
(* in the directory.                                                        *)
THEOREM SoundBoots == Spec => []SoundRunsBoot
<1>1. QInv => SoundRunsBoot
  BY DEF QInv, BootsFollow, SoundRunsBoot
<1> QED
  BY QemuInvariant, <1>1, PTL

------------------------------------------------------------------------------
(* A run has no more drives than the image and the disks it may be given.   *)
LEMMA DrivesBound ==
    ASSUME TypeOK, NEW p \in Proc, ~Refused(p)
    PROVE  Len(Drives(p)) \in 1 .. MaxDisks + 1
<1>1. conf.runs[p] \in RunType
  BY QemuAssumption DEF TypeOK, ScenarioType
<1>2. PICK n \in 0 .. MaxDisks : Flags(p).disks \in [1 .. n -> DiskSpec]
  BY <1>1 DEF RunType, Flags
<1>3. MaxDisks \in Nat
  BY QemuAssumption DEF MaxDisks
<1> DEFINE image == [path |-> Image, format |-> ""]
           S == {Completed(Flags(p).disks[i], i) : i \in 1 .. n} \cup {image}
<1>4. CompletedDisks(p) \in [1 .. n -> S] /\ image \in S
  BY <1>2 DEF CompletedDisks
<1>5. Drives(p) = <<image>> \o CompletedDisks(p)
  BY DEF Drives
<1> HIDE DEF S, image
<1>6. CompletedDisks(p) \in Seq(S) /\ Len(CompletedDisks(p)) = n
  BY <1>3, <1>4
<1>7. <<image>> \in Seq(S) /\ Len(<<image>>) = 1
  BY <1>4, Single
<1>8. Len(Drives(p)) = 1 + n
  BY <1>5, <1>6, <1>7, ConcatProperties
<1> QED
  BY <1>3, <1>8

(* What is left to do for p: to look at each drive that is left, to create  *)
(* it and to come back, then qemu.                                          *)
Left(p) ==
    CASE pc[p] = "idle" -> 2 * MaxDisks + 6
      [] pc[p] = "stat" -> 2 * (MaxDisks + 1 - at[p]) + 3
      [] pc[p] = "create" -> 2 * (MaxDisks + 1 - at[p]) + 2
      [] pc[p] = "launch" -> 2
      [] pc[p] = "running" -> 1
      [] OTHER -> 0

(* p does something, its guest's end included.                              *)
Goes(p) == Begin(p) \/ Step(p) \/ GuestStops(p)

(* That leaves p less to do; nothing else changes what is left.             *)
GoesOn(p) ==
    IF Goes(p) THEN Left(p) \in 1 .. (2 * MaxDisks + 6) /\ Left(p)' < Left(p) ELSE Left(p)' = Left(p)

(* How far a run is among its drives.                                       *)
LEMMA AtBound ==
    ASSUME QInv, NEW p \in Proc
    PROVE  /\ MaxDisks \in Nat /\ at[p] \in Nat
           /\ pc[p] = "idle" => at[p] = 0
           /\ pc[p] \in {"stat", "create"} => at[p] <= MaxDisks + 1
<1>1. MaxDisks \in Nat
  BY QemuAssumption DEF MaxDisks
<1>2. at[p] \in Nat /\ at[p] <= Len(drives[p]) /\ Len(drives[p]) \in Nat
  BY DriveType DEF QInv
<1>3. pc[p] \in {"stat", "create"} => Len(drives[p]) \in 1 .. MaxDisks + 1
  BY DrivesBound DEF QInv, DrivesFollow
<1>4. pc[p] = "idle" => at[p] = 0
  BY DEF QInv, CreateFollows
<1> QED
  BY <1>1, <1>2, <1>3, <1>4

(* A run is over after at most 2 * MaxDisks + 6 steps of its own, whatever  *)
(* fails, whatever is in its directory and however many runs share it: a    *)
(* run that does not end waits for its guest.                               *)
THEOREM RunsGoOn == Spec => [][\A p \in Proc : GoesOn(p)]_vars
<1>1. ASSUME QInv, NEW p \in Proc, Goes(p)
      PROVE  Left(p) \in 1 .. (2 * MaxDisks + 6) /\ Left(p)' < Left(p)
  <2>1. /\ MaxDisks \in Nat /\ at[p] \in Nat
        /\ pc[p] = "idle" => at[p] = 0
        /\ pc[p] \in {"stat", "create"} => at[p] <= MaxDisks + 1
    BY <1>1, AtBound
  <2>2. /\ pc \in [Proc -> {"idle", "stat", "create", "launch", "running", "ended"}]
        /\ at \in [Proc -> Nat]
    BY <1>1 DEF QInv, TypeOK
  <2>3. CASE Begin(p)
    <3>1. pc[p] = "idle" /\ pc'[p] \in {"ended", "stat"} /\ at' = at
      BY <2>2, <2>3 DEF Begin, Goto
    <3>2. Left(p) = 2 * MaxDisks + 6
      BY <3>1 DEF Left
    <3>3. pc'[p] = "stat" => Left(p)' = 2 * (MaxDisks + 1 - at[p]) + 3
      BY <3>1 DEF Left
    <3>4. pc'[p] = "ended" => Left(p)' = 0
      BY DEF Left
    <3> QED
      BY <2>1, <3>1, <3>2, <3>3, <3>4
  <2>8. pc[p] \in {"stat", "create"} => MaxDisks + 1 - at[p] \in 0 .. MaxDisks + 1
    BY ONLY <2>1
  <2> DEFINE r == MaxDisks + 1 - at[p]
  <2>4. CASE Stat(p)
    <3>1. pc[p] = "stat" /\ Left(p) = 2 * r + 3 /\ r \in 0 .. MaxDisks + 1
      BY <2>4, <2>8 DEF Stat, Left
    <3>2. CASE pc'[p] = "launch"
      <4>1. Left(p)' = 2
        BY <3>2 DEF Left
      <4> HIDE DEF r
      <4> QED
        BY ONLY <2>1, <3>1, <4>1
    <3>3. CASE pc' = pc /\ at'[p] = at[p] + 1
      <4>1. Left(p)' = 2 * (MaxDisks + 1 - (at[p] + 1)) + 3
        BY <3>1, <3>3 DEF Left
      <4>2. MaxDisks + 1 - (at[p] + 1) = r - 1
        BY ONLY <2>1
      <4> HIDE DEF r
      <4> QED
        BY ONLY <2>1, <3>1, <4>1, <4>2
    <3>4. CASE pc'[p] = "create" /\ at' = at
      <4>1. Left(p)' = 2 * r + 2
        BY <3>4 DEF Left
      <4> HIDE DEF r
      <4> QED
        BY ONLY <2>1, <3>1, <4>1
    <3>5. CASE pc'[p] = "ended"
      <4>1. Left(p)' = 0
        BY <3>5 DEF Left
      <4> HIDE DEF r
      <4> QED
        BY ONLY <2>1, <3>1, <4>1
    <3> HIDE DEF r
    <3> QED
      BY <2>2, <2>4, <3>2, <3>3, <3>4, <3>5 DEF Stat, Goto
  <2>5. CASE Create(p)
    <3>1. pc[p] = "create" /\ Left(p) = 2 * r + 2 /\ r \in 0 .. MaxDisks + 1
      BY <2>5, <2>8 DEF Create, Left
    <3>2. CASE pc'[p] = "stat" /\ at'[p] = at[p] + 1
      <4>1. Left(p)' = 2 * (MaxDisks + 1 - (at[p] + 1)) + 3
        BY <3>2 DEF Left
      <4>2. MaxDisks + 1 - (at[p] + 1) = r - 1
        BY ONLY <2>1
      <4> HIDE DEF r
      <4> QED
        BY ONLY <2>1, <3>1, <4>1, <4>2
    <3>3. CASE pc'[p] = "ended"
      <4>1. Left(p)' = 0
        BY <3>3 DEF Left
      <4> HIDE DEF r
      <4> QED
        BY ONLY <2>1, <3>1, <4>1
    <3> HIDE DEF r
    <3> QED
      BY <2>2, <2>5, <3>2, <3>3 DEF Create, Goto
  <2>6. CASE Launch(p)
    <3>1. pc[p] = "launch" /\ pc'[p] \in {"running", "ended"}
      BY <2>2, <2>6 DEF Launch, Goto
    <3>2. Left(p) = 2 /\ Left(p)' \in {0, 1}
      BY <3>1 DEF Left
    <3> QED
      BY <2>1, <3>2
  <2>7. CASE KillQemu(p) \/ GuestStops(p)
    <3>1. pc[p] = "running" /\ pc'[p] = "ended"
      BY <2>2, <2>7 DEF KillQemu, GuestStops, Goto
    <3>2. Left(p) = 1 /\ Left(p)' = 0
      BY <3>1 DEF Left
    <3> QED
      BY <2>1, <3>2
  <2> QED
    BY <1>1, <2>3, <2>4, <2>5, <2>6, <2>7 DEF Goes, Step
<1>2. ASSUME QInv, NEW p \in Proc, NEW q \in Proc, Goes(q), q # p
      PROVE  Left(p)' = Left(p)
  <2>1. pc'[p] = pc[p] /\ at'[p] = at[p]
    BY <1>2 DEF Goes, Step, Begin, Stat, Create, Launch, KillQemu, GuestStops, Goto, QInv, TypeOK
  <2> QED
    BY <2>1 DEF Left
<1>3. ASSUME NEW p \in Proc, (\E q \in Proc : GuestWrites(q) \/ Cancel(q)) \/ Ended \/ UNCHANGED vars
      PROVE  Left(p)' = Left(p)
  <2>1. UNCHANGED <<pc, at>>
    BY <1>3 DEF GuestWrites, Cancel, Ended, vars
  <2> QED
    BY <2>1 DEF Left
<1>4. QInv /\ [Next]_vars => [\A p \in Proc : GoesOn(p)]_vars
  <2> SUFFICES ASSUME QInv, [Next]_vars, NEW p \in Proc PROVE GoesOn(p)
    OBVIOUS
  <2>1. CASE \E q \in Proc : Goes(q)
    BY <1>1, <1>2, <2>1 DEF GoesOn
  <2>2. CASE (\E q \in Proc : GuestWrites(q) \/ Cancel(q)) \/ Ended \/ UNCHANGED vars
    BY <1>1, <1>3, <2>2 DEF GoesOn
  <2> QED
    BY <2>1, <2>2 DEF Next, Goes
<1> QED
  BY QemuInvariant, <1>4, PTL DEF Spec
=============================================================================
