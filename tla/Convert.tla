------------------------------- MODULE Convert -------------------------------
(***************************************************************************)
(* The build and convert commands (cmd/d2vm/build.go, convert.go) around   *)
(* d2vm.Convert (convert.go): flags are checked, an image is built or      *)
(* pulled, a kernel-enabled image is derived from it, a disk is built in a *)
(* temporary directory, replaces the output file, and is optionally made a *)
(* container disk.  Deferred calls then remove what was temporary.         *)
(*                                                                         *)
(* Several runs may share a host and be given the same output path: what   *)
(* one read in validateFlags may have changed when it replaces the file.   *)
(* The disk build is one step, with the outcomes BuildContract allows.     *)
(***************************************************************************)

CONSTANTS
    Proc,        \* the runs of d2vm, all with the same output path
    Old,         \* the file that was at the output path before any of them
    Scenarios    \* the runs launched, each with its flags and where it runs

Steps == {"validate", "prepare", "mkTmp", "inspect", "vmImage", "newBuilder", "build",
          "removeOld", "create", "copy", "removeSource", "closeFile", "close", "removeVM",
          "removeTmp", "chown", "makeDisk", "push"}

(* flaky: the steps that may fail by themselves where the run runs;         *)
(* interrupts: whether it may be interrupted                                *)
RunType == [cmd : {"build", "convert"}, force : BOOLEAN, keepCache : BOOLEAN,
            disk : BOOLEAN, push : BOOLEAN, flaky : SUBSET Steps, interrupts : BOOLEAN]

NoFile == "nofile"
Files == Proc \cup {Old}

ASSUME ConvertAssumption ==
    /\ \A s \in Scenarios : DOMAIN s \subseteq Proc /\ s \in [DOMAIN s -> RunType]
    /\ Old \notin Proc /\ NoFile \notin Files

VARIABLES
    conf,        \* conf[p]: the flags of p and where it runs, if it is launched
    pc,          \* pc[p]: the step p is about to take
    err,         \* the runs that failed
    cancelled,   \* the runs whose context is cancelled
    images,      \* docker tags created: <<p, "base">> and <<p, "vm">>
    removes,     \* the runs that deferred docker.Remove of their "vm" tag
    tmp,         \* the runs whose temporary directory exists
    stuck,       \* the runs whose directory a failed build left busy
    vmDisk,      \* the runs whose temporary directory holds a complete image
    path,        \* the file at the output path
    body,        \* body[f]: the runs whose bytes are in file f
    whole,       \* the runs that copied their image to the end
    fd,          \* fd[p]: the file p created or truncated
    diskTag,     \* what the container disk image was made from
    pushed       \* what was pushed to the registry

host == <<images, removes, tmp, stuck>>
files == <<vmDisk, path, body, whole, fd>>
registry == <<diskTag, pushed>>
vars == <<conf, pc, err, cancelled, images, removes, tmp, stuck, vmDisk, path, body, whole,
          fd, diskTag, pushed>>

------------------------------------------------------------------------------
Launched == DOMAIN conf

Flaky(p) == conf[p].flaky
MayCancel(p) == conf[p].interrupts

Live(p) == p \notin cancelled

Goto(p, next) == pc' = [pc EXCEPT ![p] = next]

Proceed(p, next) == Goto(p, next) /\ UNCHANGED <<err, cancelled>>

Fail(p, next) == Goto(p, next) /\ err' = err \cup {p}

(* A command refused: it fails by itself, or its context is cancelled. *)
Refused(p, c) == (c \in Flaky(p) \/ ~Live(p)) /\ UNCHANGED cancelled

(* A command killed by the interrupt after it took effect. *)
Killed(p) == MayCancel(p) /\ Live(p) /\ cancelled' = cancelled \cup {p}

(* A command without effect on the state of the model. *)
Command(p, c, next, onError) ==
    /\ pc[p] = c
    /\ \/ Live(p) /\ Proceed(p, next)
       \/ (Refused(p, c) \/ Killed(p)) /\ Fail(p, onError)

Tagged(p, kind) == images' = images \cup {<<p, kind>>}

------------------------------------------------------------------------------
Init ==
    /\ conf \in Scenarios
    /\ pc = [p \in Proc |-> "validate"]
    /\ err = {} /\ cancelled = {}
    /\ images = {} /\ removes = {} /\ tmp = {} /\ stuck = {}
    /\ vmDisk = {} /\ whole = {}
    /\ path \in {NoFile, Old}
    /\ body = [f \in Files |-> {}]
    /\ fd = [p \in Proc |-> NoFile]
    /\ diskTag = {} /\ pushed = {}

(* Mutant: the file that exists is not looked for.                          *)
ValidateBlindly(p) ==
    /\ pc[p] = "validate"
    /\ Proceed(p, "prepare")
    /\ UNCHANGED <<conf, host, files, registry>>

(* Mutant: --force removes the old output as soon as the flags are read.    *)
ValidateRemovesOld(p) ==
    /\ pc[p] = "validate"
    /\ IF path # NoFile /\ ~conf[p].force
       THEN Fail(p, "ended") /\ UNCHANGED <<cancelled, path>>
       ELSE Proceed(p, "prepare") /\ path' = NoFile
    /\ UNCHANGED <<conf, host, vmDisk, body, whole, fd, registry>>

(* validateFlags: an output that exists is refused without --force *)
Validate(p) ==
    /\ pc[p] = "validate"
    /\ IF path # NoFile /\ ~conf[p].force
       THEN Fail(p, "ended") /\ UNCHANGED cancelled
       ELSE \/ Proceed(p, "prepare")
            \/ "validate" \in Flaky(p) /\ Fail(p, "ended") /\ UNCHANGED cancelled
    /\ UNCHANGED <<conf, host, files, registry>>

(* build: docker.Build tags the image of the user's Dockerfile; convert:    *)
(* an image found or pulled, which stays the user's.                        *)
Prepare(p) ==
    /\ Command(p, "prepare", "mkTmp", "ended")
    /\ \/ conf[p].cmd = "build" /\ (p \notin err' \/ Killed(p)) /\ Tagged(p, "base")
       \/ conf[p].cmd = "build" /\ p \in err' /\ UNCHANGED images
       \/ conf[p].cmd = "convert" /\ UNCHANGED images
    /\ UNCHANGED <<conf, removes, tmp, stuck, files, registry>>

(* os.MkdirAll of the temporary directory; its removal is deferred *)
MkTmp(p) ==
    /\ pc[p] = "mkTmp"
    /\ \/ tmp' = tmp \cup {p} /\ Proceed(p, "inspect")
       \/ "mkTmp" \in Flaky(p) /\ tmp' = tmp /\ Fail(p, "ended") /\ UNCHANGED cancelled
    /\ UNCHANGED <<conf, images, removes, stuck, files, registry>>

(* Mutant: the removal of the directory is deferred after the checks.       *)
InspectBeforeDefer(p) ==
    /\ Command(p, "inspect", "vmImage", "ended")
    /\ UNCHANGED <<conf, host, files, registry>>

(* FetchDockerImageOSRelease, the LUKS check and NewDockerfile *)
Inspect(p) ==
    /\ Command(p, "inspect", "vmImage", "removeTmp")
    /\ UNCHANGED <<conf, host, files, registry>>

(* docker.Build (or Tag, for --raw) of the kernel enabled image; its        *)
(* removal is deferred once that succeeded, unless --keep-cache.            *)
VMImage(p) ==
    /\ Command(p, "vmImage", "newBuilder", "removeTmp")
    /\ \/ /\ p \notin err' /\ Tagged(p, "vm")
          /\ removes' = (IF conf[p].keepCache THEN removes ELSE removes \cup {p})
       \/ p \in err' /\ Killed(p) /\ Tagged(p, "vm") /\ UNCHANGED removes
       \/ p \in err' /\ UNCHANGED <<images, removes>>
    /\ UNCHANGED <<conf, tmp, stuck, files, registry>>

(* NewBuilder checks the configuration and saves the image's layers *)
NewBuilder(p) ==
    /\ Command(p, "newBuilder", "build", "removeVM")
    /\ UNCHANGED <<conf, host, files, registry>>

(* Build, by its contract: success is a complete image and nothing held; a  *)
(* failure may leave mounts that keep the directory busy.                   *)
Build(p) ==
    /\ Command(p, "build", "removeOld", "close")
    /\ vmDisk' = IF p \in err' THEN vmDisk ELSE vmDisk \cup {p}
    /\ IF p \in err' THEN stuck' \in {stuck, stuck \cup {p}} ELSE stuck' = stuck
    /\ UNCHANGED <<conf, images, removes, tmp, path, body, whole, fd, registry>>

(* os.RemoveAll(o.output) *)
RemoveOld(p) ==
    /\ pc[p] = "removeOld"
    /\ \/ path' = NoFile /\ Proceed(p, "create")
       \/ "removeOld" \in Flaky(p) /\ path' = path /\ Fail(p, "close") /\ UNCHANGED cancelled
    /\ UNCHANGED <<conf, host, vmDisk, body, whole, fd, registry>>

(* Mutant: MoveFile goes on when the file cannot be created.                *)
CreateDropsError(p) ==
    /\ pc[p] = "create"
    /\ \/ /\ path' = (IF path = NoFile THEN p ELSE path)
          /\ body' = [body EXCEPT ![path'] = {}]
          /\ fd' = [fd EXCEPT ![p] = path']
       \/ "create" \in Flaky(p) /\ UNCHANGED <<path, body, fd>>
    /\ Proceed(p, "copy")
    /\ UNCHANGED <<conf, host, vmDisk, whole, registry>>

(* Mutant: a file that came back is removed, and written to all the same.   *)
CreateRemoves(p) ==
    /\ pc[p] = "create"
    /\ \/ /\ path' = (IF path = NoFile THEN p ELSE NoFile)
          /\ fd' = [fd EXCEPT ![p] = IF path = NoFile THEN p ELSE path]
          /\ body' = [body EXCEPT ![fd'[p]] = {}]
          /\ Proceed(p, "copy")
       \/ /\ "create" \in Flaky(p) /\ Fail(p, "close")
          /\ UNCHANGED <<cancelled, path, body, fd>>
    /\ UNCHANGED <<conf, host, vmDisk, whole, registry>>

(* MoveFile: os.Create truncates a file that came back meanwhile *)
Create(p) ==
    /\ pc[p] = "create"
    /\ \/ /\ path' = (IF path = NoFile THEN p ELSE path)
          /\ body' = [body EXCEPT ![path'] = {}]
          /\ fd' = [fd EXCEPT ![p] = path']
          /\ Proceed(p, "copy")
       \/ /\ "create" \in Flaky(p) /\ Fail(p, "close")
          /\ UNCHANGED <<cancelled, path, body, fd>>
    /\ UNCHANGED <<conf, host, vmDisk, whole, registry>>

(* Mutant: the error of the copy is dropped, as that of Close is.           *)
CopyDropsError(p) ==
    /\ pc[p] = "copy"
    /\ body' = [body EXCEPT ![fd[p]] = @ \cup {p}]
    /\ whole' \in {whole \cup {p}} \cup (IF "copy" \in Flaky(p) THEN {whole} ELSE {})
    /\ Proceed(p, "removeSource")
    /\ UNCHANGED <<conf, host, vmDisk, path, fd, registry>>

(* sparsecat copies to the open file, wherever its name is by now *)
Copy(p) ==
    /\ pc[p] = "copy"
    /\ body' = [body EXCEPT ![fd[p]] = @ \cup {p}]
    /\ \/ whole' = whole \cup {p} /\ Proceed(p, "removeSource")
       \/ "copy" \in Flaky(p) /\ whole' = whole /\ Fail(p, "close") /\ UNCHANGED cancelled
    /\ UNCHANGED <<conf, host, vmDisk, path, fd, registry>>

(* Mutant: MoveFile returns nil whatever os.Remove said, and goes on as if  *)
(* the copy had to be done again.                                           *)
RemoveSourceRetries(p) ==
    /\ pc[p] = "removeSource"
    /\ \/ vmDisk' = vmDisk \ {p} /\ Proceed(p, "closeFile")
       \/ "removeSource" \in Flaky(p) /\ vmDisk' = vmDisk /\ Proceed(p, "copy")
    /\ UNCHANGED <<conf, host, path, body, whole, fd, registry>>

(* os.Remove(sourcePath) *)
RemoveSource(p) ==
    /\ pc[p] = "removeSource"
    /\ \/ vmDisk' = vmDisk \ {p} /\ Proceed(p, "closeFile")
       \/ "removeSource" \in Flaky(p) /\ vmDisk' = vmDisk /\ Fail(p, "close") /\ UNCHANGED cancelled
    /\ UNCHANGED <<conf, host, path, body, whole, fd, registry>>

(* MoveFile's deferred outputFile.Close, after the source is gone: what it  *)
(* could not write is missing, and nobody hears of it.                      *)
CloseFile(p) ==
    /\ pc[p] = "closeFile"
    /\ Proceed(p, "close")
    /\ whole' \in {whole} \cup (IF "closeFile" \in Flaky(p) THEN {whole \ {p}} ELSE {})
    /\ UNCHANGED <<conf, host, vmDisk, path, body, fd, registry>>

------------------------------------------------------------------------------
(* Convert's deferred calls; their errors are dropped.                      *)

(* b.Close, then os.RemoveAll(tmpPath): the same directory.  A removal that  *)
(* fails half way may or may not have reached the image.                    *)
RemoveDir(p) ==
    /\ \/ pc[p] = "close" /\ Proceed(p, "removeVM")
       \/ pc[p] = "removeTmp" /\ Proceed(p, IF p \in err THEN "ended" ELSE "chown")
    /\ \/ p \notin stuck /\ tmp' = tmp \ {p} /\ vmDisk' = vmDisk \ {p}
       \/ (p \in stuck \/ pc[p] \in Flaky(p))
          /\ tmp' = tmp /\ vmDisk' \in {vmDisk, vmDisk \ {p}}
    /\ UNCHANGED <<conf, images, removes, stuck, path, body, whole, fd, registry>>

(* Mutant: the removal of the image is not deferred but follows a success.  *)
RemoveVMOnSuccess(p) ==
    /\ pc[p] = "removeVM"
    /\ images' = (IF p \in removes \ err THEN images \ {<<p, "vm">>} ELSE images)
    /\ Proceed(p, "removeTmp")
    /\ UNCHANGED <<conf, removes, tmp, stuck, files, registry>>

(* docker.Remove(ctx, imgUUID), under the context of the run *)
RemoveVM(p) ==
    /\ pc[p] = "removeVM"
    /\ Goto(p, "removeTmp") /\ UNCHANGED err
    /\ \/ /\ p \in removes
          /\ (Live(p) /\ UNCHANGED cancelled) \/ Killed(p)
          /\ images' = images \ {<<p, "vm">>}
       \/ p \in removes /\ Refused(p, "removeVM") /\ UNCHANGED images
       \/ p \notin removes /\ UNCHANGED <<images, cancelled>>
    /\ UNCHANGED <<conf, removes, tmp, stuck, files, registry>>

------------------------------------------------------------------------------
(* sudoUser's os.Chown of the output *)
Chown(p) ==
    /\ pc[p] = "chown"
    /\ \/ Proceed(p, IF conf[p].disk THEN "makeDisk" ELSE "ended")
       \/ (path = NoFile \/ "chown" \in Flaky(p)) /\ Fail(p, "ended") /\ UNCHANGED cancelled
    /\ UNCHANGED <<conf, host, files, registry>>

(* MakeContainerDisk: a copy of what is at the output path now is built     *)
(* into an image; its own temporary directory never outlives it.            *)
MakeDisk(p) ==
    /\ pc[p] = "makeDisk"
    /\ \/ /\ path # NoFile /\ Live(p)
          /\ diskTag' = body[path]
          /\ Proceed(p, IF conf[p].push THEN "push" ELSE "ended")
       \/ /\ (path = NoFile /\ UNCHANGED cancelled) \/ Refused(p, "makeDisk")
          /\ UNCHANGED diskTag
          /\ Fail(p, "ended")
       \/ /\ path # NoFile /\ Killed(p) /\ diskTag' = body[path]
          /\ Fail(p, "ended")
    /\ UNCHANGED <<conf, host, files, pushed>>

Push(p) ==
    /\ pc[p] = "push"
    /\ \/ Live(p) /\ pushed' = diskTag /\ Proceed(p, "ended")
       \/ Killed(p) /\ pushed' \in {pushed, diskTag} /\ Fail(p, "ended")
       \/ Refused(p, "push") /\ pushed' = pushed /\ Fail(p, "ended")
    /\ UNCHANGED <<conf, host, files, diskTag>>

(* The first interrupt cancels the context of a run. *)
Cancel(p) ==
    /\ MayCancel(p) /\ Live(p) /\ pc[p] # "ended"
    /\ cancelled' = cancelled \cup {p}
    /\ UNCHANGED <<conf, pc, err, host, files, registry>>

Step(p) ==
    \/ Validate(p) \/ Prepare(p) \/ MkTmp(p) \/ Inspect(p) \/ VMImage(p) \/ NewBuilder(p)
    \/ Build(p) \/ RemoveOld(p) \/ Create(p) \/ Copy(p) \/ RemoveSource(p)
    \/ CloseFile(p) \/ RemoveDir(p) \/ RemoveVM(p) \/ Chown(p) \/ MakeDisk(p) \/ Push(p)

Run(p) == p \in Launched /\ Step(p)

Ended == (\A p \in Launched : pc[p] = "ended") /\ UNCHANGED vars

Next == (\E p \in Launched : Step(p) \/ Cancel(p)) \/ Ended

(* Each run is a process of its own that goes on by itself. *)
Spec == Init /\ [][Next]_vars /\ \A p \in Proc : WF_vars(Run(p))

------------------------------------------------------------------------------
(* Properties                                                               *)

TypeOK ==
    /\ conf \in Scenarios
    /\ pc \in [Proc -> Steps \cup {"ended"}]
    /\ err \subseteq Proc /\ cancelled \subseteq Proc
    /\ removes \subseteq Proc /\ tmp \subseteq Proc /\ stuck \subseteq Proc
    /\ vmDisk \subseteq Proc /\ whole \subseteq Proc
    /\ diskTag \subseteq Proc /\ pushed \subseteq Proc
    /\ images \subseteq Proc \X {"base", "vm"}
    /\ path \in Files \cup {NoFile}
    /\ body \in [Files -> SUBSET Proc]
    /\ fd \in [Proc -> Files \cup {NoFile}]
    /\ \A p \in Proc : pc[p] = "copy" => fd[p] \in Files

EndedWell(p) == p \in Launched /\ pc[p] = "ended" /\ p \notin err

(* A run alone on its output that reports success left its whole image      *)
(* there, and made and pushed the container disk it was asked for of it: if *)
(* no write fails so late that only Close tells (convert.go:118).           *)
SuccessMeansOwnImage ==
    \A p \in Launched :
        Launched = {p} /\ EndedWell(p) /\ "closeFile" \notin Flaky(p) =>
        /\ path # NoFile /\ body[path] = {p} /\ p \in whole
        /\ conf[p].disk => diskTag = {p}
        /\ conf[p].disk /\ conf[p].push => pushed = {p}

(* The file that was at the output path is only given up by a run that has  *)
(* a complete image to replace it with (convert.go:96-99), --force or not.  *)
OldOutputOutlivesBuild ==
    [][path = Old /\ path' # Old =>
         \E p \in vmDisk \ err : pc[p] = "removeOld" /\ pc'[p] = "create"]_vars

(* Without --force (flags.go:99, flags.go:116) a run never removes or       *)
(* truncates a file it did not create.                                      *)
NoOverwriteWithoutForce ==
    [][\A p \in Launched :
         pc'[p] # pc[p] /\ ~conf[p].force /\ path \notin {NoFile, p} =>
             path' = path /\ body'[path] = body[path]]_vars

(* The file that was there before stays as it was, if no run has --force.   *)
OldOutputKept ==
    [][(\A p \in Launched : ~conf[p].force) /\ path = Old =>
         path' = Old /\ body'[Old] = body[Old]]_vars

(* The file at the output path is p's, nobody else wrote to it, and it is   *)
(* whole unless a write failed as late as Close.                            *)
Published(p) ==
    /\ \E f \in Files : path = f /\ fd[p] = f /\ body[f] = {p}
    /\ p \in Launched /\ ("closeFile" \notin Flaky(p) => p \in whole)

(* p is done, its file is at the output path, and every other run is done   *)
(* with a file of its own or, without --force, still to look at the path.   *)
Settled(p) ==
    /\ EndedWell(p) /\ path = fd[p]
    /\ \A q \in Launched \ {p} :
         \/ pc[q] = "validate" /\ ~conf[q].force
         \/ pc[q] = "ended" /\ fd[q] # fd[p]

(* An output finished before the other runs without --force look at the     *)
(* path (flags.go:99, flags.go:116) stays there, whole, whatever they do.   *)
SequentialRunsSafe == \A p \in Proc : [](Settled(p) => []Published(p))

(* When every run reports success, racing or not, there is an output.       *)
SuccessLeavesAFile == Launched # {} /\ (\A p \in Launched : EndedWell(p)) => path # NoFile

(* A run that failed only unwinds; one that replaces the output holds a     *)
(* complete image until it is done.                                         *)
ReplacesWithImage ==
    \A p \in Proc :
        /\ p \in err => pc[p] \in {"close", "removeVM", "removeTmp", "ended"}
        /\ pc[p] \in {"removeOld", "create", "copy", "removeSource"} => p \in vmDisk

(* Nothing of the temporary directory stays, whichever return is taken      *)
(* after convert.go:41 and also when b.Close failed to remove it, unless a  *)
(* failed disk build left it mounted or the last os.RemoveAll fails itself. *)
TmpCollected ==
    \A p \in tmp : pc[p] = "ended" => p \in stuck \/ "removeTmp" \in Flaky(p)

(* Without --keep-cache the kernel-enabled image is removed when the run    *)
(* ends, whatever failed, if nobody interrupted it and docker rmi works.    *)
VMImageCollected ==
    \A p \in Launched :
        ~MayCancel(p) /\ "removeVM" \notin Flaky(p) /\ pc[p] = "ended" /\ ~conf[p].keepCache =>
            <<p, "vm">> \notin images

(* Without --keep-cache no image made for the run is kept.                  *)
ImagesCollected ==
    \A p \in Launched : pc[p] = "ended" /\ ~conf[p].keepCache =>
        images \cap ({p} \X {"base", "vm"}) = {}

(* Every run ends, whatever fails, with or without an interrupt.            *)
Terminates == \A p \in Proc : <>(p \in Launched => pc[p] = "ended")
------------------------------------------------------------------------------
(* The inductive invariant behind the safety properties (ConvertProofs).    *)

(* A run's directory exists from MkTmp until the last of its deferred calls *)
(* had a chance to remove it.                                               *)
TmpFollows ==
    \A p \in tmp \ stuck : "removeTmp" \notin Flaky(p) =>
        pc[p] \notin {"validate", "prepare", "mkTmp", "chown", "makeDisk", "push", "ended"}

(* Only some runs are interrupted; an image that will not be kept has its   *)
(* removal deferred, and that is still to come.                             *)
VMFollows ==
    \A p \in Launched :
        /\ p \in cancelled => MayCancel(p)
        /\ <<p, "vm">> \in images /\ ~MayCancel(p) /\ "removeVM" \notin Flaky(p)
              /\ ~conf[p].keepCache =>
             /\ p \in removes
             /\ pc[p] \in {"newBuilder", "build", "removeOld", "create", "copy",
                           "removeSource", "closeFile", "close", "removeVM"}

ToCreate == {"validate", "prepare", "mkTmp", "inspect", "vmImage", "newBuilder", "build",
             "removeOld", "create"}

(* While there is no output, a run failed or is still to create one.        *)
FileFollows ==
    path = NoFile /\ Launched # {} => \E p \in Launched : p \in err \/ pc[p] \in ToCreate

(* A run alone finds the path as it left it, and no other bytes there.      *)
AloneFollows ==
    \A p \in Launched : Launched = {p} /\ p \notin err =>
        /\ pc[p] = "create" => path = NoFile
        /\ pc[p] = "copy" => path \in Files /\ fd[p] = path /\ body[path] = {}
        /\ pc[p] \notin ToCreate \cup {"copy"} =>
             /\ path \in Files /\ body[path] = {p}
             /\ "closeFile" \notin Flaky(p) => p \in whole
        /\ pc[p] \in {"makeDisk", "push"} => conf[p].disk
        /\ pc[p] = "push" => conf[p].push
        /\ pc[p] \in {"push", "ended"} /\ conf[p].disk => diskTag = {p}
        /\ pc[p] = "ended" /\ conf[p].disk /\ conf[p].push => pushed = {p}

(* The old output is there until a run is given --force, and keeps the     *)
(* others from starting.                                                    *)
OldFollows ==
    (\A p \in Launched : ~conf[p].force) /\ path = Old =>
        \A p \in Launched : pc[p] \in {"validate", "ended"}

(* Only the runs that opened a file left bytes in it, each run opens one    *)
(* once, and a run that copied has its bytes there unless another run       *)
(* opened the same file.                                                    *)
BytesFollow ==
    /\ \A f \in Files : body[f] \subseteq {q \in Launched : fd[q] = f}
    /\ \A p \in Launched :
         /\ pc[p] \in ToCreate => fd[p] = NoFile
         /\ p \notin err /\ pc[p] \notin ToCreate => fd[p] \in Files
         /\ p \notin err /\ pc[p] \notin ToCreate \cup {"copy"} =>
              /\ p \in body[fd[p]] \/ \E q \in Launched \ {p} : fd[q] = fd[p]
              /\ "closeFile" \notin Flaky(p) => p \in whole

CInv ==
    /\ TypeOK
    /\ ReplacesWithImage
    /\ TmpFollows
    /\ VMFollows
    /\ FileFollows
    /\ AloneFollows
    /\ OldFollows
    /\ BytesFollow
==============================================================================
