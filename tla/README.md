# d2vm in TLA+

d2vm turns a container image into a disk image of a virtual machine.  It does so by
running some thirty external commands as root (`losetup`, `kpartx`, `cryptsetup`, `mount`,
`docker`, `qemu-img`, ...), any of which may fail, and any of which a Ctrl-C may kill.
What is hard in it is seldom the forward path: it is what is left on the host, in docker,
at the output path or in the cloud when something goes wrong half way.  These modules
describe that, and a few decisions that are spread over several layers of the program.

All paths are relative to the repository root.

## 1. The system

| component | code | state it keeps | operations | talks to |
|---|---|---|---|---|
| disk builder | `builder.go`, `fs.go` | raw file, loop device, partition maps, LUKS mapping, mounts, handles of them | `NewBuilder`, `Build` (`cleanUp`, `makeImg`, `mountImg`, `copyRootFS`, `setupRootFS`, bootloader, `unmountImg`, `convert2Img`), `Close` | kernel, `qemu-img`, bootloaders |
| bootloaders | `grub*.go`, `syslinux.go`, `bootloader.go` | bind mounts of `/dev`, `/proc`, `/sys` in the image | `New`, `Validate`, `Setup` (`prepare`, `install`, `mkconfig`, `clean`) | builder, `chroot` |
| conversion | `convert.go` | temporary directory, kernel-enabled docker image, output file | `Convert`, `MoveFile` | docker, builder |
| container image | `docker_image.go` | a container's file system in the work directory | `NewImage`, `Flatten`, `Close` | docker |
| container disk | `container_disk.go`, `cmd/d2vm/container_disk.go` | an image tag, what was pushed | `MakeContainerDisk`, push | docker |
| build and convert commands | `cmd/d2vm/build.go`, `convert.go`, `flags.go` | flags, image of the user's Dockerfile | `validateFlags`, the two commands | conversion |
| entry | `cmd/d2vm/main.go`, `run.go` | the context an interrupt cancels | `main`, `sudoUser` | everything |
| distributions | `os_release.go`, `config.go` | none | `FetchDockerImageOSRelease`, `SupportsLUKS`, `Supported`, `Config` | docker |
| Dockerfile templates | `dockerfile.go`, `templates/` | none | `NewDockerfile`, `Render` | conversion |
| command execution | `pkg/exec` | none | `Run`, `RunOut`, ... | processes |
| docker client, qemu-img wrapper | `pkg/docker`, `pkg/qemu_img` | images, tags, files | `Build`, `Tag`, `Remove`, `Push`, `Convert`, `Info` | daemons |
| run on Hetzner | `cmd/d2vm/run/hetzner.go` | a server, its disk, an ssh connection, a converted image, two goroutines | `runHetzner` | cloud API, ssh |
| run on VirtualBox | `cmd/d2vm/run/vbox.go` | a registered machine, its power and disks, the console socket, a converted image | `vbox`, `cleanup` | `VBoxManage`, `qemu-img` |
| run on qemu | `cmd/d2vm/run/qemu.go`, `pkg/qemu` | the disks in the working directory, a process | `Qemu`, `Run`, `runQemuLocal` | `qemu-img`, qemu |
| run helpers | `cmd/d2vm/run/util.go` | none | `--disk` and `--publish` flags, ssh dialing, progress | |

Interactions: the commands call `Convert`, which calls docker, then `NewBuilder`, `Build`
and `Close`; one context runs through all of it and is cancelled by a goroutine of `main`
when a signal arrives.  Two runs of d2vm share the host: the output path, the docker
daemon, the kernel's loop devices, the machine of VirtualBox, the disks in a directory.

What is hard here, and what correctness is for each part:

* **disk builder**: a stack of kernel resources taken over ten functions and given back by
  three overlapping cleanup paths, under two contexts.  The image must not be copied from
  a mounted disk; a success leaves nothing; a failure gives everything back; what a build
  leaks is known.
* **conversion and commands**: six deferred calls, a check of the output path minutes
  before its use, a move that may fail half way, other runs at the same path.  A success
  is the run's own image; the old output is not given up early; temporary things go away.
* **checks of a request**: made in four layers, before and after two docker builds.  The
  late layers must not reject what the early one completed; what is accepted fits together.
* **Hetzner**: asynchronous actions of a cloud, two goroutines and a channel, deferred
  calls registered along the way.  No server is forgotten or deleted too early, the
  partition is not grown while it is written, and the program ends.
* **VirtualBox**: a machine with a fixed name that outlives the program, cleaned up by
  commands whose errors are dropped, before the run and after it; `unregistervm --delete`
  deletes what is still attached.  The machine that runs has the run's own disks; no file
  of the user is deleted; what stays registered or running is known.
* **qemu**: disks that are created if they do not exist, in a directory that other runs
  used.  A sound request boots whatever it finds there; what a guest wrote is kept.

PROJECT.json lists each hazard at its line, with the properties that would notice it.

## 2. The modules

| module | what it is |
|---|---|
| `BuildContract` | what a disk build promises its caller: a stack of resources, nothing taken after a failure, an image written only while nothing is held |
| `Builder` | `Build` and everything it runs; implements `BuildContract` |
| `Convert` | any number of `d2vm build` / `d2vm convert` runs with one output path; takes a disk build as one step with the outcomes of the contract |
| `BuildConfig` | `validateFlags`, `Convert`'s look at the distribution, `NewDockerfile`, `NewBuilder`: how a request becomes a build |
| `ServerContract` | what a run on a rented server promises whoever pays for it: one server at most, its disk written in the rescue system only, booted when it is finished, success only with a server that runs the image or is gone as wished |
| `Hetzner` | `d2vm run hetzner`, the cloud and the ssh connection; implements `ServerContract` |
| `Vbox` | `d2vm run vbox`, several runs, and VirtualBox |
| `Qemu` | `d2vm run qemu`, several runs, their directory and guests |
| `MCBuilder`, `MCConvert`, `MCBuildConfig`, `MCHetzner`, `MCVbox`, `MCQemu` | the instances TLC checks |
| `BuilderProofs` | theorems about builds: what a success is, and what every build keeps |
| `BuilderFailureProofs` | theorems about failed and interrupted builds |
| `BuilderContractProofs` | `Builder` implements `BuildContract` |
| `ConvertProofs`, `BuildConfigProofs`, `HetznerProofs`, `VboxProofs`, `QemuProofs` | theorems about the other modules |

A definition whose comment begins with "Mutant" is a plausible bug in the definition that
follows it.  Nothing uses it: put in that definition's place, it has to break the property
PROJECT.json pairs it with, which shows that the property can fail.

### Builder

`pc` is the command about to run.  The functions of `builder.go` are the actions:
`CleanUp`, `Parted` (`makeImg`), `Losetup`, `Kpartx`, `LuksFormat`, `CryptOpen`,
`MountRoot`, `MountBoot` (`mountImg`), `CopyRootFS`, `SetupRootFS`, `Syslinux` or `Bind`,
`GrubInstall`, `GrubClean` (the bootloader), `UmountBoot` ... `LosetupDel` (`unmountImg`),
`Convert2Img`, and `Close`, the `RemoveAll` of the work directory by the caller.  A run of
commands that neither take nor release anything is one action.

* `held` is what exists in the kernel, `known` what the builder recorded of it (`loDevice`,
  `mappedCryptRoot`): a command killed after it worked leaves the first without the
  second.  `bound`/`undone` are grub's `unmounts` and how far `clean()` got.
* `err` is the error `Build` will return; `failed` says that the deferred handler of
  `builder.go:229` runs, under `context.Background()`.
* A command succeeds; fails by itself (`Flaky`); is refused, because the context is done
  (`exec.CommandContext` starts nothing then); or is killed by the interrupt, before or
  after it took effect.  `umount`, `cryptsetup close`, `kpartx -d` and `losetup -d` fail
  when the resource is busy (`Users`) or was not recorded.
* `unmountImg` runs all its commands whatever they answer and keeps the errors (`Release`);
  `clean()` logs its errors only, and runs under the context of the build.
* `loDevice` is never cleared.  Once the build gave the device back (`Stale`), another
  process may be given it (`OtherAttach`), and a second `unmountImg` works on that
  process's device: `foreign` is then `"robbed"`.

The three grub variants differ in the arguments of the same commands; `raw` builds skip
the bootloader.  A command that fails is assumed to have no effect of its own, except
`qemu-img convert`, which may leave part of a file, and `parted`, `losetup`, ... when killed.

### Convert

One action per step of `buildCmd`/`convertCmd` and `Convert`, per process `p`; a scenario
says which processes are launched, with which flags, and what may fail.  `path` is
the file at the output path, `body[f]` whose bytes are in file `f`, `fd[p]` the file `p`
created there: two runs that copy to one path share a file, and a file removed while
another run copies to it lives on without a name.  `MoveFile` is
`Create`, `Copy`, `RemoveSource`, and the deferred `CloseFile`, whose error nobody looks at:
`/tmp` and the output are taken to be on different file
systems or not, since the code copies either way.  The deferred calls are the steps
`close`, `removeVM`, `removeTmp`, entered at the point of unwinding that matches what was
deferred so far (`removes` for `docker.Remove`).  `RemoveDir` is run twice, as `b.Close` and
as the last `os.RemoveAll`, each of which may fail by itself, unheard, or because the
directory is busy: the disk build either leaves a complete image, or fails and may leave
mounts there (`stuck`).

### BuildConfig

A request goes through the layers `flags`, `inspect`, `dockerfile`, `builder`; each
completes it and rejects it for a set of `reasons`.  A program that uses the library starts
at `inspect`.  Names the code does not know are model names (`Names`).  What the decision
means later is given by `InstalledGrubName` (what the templates install in the image)
against `GrubName` (what the boot loader runs there).
Releases are numbers: where the code compares version strings, only releases on which
both orders agree are considered.

### Hetzner

One action per API call, wait, ssh command and deferred call of `runHetzner`; `Begin` and
`End` are the two goroutines, `ActionDone` the cloud, `Disconnect` the network.  API calls
take the context and may be killed after the cloud has the request (`Request`); ssh
commands and `dialSSHWithTimeout` do not.  `known` is that `Server.Create` answered, which
is when the deletion is deferred; `keep` is `!remove`.  `Fatalf` in the deferred deletion
goes to `exited` past the calls that were deferred earlier.  The cloud boots a server
into the rescue system once, if the rescue mode is on when it boots.  That the cloud and the
ssh connection behave so is an assumption about code outside the repository.

Of this `ServerContract` sees `life` (what the server is up to), `image` (how much of the image
its disk holds), `verdict` (what the program says when it exits) and whether `--rm` was given;
the program counter, the goroutines, the connection and the pending request are hidden.  The
contract has the server's own moves, too: the cloud may boot a server after the program gave
up, which is allowed, while a write then is not.

### Vbox

One action per `VBoxManage` command or group of commands that change nothing the model tells
apart (`Settings`).  `by`, `on`, `slot` are the machine as VirtualBox sees it, `exists` the
files, `sock` who listens at the console path, `link` which run the machine's serial port
talks to.  `cleanup` is `Poweroff`, `Detach`, `Unregister`, run before the machine is
created and, once `startvm` succeeded (`started`), deferred; early returns go to the deferred
calls they have (`EarlyReturn`).

`vbox.go` gives its context to `qemu-img` only, but every command it runs is in the process
group of d2vm (`manage`, `vbox.go:300`), so that a Ctrl-C reaches the command, too: it ends,
and d2vm takes that for a failure, whatever VirtualBox was already asked to do.  In the
commands of `interrupts` this may happen (`Cut`): with their effect, with none, or, for
`unregistervm --delete`, with some of the files deleted.  It matters most for `startvm`
(`vbox.go:241`), whose error path returns before the cleanup is deferred: the machine is on,
and `starter`, the run that started it last, is not in `started`.  Once the terminal is
raw (`vbox.go:250`) Ctrl-C is a byte for the console: what ends a run that waits is its
machine, or a kill, after which nothing deferred runs (`Kill`).

About VirtualBox itself these assumptions are made.

* A running machine cannot be changed or unregistered; a registered name cannot be created
  again; starting needs every medium; `--delete` removes the files of the attached media.
* The disks go to port 0 of the SATA controller, disk `i` as its device `i - 1`.  How many
  of them VirtualBox takes is the constant `Devices`; it is 1 in the instance, which is what
  VirtualBox does, and any number in the theorems.
* The machine connects to the console path when it starts, which is part of `startvm`.
  An interrupted `startvm` takes effect at once or not at all: if VirtualBox got to the
  serial port only after the run had returned and closed its listener, the machine would
  find nobody there and not come up.
* A kill of d2vm takes its command along or comes after it.  An `unregistervm` interrupted
  between unregistering and deleting leaves files; that a settings file left so makes the
  next `createvm` fail is covered by `createvm` failing only.

What the disks hold is not modelled: `os.Truncate` (`vbox.go:181`) cuts or extends a file
that has the default name of a sized disk without a path.

### Qemu

`Begin` is what happens before anything is changed: the flags, their completion
(`Completed`), what is refused (`Refused`).  `Stat` and `Create` are the loop over the
disks, apart, since another run may come between them; `Launch` the refusal of detached
mode and the start of qemu.  `file[f]` is the format of a file, `wrote[f]` the guests whose
data it holds.  An `os.Stat` may fail otherwise than by finding nothing, which ends the run.
Of qemu it is assumed that it locks its files, and refuses drives that do not exist, are
given twice, or are of another format than it is told, unless that is `raw`: it opens any
file as raw, and the guest then writes over what the file holds (`Overwrites`), after which
qemu may take it for a raw one.

## 3. The checks

Every run lists its properties in PROJECT.json; deadlock is checked in all of them, the
end of a program being a step that changes nothing.

| run | instance | shows |
|---|---|---|
| `builder` | all configurations; cleanup and conversion that work, cleanup that works, all but grub's umounts failing, anything failing; with and without an interrupt | an image is only written from a quiescent disk; a success leaves nothing but the image; nothing is taken after a failure; a failure without interrupt gives everything back; what an interrupt can leak; no device of another process is taken, unless a release, the conversion or the removal after it fails; the build ends; the build implements its contract |
| `builder_cancel_host` | nothing fails but the interrupt | **violated**: the bind mounts of grub survive the interrupt, and `Close` deletes through them |
| `convert` | one run, all flags, everything failing and interrupted, or uninterrupted with a `docker rmi` that works; the last `RemoveAll` failing in the second of these; two runs at one path, with and without `--force`, late steps failing | success is the run's own image (and container disk), if closing the file works; temporary directory and kernel-enabled image go away; the old output is only given up by a run that has an image, and not at all without `--force`; a finished output is safe from later runs without `--force`; two successes leave an output; the runs end |
| `convert_race` | two runs, nothing fails | **violated**: two runs that looked before either wrote; one deletes the other's file |
| `convert_images` | one run, nothing fails | **violated**: the image of the user's Dockerfile is kept |
| `config_boots` | every combination of entry, platform, bootloader, boot file system, split, LUKS and distribution, known and unknown | no late surprise; what is accepted fits together |
| `config_disks` | boot sizes and disk sizes around the thresholds | **violated**: MiB are compared with bytes |
| `config_grub` | as `config_boots` | **violated**: `grub-install` on Rocky and AlmaLinux, where it is `grub2-install` |
| `hetzner` | everything fails, is lost and interrupted; the same with deletions that work; the same without interrupt | the server is dialed once it is in the rescue system, grown once it is written, kept only once it boots the image; what the program heard of is collected; it ends; the run implements the contract of a rented server |
| `hetzner_interrupted` | nothing fails but the interrupt | **violated**: a server whose creation was interrupted is never deleted |
| `vbox` | two runs one after the other, with none, one, two, unnamed and refused disks, everything failing or interrupted but what a property relies on, or nothing failing and runs killed; two that overlap, failing, interrupted in `startvm` or killed | the machine a run watches has its own disks; the user's files are kept; no machine runs when the runs are over but one whose `startvm` was interrupted, none stays registered but of a run that was killed or whose `startvm` never succeeded; a run ends with its machine |
| `qemu` | two runs one after the other with every form of disk, and every flag of the first; two that overlap; directories with and without the disks | sound flags boot, whatever the first run left; no data of a guest is lost on a disk that nobody asks for in another format; an interrupt ends a run |

Bounds.  The state spaces are finite without any counter to cap: a build, a run and a
server pass each point a bounded number of times.  What is chosen is how many actors there
are and what may fail.  *One build* suffices for `Builder`, whose resources are its own but for
the loop device it gave back, and there the other process is an action of its own.  Failing
commands are sets: since a step in the set *may* fail, the largest set includes the
behaviours of all others, and smaller ones are only needed where a property assumes that
some commands work.  *Two runs* at one path show the races; for any number of runs the theorems
about `Convert` take over.  The flags left out of the two-run
instances do not touch the output path.  In `Vbox` and `Qemu` the second run shows what the
first left; a third finds nothing else, the machine and the disks having no history.  *Two
disks* are the least that make the slots of two runs differ and let two disks share a
name.  In `BuildConfig` a MiB is 1024
bytes, which keeps the default size of 10 GiB within TLC's integers; the code only compares
sizes.  `Hetzner` has one server, as the program has.

Fairness.  Weak fairness of the program's own steps (`Step`, `Body \/ Deferred`): the
process is scheduled and its commands return, with success or not; none of the code's
commands waits for input.  In `Hetzner` also of each goroutine, while the process lives,
and of `ActionDone`: the cloud finishes a request, well or not.  In `Vbox` and `Qemu` it is
each run that began; neither the guest nor the user has to do anything, nor has a next run
to begin.  There is no fairness for
interrupts, disconnects or failures: a property that needed them would be worth little.
A command that hangs forever hangs d2vm too, which has no timeouts for them; that is
outside the model.

## 4. The proofs

Each `*Proofs` module proves an inductive invariant, and properties from it, for *every*
value of the constants: every set of failing commands, interrupted or not (`Builder`), any
number of runs with any flags (`Convert`, `Vbox`, `Qemu`), any requests, distributions and
names
(`BuildConfig`), every set of failing steps and lost answers (`Hetzner`).  The assumptions
are the named `ASSUME`s of the modules, which only give the constants their types; TLC
evaluates them in every run.

* **Builder** (`IInv`).  `QuiescentImage` is not inductive: why should nothing be held
  before `convert2Img`?  Because releases go in the order of the stack, and a release that
  succeeded proves that everything above its resource is gone: `ReleasedInOrder` says what
  may still be held before each release if no error was seen.  This is also why it does no
  harm that `clean()` swallows its errors: the umount of the root file system answers for
  the bind mounts.  `ErrorsKept` is what `multierr.Combine` is for; `OnlyLuksMaps` excludes
  a mapping in a build that would not close it; `CleanInOrder` keeps `clean()` within what
  was mounted; `GivenBackLast` that nobody else has the loop device while the forward pass
  still releases; `WrittenLast` and `EndsClean` carry it to the end.  Theorems: `TypeCorrect`,
  `ImageIsQuiescent`, `SuccessIsClean`, `FailureOnlyReleases`.
* **Failed builds** (`FailureInv`, on top of `IInv`).  `IInv` says nothing once an error was
  seen.  `BindsRecorded`: without an interrupt, the bind mounts that exist are exactly those
  grub recorded and has not undone, and `clean()` runs on every way out; hence
  `BindMountsAreUndone`.  `HandlesKept`: only an interrupt loses a handle.  `Unstacked` is
  `ReleasedInOrder` for a pass of `unmountImg` under commands that work, and holds *whatever
  was taken before*, but for a lost handle or a bind mount; hence `FailedBuildReleases` and
  `OnlyLostHandlesLeak`.  For `OthersKeepTheirDevices` the forward pass must not fail after
  it gave the device back; its commands work, so it only fails if something they release was
  not there: `Taken` says that it was (`Mounted` while the image is worked on), and
  `OnlyOwnDevice` draws the conclusion.
* **The contract** (`KeepsContract`).  The mapping is `held`, `out` and `status`.  Every
  command that takes something maps to the contract's acquisition, every release to its
  release, of a resource nothing depends on (`Users`); `convert2Img` to the writing of the
  image, while `IInv` has nothing held; the return to its success or failure; the rest to a
  stutter.
* **Convert** (`CInv`).  A run that failed only unwinds, and one that replaces the output
  holds a complete image of its own (`ReplacesWithImage`); hence `OldOutputSafe`.  `TmpFollows` and
  `VMFollows` say of the deferred calls that they are still to come while there is something
  to remove (`TmpIsCollected`, `VMImageIsCollected`).  `FileFollows`: while there is no
  output somebody failed or is still to create one, which settles any number of racing runs
  (`SomeFileIsLeft`).  `OldFollows`: while the old output is there and nobody has `--force`,
  nobody starts (`OldOutputStays`).  `AloneFollows` carries the bytes of a run alone from the
  copy to the registry (`SuccessIsOwnImage`).  `SequentialRunsAreSafe` is proved in two steps:
  a finished run with the others still to look at the path (`Settled`) stays so, which needs
  that nobody opens a file twice and that only those who opened a file wrote to it
  (`BytesFollow`), and whoever is settled is `Published`.
* **BuildConfig** (`CfgInv`).  `FlagsCoherent` says what `validateFlags` guarantees of what
  it lets pass, `BuilderSound` and `BuilderAgrees` that `NewBuilder` asks for no more, and
  what it adds by itself; hence `FlagsDecide` and `AcceptedFits`.
* **Hetzner** (`HInv`).  The cloud only works on a request while the program waits for it,
  so that the place in the program determines the state of the server (`CloudFollows`) and
  of the goroutines (`WorkFollows`) until the program gives up.  From then on anything may
  still happen to a server that will be deleted; one that is kept has no request left
  (`KeptFollows`).  `UnwindingFollows` is what the deferred calls find and leave.  Theorems:
  `RescueDialed`, `GrowsWhole`, `ServerIsCollected`, `SuccessIsBooted`, `RawIsCollected`.
* **The contract of the server** (`KeepsServerContract`).  The mapping is `life`, `image`,
  `verdict`, `cfg.rm`.  What is hard is what goes on when the program does not look: a
  goroutine that still writes, and a request the program stopped waiting for.
  `PendingFollows` has every request in the cloud find the server as it was when it was
  asked, so that a late reboot still boots a finished disk; `DiskFollows` has a goroutine
  that is not done alone with the server, so that nothing boots it meanwhile, and the
  connection closed before the server is deleted or the program exits.  With these every
  step of program, goroutines, cloud and network is a step of the contract or a stutter.
* **Vbox** (`VInv`).  `RunningOwned` and `RegisteredOwned` name, for a machine that runs or is
  registered, a run that is still to power it off or unregister it: for a machine that runs
  its `starter`, if that run's `startvm` reported success; for one that is registered some run
  if runs overlap, and the very run that made it otherwise.  Hence `NoneRunsOn`, which leaves
  the machine of an interrupted `startvm` and no other, and `MachineIsCollected`.
  `SlotsFollow`, with `DisksFollow` for the loop, is what is attached at each step, starting
  from a new machine without disks (`GoneIsEmpty`); hence `BootsItsOwn`.  `FilesFollow`:
  nothing is attached when a machine is unregistered; hence `FilesAreKept`.
* **Qemu** (`QInv`).  A run alone creates only what its `os.Stat` did not find
  (`CreateFollows`), and guests only write to files that are there (`WritesFollow`), so
  that what is created over holds nothing.  What remains is a guest on a raw drive that holds
  something else (`GuestFile`), and then two formats are asked for of one file, or asked for
  and found (`RawAsked`, `FormatsFollow`); hence `GuestDataIsKept`.  `DrivesFollow` says
  which drives are known to be there, `FormatsFollow` that every file has a format somebody
  asked for, which for sound flags is one; so that qemu can open them (`SoundUsable`), and
  a run that ended booted (`BootsFollow`); hence `SoundBoots`.

Termination is proved by half.  For each program there is a measure, the number of its own steps
still ahead (`Left`), and a theorem that every step of the program lowers it, whatever that
step returns, and that no other step changes it:

| theorem | own steps at most | what does not count |
|---|---|---|
| `BuildGoesOn` (`BuilderFailureProofs`) | 32 commands, the deferred handler, the loops over the bind mounts and the caller's `Close` included | the interrupt, the other process |
| `RunsGoOn` (`ConvertProofs`) | 18, for each of any number of runs | other runs, interrupts |
| `ProgramGoesOn` (`HetznerProofs`) | 24 | goroutines, cloud, network, interrupt |
| `RunsGoOn` (`VboxProofs`) | `MaxDisks` + 19, a kill being one | other runs, guests |
| `RunsGoOn` (`QemuProofs`) | 2 `MaxDisks` + 6, the guest's end being one | other runs, guests' writes, interrupts |

So nothing loops: no failure, interrupt or race makes a program retry or start over, and the
bounds hold for any number of disks and runs.  The other half, that a program that is not over
can take a step unless it waits for its machine or its guest, is about `ENABLED`.

Only model-checked, therefore, is liveness under fairness, which is beyond the prover:
`Terminates` of `Builder`, `Convert` and `Hetzner`, `EndsWithMachine`, `InterruptEnds`.  That TLC
finds no deadlock and these properties hold is the other half, on the instances of section 3.
Every invariant and every action property of the passing runs is a theorem.

## 5. Disagreements with the code's own words

The violation runs each contradict a line of the repository, quoted in PROJECT.json under
"findings": `builder_cancel_host` (`grub_common.go:70`), `convert_race` (`flags.go:99`), `convert_images`
(`build.go:93`), `config_disks` (`builder.go:129`), `config_grub` (`grub_common.go:47`),
`hetzner_interrupted` (`hetzner.go:140`).

More were met that have no run of their own, each being a single line:

* `builder.go:441` deletes `/usr/sbin/policy-rc.d` of the host; the script the function was
  taken from deletes the image's (`templates/vmbuilder.sh:81`).
* An interrupted run leaves its kernel-enabled image, since the deferred `docker.Remove`
  takes the cancelled context; `VMImageCollected` excludes interrupts for that reason.
* `MoveFile` drops the error of closing the copy (`convert.go:118`) after it deleted the
  source; `SuccessMeansOwnImage` excludes runs where closing fails.
* `--push` without `--tag` passes a check of the wrong variable (`flags.go:96`) and pushes
  nothing.
* `--disk` of `run vbox` says "may be repeated" (`vbox.go:48`), but disk `i` is attached at
  `--port 0 --device i` of the SATA controller (`vbox.go:185`), which VirtualBox refuses for
  all but the first (`Devices`).
* A Ctrl-C while `startvm` runs leaves the machine running with every run over
  (`vbox.go:241`-`245`); `NoneLeftRunning` names that case and permits no other.
* A sized disk without a path is refused by `run vbox` unless a file of its default name
  exists: `os.Truncate` (`vbox.go:181`) creates none, though the next error message is
  "Cannot create disk".
* `--cpus`, `--mem` and `--gui` of `run vbox` (`vbox.go:41`, `51`, `52`) are not bound to the
  variables the machine is given; `--publish` and `--qemu` of `run qemu`
  (`cmd/d2vm/run/qemu.go:101`) are read and not passed on.
* When d2vm runs itself in a container, `--output=x` is not rewritten to the mounted
  directory, as `-o x` is (`cmd/d2vm/convert.go:45`, `build.go:74`).

## 6. Plan

The order followed the damage a mistake can do: first what runs as root on the host
(`Builder`, `BuildContract`), then what replaces the user's files (`Convert`), then the
decisions (`BuildConfig`), then what costs money (`Hetzner`), then machines on the host
(`Vbox`, `Qemu`).  What would come next:

1. Running d2vm in a container (`docker.RunD2VM`): the rewriting of arguments, and what an
   interrupt leaves running.
2. The layout of the partition table (`makeImg`, boot sizes, partition numbers) against the
   file systems `mountImg` puts on it.

## 7. Not modelled, and why

* `docker.RunD2VM` and its callers: the rewriting of arguments to run d2vm in a container
  on hosts that are not Linux or root.  Strings.
* The text of templates, `fstab`, `grub.cfg`, `syslinux.cfg`, command lines; parsing of
  `/etc/os-release`, `--size`, `--add-host`: layout and conversions no property is about
  yet, except where the templates decide what a command is called.  The path of the kernel
  (`config.go:70`, `builder.go:143`) is such a text: two tables that agree whatever is run.
* Whether the host has the tools and an `mbr.bin` (`checkDependencies`): constant before
  the run.
* Documentation, completion and version commands, log formatting, progress: no state.
* Of qemu's command line everything but the drives, and of VirtualBox's settings what they
  set: text that no state depends on.  `GetStringValue`, `GetIntValue`, `GetBoolValue`,
  `StringToIntArray`, `SplitLines` and `ConvertMBtoGB` of `util.go` are called by nobody.
