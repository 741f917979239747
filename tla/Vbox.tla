-------------------------------- MODULE Vbox --------------------------------
(***************************************************************************)
(* `d2vm run vbox` (cmd/d2vm/run/vbox.go): the image is converted when it  *)
(* is no VDI, a machine left under the same name is cleaned up, a new one  *)
(* is created, given its disks and started, its serial port calls back the *)
(* console socket, and when the console ends the machine is cleaned up.    *)
(*                                                                         *)
(* Several runs share VirtualBox, the machine's name (--name has a         *)
(* default), the console path, the image and the file it is converted to.  *)
(* They follow one another, or overlap.                                    *)
(*                                                                         *)
(* Ctrl-C cancels a context that only qemu-img is given, but qemu-img and  *)
(* VBoxManage run in the process group of d2vm (manage): it kills the      *)
(* command that is running, whose effect d2vm then takes for a failure.  A *)
(* run that waits hears no Ctrl-C, and may be killed.                      *)
(***************************************************************************)
EXTENDS Naturals, Sequences

CONSTANTS
    Proc,        \* the runs
    Image, Vdi,  \* the image given to every run, and what it is converted to
    Data,        \* the other files the user has
    DiskImg,     \* DiskImg[i]: the name of disk i when it is given none
    NoPath,      \* no file
    MaxDisks,    \* bounds the disks of a run
    Devices,     \* how many of them VirtualBox attaches to port 0 of the SATA controller
    Nobody,      \* no run
    Scenarios    \* what the user runs and what may go wrong, see ScenarioType

Commands == {"info", "convert", "poweroff", "detach", "unregister", "createvm", "settings",
             "attachImage", "attach", "networks", "listen", "start", "term", "accept"}

(* Those that are a program of their own, which Ctrl-C kills with what it   *)
(* asked of VirtualBox done or not.                                         *)
Clients == Commands \ {"listen", "term", "accept"}

(* A --disk; a size is only told apart from none.                           *)
DiskSpec == [path : Data \cup {NoPath}, sized : BOOLEAN, format : {"", "raw", "other"}]

(* vdi: the image is a VDI already *)
RunType == [vdi : BOOLEAN, disks : UNION {[1..n -> DiskSpec] : n \in 0..MaxDisks}]

(* overlap: a run may begin before the others ended;                        *)
(* flaky: the commands that may fail by themselves; interrupts: those Ctrl-C *)
(* may come in; kills: runs get killed                                      *)
ScenarioType == [runs : [Proc -> RunType], overlap : BOOLEAN, flaky : SUBSET Commands,
                 interrupts : SUBSET Clients, kills : BOOLEAN]

Files == Data \cup {Image, Vdi}

(* Port 1 of the IDE controller, for the image, then one per --disk.        *)
Slots == 0..MaxDisks

ASSUME VboxAssumption ==
    /\ MaxDisks \in Nat /\ Devices \in Nat
    /\ DiskImg \in [1..MaxDisks -> Data]
    /\ Image \notin Data /\ Vdi \notin Data /\ Image # Vdi /\ NoPath \notin Files
    /\ Nobody \notin Proc
    /\ Scenarios \subseteq ScenarioType

VARIABLES
    conf,        \* the scenario
    pc,          \* pc[p]: the step p is about to take
    at,          \* at[p]: the disks p attached
    started,     \* the runs that deferred the cleanup: startvm succeeded
    killed,      \* the runs that were killed
    by,          \* the run that created the registered machine, or Nobody
    on,          \* the machine is powered on
    starter,     \* the run whose startvm powered it on the last time
    slot,        \* slot[s]: the file attached to the machine's slot s, or NoPath
    exists,      \* the files that exist
    sock,        \* the run that listens at the console path, or Nobody
    called,      \* the runs whose socket a machine connected to
    link         \* the run the serial port of the running machine talks to, or Nobody

run == <<at, started, killed>>
machine == <<by, on, starter, slot, link>>
console == <<sock, called>>
vars == <<conf, pc, at, started, killed, by, on, starter, slot, exists, sock, called, link>>

------------------------------------------------------------------------------
Disks(p) == conf.runs[p].disks

(* path: the image, or what it was converted to *)
Path(p) == IF conf.runs[p].vdi THEN Image ELSE Vdi

(* The name of disk i of p *)
DiskFile(p, i) == IF Disks(p)[i].path = NoPath THEN DiskImg[i] ELSE Disks(p)[i].path

(* The files the user named: the image and the paths of the disks.          *)
Given == ({Image} \cup UNION {{Disks(p)[i].path : i \in DOMAIN Disks(p)} : p \in Proc}) \ {NoPath}

(* A command may report an error, ...                                       *)
MayFail(c) == c \in conf.flaky \cup conf.interrupts

(* ... of Ctrl-C, after it took effect.                                     *)
Cut(c) == c \in conf.interrupts

Goto(p, next) == pc' = [pc EXCEPT ![p] = next]

(* A return before startvm succeeded                                        *)
EarlyReturn(p) == Goto(p, "removeVdi")

Resting(p) == pc[p] \in {"idle", "ended"}

(* A machine that is running is locked: it cannot be changed.               *)
Changeable == by # Nobody /\ ~on

Attached == {slot[s] : s \in Slots} \ {NoPath}

Init ==
    /\ conf \in Scenarios
    /\ pc = [p \in Proc |-> "idle"]
    /\ at = [p \in Proc |-> 0]
    /\ started = {} /\ killed = {}
    /\ by = Nobody /\ on = FALSE /\ starter = Nobody /\ slot = [s \in Slots |-> NoPath]
    /\ link = Nobody
    /\ \E there \in SUBSET {DiskImg[i] : i \in 1..MaxDisks} :
         exists = Given \cup there
    /\ sock = Nobody /\ called = {}

(* Stat, LookPath and qemu_img.Info, until which nothing is changed *)
Begin(p) ==
    /\ pc[p] = "idle"
    /\ conf.overlap \/ \A q \in Proc : Resting(q)
    /\ \/ Goto(p, IF conf.runs[p].vdi THEN "poweroff" ELSE "convert")
       \/ MayFail("info") /\ Goto(p, "ended")
    /\ UNCHANGED <<conf, run, machine, exists, console>>

(* qemu_img.Convert; the removal of its result is deferred before it, so    *)
(* that whatever it left goes when it fails or is interrupted.              *)
Convert(p) ==
    /\ pc[p] = "convert"
    /\ \/ exists' = exists \cup {Vdi} /\ Goto(p, "poweroff")
       \/ MayFail("convert") /\ exists' \in {exists, exists \cup {Vdi}} /\ EarlyReturn(p)
    /\ UNCHANGED <<conf, run, machine, console>>

------------------------------------------------------------------------------
(* cleanup, before the machine is created and deferred once it is started:  *)
(* every error is logged at most, and the next command is run.              *)

(* Mutant: the cleanup returns when there is nothing to power off.          *)
PoweroffOrReturn(p) ==
    /\ pc[p] = "poweroff"
    /\ \/ on /\ on' = FALSE /\ link' = Nobody /\ Goto(p, "detach")
       \/ /\ ~on \/ MayFail("poweroff")
          /\ UNCHANGED <<on, link>>
          /\ Goto(p, IF p \in started THEN "closeListener" ELSE "createvm")
    /\ UNCHANGED <<conf, run, by, starter, slot, exists, console>>

Poweroff(p) ==
    /\ pc[p] = "poweroff"
    /\ \/ on' = FALSE /\ link' = Nobody
       \/ MayFail("poweroff") /\ UNCHANGED <<on, link>>
    /\ Goto(p, "detach")
    /\ UNCHANGED <<conf, run, by, starter, slot, exists, console>>

(* The slots cleanup empties: the image's and those of the --disk flags of  *)
(* this run, not those of the machine.                                      *)
Named(p) == {0} \cup DOMAIN Disks(p)

(* Those it may fail to empty                                               *)
Undetached(p) ==
    IF ~Changeable THEN {Named(p)} ELSE IF MayFail("detach") THEN SUBSET Named(p) ELSE {{}}

(* Mutant: the slots are counted from one, as the disks are.                *)
DetachOffByOne(p) ==
    /\ pc[p] = "detach"
    /\ \E failed \in Undetached(p) :
         slot' = [s \in Slots |-> IF s \in DOMAIN Disks(p) \ failed THEN NoPath ELSE slot[s]]
    /\ Goto(p, "unregister")
    /\ UNCHANGED <<conf, run, by, on, starter, link, exists, console>>

(* storageattach --medium emptydrive of the image and of each disk *)
Detach(p) ==
    /\ pc[p] = "detach"
    /\ \E failed \in Undetached(p) :
         slot' = [s \in Slots |-> IF s \in Named(p) \ failed THEN NoPath ELSE slot[s]]
    /\ Goto(p, "unregister")
    /\ UNCHANGED <<conf, run, by, on, starter, link, exists, console>>

(* Mutant: only the slots of this run are taken to be emptied.              *)
UnregisterOwnSlots(p) ==
    /\ pc[p] = "unregister"
    /\ \/ /\ Changeable
          /\ by' = Nobody /\ slot' = [s \in Named(p) |-> NoPath]
          /\ exists' = exists \ Attached
       \/ (~Changeable \/ MayFail("unregister")) /\ UNCHANGED <<by, slot, exists>>
    /\ Goto(p, IF p \in started THEN "closeListener" ELSE "createvm")
    /\ UNCHANGED <<conf, run, on, starter, link, console>>

(* unregistervm --delete also deletes the files still attached, one after   *)
(* the other                                                                *)
Unregister(p) ==
    /\ pc[p] = "unregister"
    /\ \/ /\ Changeable
          /\ by' = Nobody /\ slot' = [s \in Slots |-> NoPath]
          /\ \E gone \in SUBSET Attached : /\ gone = Attached \/ Cut("unregister")
                                          /\ exists' = exists \ gone
       \/ (~Changeable \/ MayFail("unregister")) /\ UNCHANGED <<by, slot, exists>>
    /\ Goto(p, IF p \in started THEN "closeListener" ELSE "createvm")
    /\ UNCHANGED <<conf, run, on, starter, link, console>>

------------------------------------------------------------------------------
(* The new machine.  A failure returns: until startvm succeeded, what was   *)
(* created and attached stays.                                              *)

(* Mutant: an error of createvm is logged, as those of the cleanup are.     *)
CreateVMAnyway(p) ==
    /\ pc[p] = "createvm"
    /\ by' = (IF by = Nobody /\ ~MayFail("createvm") THEN p ELSE by)
    /\ Goto(p, "settings")
    /\ UNCHANGED <<conf, run, on, starter, slot, link, exists, console>>

(* createvm --register, which refuses a name that is taken *)
CreateVM(p) ==
    /\ pc[p] = "createvm"
    /\ \/ by = Nobody /\ by' = p /\ Goto(p, "settings")
       \/ by = Nobody /\ by' = p /\ Cut("createvm") /\ EarlyReturn(p)
       \/ (by # Nobody \/ MayFail("createvm")) /\ by' = by /\ EarlyReturn(p)
    /\ UNCHANGED <<conf, run, on, starter, slot, link, exists, console>>

(* The modifyvm, storagectl and mkdir before the disks, and the modifyvm of *)
(* the --networking flags after them: each needs the machine.               *)
Settings(p) ==
    /\ \/ /\ pc[p] \in {"settings", "networks"} /\ Changeable
          /\ Goto(p, IF pc[p] = "settings" THEN "attachImage" ELSE "listen")
       \/ /\ pc[p] \in {"settings", "networks"} /\ (~Changeable \/ MayFail(pc[p]))
          /\ EarlyReturn(p)
    /\ UNCHANGED <<conf, run, machine, exists, console>>

AttachImage(p) ==
    /\ pc[p] = "attachImage"
    /\ \/ /\ Changeable /\ Path(p) \in exists
          /\ slot' = [slot EXCEPT ![0] = Path(p)]
          /\ \/ Goto(p, IF Disks(p) = <<>> THEN "networks" ELSE "attach")
             \/ Cut("attachImage") /\ EarlyReturn(p)
       \/ /\ ~Changeable \/ Path(p) \notin exists \/ MayFail("attachImage")
          /\ slot' = slot /\ EarlyReturn(p)
    /\ UNCHANGED <<conf, run, by, on, starter, link, exists, console>>

(* A disk without a path must be raw, which a size makes it, and have one.  *)
Refused(d) ==
    /\ d.path = NoPath
    /\ ~d.sized \/ d.format = "other"

(* The loop over the disks.  One that has a size and no path is truncated   *)
(* to it, which needs a file of its default name to be there and may cut    *)
(* off what it holds.  All go to port 0, disk i as its device i - 1.        *)
AttachDisk(p) ==
    /\ pc[p] = "attach"
    /\ LET i == at[p] + 1
           file == DiskFile(p, i)
           ok == ~Refused(Disks(p)[i]) /\ Changeable /\ file \in exists /\ i <= Devices
       IN  \/ /\ ok
              /\ slot' = [slot EXCEPT ![i] = file]
              /\ \/ /\ at' = [at EXCEPT ![p] = i]
                    /\ Goto(p, IF i = Len(Disks(p)) THEN "networks" ELSE "attach")
                 \/ Cut("attach") /\ at' = at /\ EarlyReturn(p)
           \/ /\ ~ok \/ MayFail("attach")
              /\ UNCHANGED <<slot, at>>
              /\ EarlyReturn(p)
    /\ UNCHANGED <<conf, started, killed, by, on, starter, link, exists, console>>

------------------------------------------------------------------------------
(* os.Remove and net.Listen of the console path *)
Listen(p) ==
    /\ pc[p] = "listen"
    /\ \/ sock' = p /\ Goto(p, "start")
       \/ MayFail("listen") /\ sock' = Nobody /\ EarlyReturn(p)
    /\ UNCHANGED <<conf, run, machine, exists, called>>

CanStart == Changeable /\ Attached \subseteq exists /\ sock # Nobody

(* A run accepts one connection: that of a second machine is not answered.  *)
Peer == IF sock \in called THEN Nobody ELSE sock

(* Mutant: the listener is replaced once the machine runs.                  *)
StartThenListen(p) ==
    /\ pc[p] = "start"
    /\ \/ /\ CanStart
          /\ on' = TRUE /\ starter' = p /\ link' = Peer
          /\ started' = started \cup {p}
          /\ Goto(p, "term")
       \/ /\ ~CanStart \/ MayFail("start")
          /\ UNCHANGED <<on, starter, link, started>>
          /\ Goto(p, "closeListener")
    /\ UNCHANGED <<conf, at, killed, by, slot, exists, console>>

(* term.Size, then startvm, whose serial port is the client of the console  *)
(* path; the cleanup is deferred, unless startvm reports an error, which it *)
(* also does when it is interrupted and the machine starts all the same.    *)
Start(p) ==
    /\ pc[p] = "start"
    /\ \/ /\ CanStart
          /\ on' = TRUE /\ starter' = p /\ link' = Peer /\ called' = called \cup {sock}
          /\ \/ started' = started \cup {p} /\ Goto(p, "term")
             \/ Cut("start") /\ started' = started /\ Goto(p, "closeListener")
       \/ /\ ~CanStart \/ MayFail("start")
          /\ UNCHANGED <<on, starter, link, called, started>>
          /\ Goto(p, "closeListener")
    /\ UNCHANGED <<conf, at, killed, by, slot, exists, sock>>

(* Mutant: the cleanup is deferred after the terminal is set up.            *)
TermBeforeDefer(p) ==
    /\ pc[p] = "term"
    /\ \/ Goto(p, "accept")
       \/ MayFail("term") /\ Goto(p, "closeListener")
    /\ UNCHANGED <<conf, run, machine, exists, console>>

(* term.Resize and term.SetRaw *)
Term(p) ==
    /\ pc[p] = "term"
    /\ \/ Goto(p, "accept")
       \/ MayFail("term") /\ Goto(p, "poweroff")
    /\ UNCHANGED <<conf, run, machine, exists, console>>

(* ln.Accept waits until a machine connects, whatever is cancelled *)
Accept(p) ==
    /\ pc[p] = "accept"
    /\ \/ p \in called /\ Goto(p, "console")
       \/ MayFail("accept") /\ Goto(p, "poweroff")
    /\ UNCHANGED <<conf, run, machine, exists, console>>

(* The first of the two copies that ends: the socket's, or the terminal's *)
Console(p) ==
    /\ pc[p] = "console" /\ link # p
    /\ Goto(p, "poweroff")
    /\ UNCHANGED <<conf, run, machine, exists, console>>

Hangup(p) ==
    /\ pc[p] = "console" /\ link = p
    /\ Goto(p, "poweroff")
    /\ UNCHANGED <<conf, run, machine, exists, console>>

(* ln.Close unlinks the path, whose socket it may no longer be, and hangs   *)
(* up on a machine it has not answered.                                     *)
CloseListener(p) ==
    /\ pc[p] = "closeListener"
    /\ sock' = Nobody
    /\ link' = (IF link = p THEN Nobody ELSE link)
    /\ Goto(p, "removeVdi")
    /\ UNCHANGED <<conf, run, by, on, starter, slot, exists, called>>

(* The deferred os.RemoveAll, of a run that converted the image *)
RemoveVdi(p) ==
    /\ pc[p] = "removeVdi"
    /\ exists' = IF conf.runs[p].vdi THEN exists ELSE exists \ {Vdi}
    /\ Goto(p, "ended")
    /\ UNCHANGED <<conf, run, machine, console>>

------------------------------------------------------------------------------
(* The guest shuts down, or the user closes its window *)
GuestStops ==
    /\ on /\ on' = FALSE /\ link' = Nobody
    /\ UNCHANGED <<conf, pc, run, by, starter, slot, exists, console>>

(* A run is killed, with the command it runs: nothing deferred runs *)
Kill(p) ==
    /\ conf.kills /\ ~Resting(p)
    /\ killed' = killed \cup {p}
    /\ sock' = (IF sock = p THEN Nobody ELSE sock)
    /\ link' = (IF link = p THEN Nobody ELSE link)
    /\ Goto(p, "ended")
    /\ UNCHANGED <<conf, at, started, by, on, starter, slot, exists, called>>

Step(p) ==
    \/ Convert(p) \/ Poweroff(p) \/ Detach(p) \/ Unregister(p) \/ CreateVM(p) \/ Settings(p)
    \/ AttachImage(p) \/ AttachDisk(p) \/ Listen(p) \/ Start(p) \/ Term(p) \/ Accept(p)
    \/ Console(p) \/ CloseListener(p) \/ RemoveVdi(p)

(* Nothing is left to do but to wait for a machine that will not connect.   *)
Quiet == (\A p \in Proc : pc[p] = "ended" \/ (pc[p] = "accept" /\ p \notin called))
         /\ UNCHANGED vars

Next == (\E p \in Proc : Begin(p) \/ Step(p) \/ Hangup(p) \/ Kill(p)) \/ GuestStops \/ Quiet

(* A run that began goes on by itself; the guest and the user need not.     *)
Spec == Init /\ [][Next]_vars /\ \A p \in Proc : WF_vars(Step(p))

------------------------------------------------------------------------------
(* Properties                                                               *)

(* Where a run is; what comes before its first change is one step.          *)
Points == (Commands \ {"info"}) \cup {"idle", "console", "closeListener", "removeVdi", "ended"}

TypeOK ==
    /\ conf \in Scenarios
    /\ pc \in [Proc -> Points]
    /\ at \in [Proc -> 0..MaxDisks]
    /\ started \subseteq Proc /\ killed \subseteq Proc /\ called \subseteq Proc
    /\ by \in Proc \cup {Nobody} /\ starter \in Proc \cup {Nobody}
    /\ sock \in Proc \cup {Nobody} /\ link \in Proc \cup {Nobody}
    /\ on \in BOOLEAN
    /\ slot \in [Slots -> Files \cup {NoPath}]
    /\ exists \subseteq Files

(* Runs that follow one another, each with as many disks, never lose a file *)
(* the user named, though every cleanup deletes what is attached            *)
(* (vbox.go:295), and whatever run failed or was killed before: if powering *)
(* off and detaching work.  A machine still on keeps its disks, and may be  *)
(* off when it is deleted.                                                  *)
GivenFilesKept ==
    (/\ ~conf.overlap /\ ~MayFail("poweroff") /\ ~MayFail("detach")
     /\ \A p, q \in Proc : Len(Disks(p)) = Len(Disks(q)))
    => Given \subseteq exists

(* A machine whose console a run watches has that run's image and disks and *)
(* no other, though a machine of the same name may have been left           *)
(* (vbox.go:96).                                                            *)
BootsWhatWasAsked ==
    \A p \in started : ~conf.overlap /\ pc[p] \in {"term", "accept", "console"} =>
        slot = [s \in Slots |-> IF s = 0 THEN Path(p)
                                ELSE IF s \in DOMAIN Disks(p) THEN DiskFile(p, s) ELSE NoPath]

AllRest == \A p \in Proc : Resting(p)

(* A machine that runs once every run is over by itself, overlapping or     *)
(* not, is one whose startvm was interrupted (vbox.go:241, before the       *)
(* cleanup is deferred), if powering off works.                             *)
NoneLeftRunning ==
    AllRest /\ killed = {} /\ ~MayFail("poweroff") /\ on => Cut("start") /\ starter \notin started

(* A machine that stays registered is of a run that was killed or never     *)
(* started it (vbox.go:98-244), if the cleanup's commands work and no run   *)
(* is killed, or stopped in startvm, that overlaps another: its machine may *)
(* be the other's.                                                          *)
MachineCollected ==
    /\ AllRest /\ ~MayFail("poweroff") /\ ~MayFail("unregister")
    /\ conf.overlap => killed = {} /\ ~Cut("start")
    => by \in {Nobody} \cup killed \cup (Proc \ started)

(* A run that overlaps no other ends or comes to its console, and ends once *)
(* its machine stops, although Accept and the copies hear of no interrupt.  *)
EndsWithMachine ==
    \A p \in Proc :
        /\ ~conf.overlap /\ pc[p] # "idle" ~> pc[p] \in {"console", "ended"}
        /\ pc[p] = "console" /\ ~on ~> pc[p] = "ended"

------------------------------------------------------------------------------
(* The inductive invariant behind the safety properties (VboxProofs).       *)

Making == {"settings", "attachImage", "attach", "networks", "listen", "start"}
Watching == {"term", "accept", "console"}
CleaningUp == {"poweroff", "detach", "unregister"}

(* A run watches the machine it started, and only cleans up after that.     *)
StartedFollows ==
    /\ \A p \in started :
         pc[p] \in Watching \cup CleaningUp \cup {"closeListener", "removeVdi", "ended"}
    /\ \A p \in Proc : pc[p] \in Watching => p \in started

OneAtATime ==
    ~conf.overlap => \A p, q \in Proc : Resting(p) \/ Resting(q) \/ p = q

(* A machine that is not registered has no disks and no power.              *)
GoneIsEmpty == by = Nobody => ~on /\ \A s \in Slots : slot[s] = NoPath

(* A machine that runs is to be powered off by whoever started it, unless   *)
(* that was interrupted.                                                    *)
RunningOwned ==
    on /\ killed = {} /\ ~MayFail("poweroff") =>
        IF starter \in started THEN pc[starter] \in Watching \cup {"poweroff"} ELSE Cut("start")

(* Nobody powers the machine on behind a run that overlaps no other.        *)
OffWhenCleaned ==
    ~conf.overlap /\ ~MayFail("poweroff") =>
        \A p \in Proc : pc[p] \in {"detach", "unregister"} => ~on

(* A machine of a run that started it is to be unregistered by somebody:    *)
(* if nobody else is there, by that run.                                    *)
RegisteredOwned ==
    /\ ~MayFail("poweroff") /\ ~MayFail("unregister")
    /\ conf.overlap => killed = {} /\ ~Cut("start")
    /\ by \in started \ killed
    => \E p \in started : /\ pc[p] \in Watching \cup CleaningUp
                          /\ conf.overlap \/ p = by

(* How far the loop over the disks is.                                      *)
DisksFollow ==
    \A p \in Proc :
        /\ pc[p] \in {"idle", "convert", "createvm", "settings", "attachImage"} \cup CleaningUp
             /\ p \notin started => at[p] = 0
        /\ pc[p] = "attach" => at[p] < Len(Disks(p))
        /\ pc[p] \in {"networks", "listen", "start"} \cup Watching => at[p] = Len(Disks(p))

(* The disks of the machine are those the run attached so far.              *)
SlotsFollow ==
    ~conf.overlap => \A p \in Proc :
        /\ pc[p] \in Making \cup Watching => by # Nobody
        /\ pc[p] \in {"settings", "attachImage"} => \A s \in Slots : slot[s] = NoPath
        /\ pc[p] \in (Making \ {"settings", "attachImage"}) \cup Watching =>
             \A s \in Slots : slot[s] = IF s = 0 THEN Path(p)
                                        ELSE IF s <= at[p] THEN DiskFile(p, s) ELSE NoPath

(* Runs with as many disks empty every slot before they unregister.         *)
FilesFollow ==
    (/\ ~conf.overlap /\ ~MayFail("poweroff") /\ ~MayFail("detach")
     /\ \A p, q \in Proc : Len(Disks(p)) = Len(Disks(q))) =>
        /\ Given \subseteq exists
        /\ \A p \in Proc : \A s \in Slots : slot[s] # NoPath => s <= Len(Disks(p))
        /\ \A p \in Proc : pc[p] = "unregister" => \A s \in Slots : slot[s] = NoPath

VInv ==
    /\ TypeOK
    /\ StartedFollows
    /\ OneAtATime
    /\ GoneIsEmpty
    /\ RunningOwned
    /\ OffWhenCleaned
    /\ RegisteredOwned
    /\ DisksFollow
    /\ SlotsFollow
    /\ FilesFollow
==============================================================================
