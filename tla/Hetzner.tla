------------------------------- MODULE Hetzner -------------------------------
(***************************************************************************)
(* d2vm run hetzner (cmd/d2vm/run/hetzner.go): a cloud server is created,  *)
(* started in the rescue system, gets the image written to its disk over   *)
(* ssh, has the partition grown and reboots into it.  Deferred calls close *)
(* the connection, delete the server unless it is to be kept, and remove   *)
(* the converted image.                                                    *)
(*                                                                         *)
(* The cloud carries out a request later, as an action the program waits   *)
(* for.  While the image is written, another goroutine installs the tools  *)
(* that grow the partition; both report on a channel.  API calls take the  *)
(* context an interrupt cancels, the ssh commands do not.                  *)
(***************************************************************************)

CONSTANT
    Runs         \* the runs considered, see RunType

Workers == {"tools", "write"}
Requests == {"create", "rescue", "poweron", "reboot"}
OverSsh == {"upload", "growpart", "e2fsck", "resize"}
Steps == Requests \cup OverSsh \cup Workers \cup
         {"info", "convert", "lookups", "watch", "action", "dial", "connection", "ready", "ssh", "delete"}

(* convert: the image is not raw; rm: --rm was given.  Of the surroundings: *)
(* the steps that may fail by themselves, the requests whose answer may be  *)
(* lost, and whether the user may interrupt the program.                    *)
RunType == [convert : BOOLEAN, rm : BOOLEAN, flaky : SUBSET Steps, lossy : SUBSET Requests,
            interrupts : BOOLEAN]

ASSUME HetznerAssumption == Runs \subseteq RunType

VARIABLES
    cfg,         \* the run
    pc,          \* what runHetzner is about to do
    err,         \* it returns an error, or the program exits with one
    cancelled,   \* its context is cancelled
    rawTmp,      \* the converted image is in the temporary directory
    known,       \* Server.Create answered: the deletion of the server is deferred
    keep,        \* "remove" was set to false
    conn,        \* the ssh connection to the rescue system is open
    worker,      \* worker[w]: the goroutine w, and what became of its result
    server,      \* what the server is doing
    rescueOn,    \* its next boot is the rescue system's
    action,      \* the request the cloud works on, or what became of it
    tools,       \* cloud-guest-utils is installed in the rescue system
    disk         \* what is on the disk of the server

main == <<err, cancelled>>
cloud == <<server, rescueOn, action>>
remote == <<tools, disk>>
vars == <<cfg, pc, err, cancelled, rawTmp, known, keep, conn, worker, server, rescueOn,
          action, tools, disk>>

Unwinding == {"closeSsh", "delete", "cleanRaw", "exited"}
Points == {"info", "convert", "lookups", "create", "watchCreate", "rescue", "watchRescue",
           "poweron", "watchPoweron", "dial", "upload", "collect", "growpart", "e2fsck",
           "resize", "reboot", "watchReboot", "ready", "ssh"} \cup Unwinding

------------------------------------------------------------------------------
Init ==
    /\ cfg \in Runs
    /\ pc = "info"
    /\ err = FALSE /\ cancelled = FALSE
    /\ rawTmp = FALSE /\ known = FALSE /\ keep = FALSE /\ conn = FALSE
    /\ worker = [w \in Workers |-> "idle"]
    /\ server = "none" /\ rescueOn = FALSE /\ action = "none"
    /\ tools = FALSE /\ disk = "empty"

Flaky == cfg.flaky
Lossy == cfg.lossy
MayCancel == cfg.interrupts

Exists == server \notin {"none", "deleted"}

Goto(next) == pc' = next /\ UNCHANGED main

(* runHetzner returns: the deferred calls that were made so far run, last   *)
(* first; one that was not made has nothing to do.                          *)
Return == pc' = "closeSsh" /\ err' = TRUE

(* A call fails by itself, or because its context is cancelled. *)
Refused(c) == (c \in Flaky \/ cancelled) /\ UNCHANGED cancelled

(* The interrupt while a call is under way *)
Killed == MayCancel /\ ~cancelled /\ cancelled' = TRUE

(* A step under the context that changes nothing here. *)
Call(c, point, next) ==
    /\ pc = point
    /\ \/ ~cancelled /\ Goto(next)
       \/ (Refused(c) \/ Killed) /\ Return

(* A request to the cloud, which may have got there although no answer came *)
Request(c, next) ==
    /\ pc = c
    /\ \/ ~cancelled /\ action' = c /\ Goto(next)
       \/ Refused(c) /\ action' = action /\ Return
       \/ Killed /\ action' \in {action, c} /\ Return
       \/ c \in Lossy /\ ~cancelled /\ action' = c /\ Return /\ UNCHANGED cancelled

(* Action.WatchProgress: the request is done or failed, or asking for its    *)
(* progress is refused.                                                     *)
Watch(point, next) ==
    /\ pc = point
    /\ \/ action = "done" /\ action' = "none" /\ Goto(next)
       \/ action = "failed" /\ action' = "none" /\ Return /\ UNCHANGED cancelled
       \/ Refused("watch") /\ action' = action /\ Return

(* A command in a session of the connection, without the context *)
OnServer(c, next) ==
    /\ pc = c
    /\ \/ conn /\ Goto(next)
       \/ (~conn \/ c \in Flaky) /\ Return /\ UNCHANGED cancelled

------------------------------------------------------------------------------
(* runHetzner, to the reboot                                                *)

(* qemu_img.Info, on the converted image too *)
Info ==
    /\ Call("info", "info", IF cfg.convert /\ ~rawTmp THEN "convert" ELSE "lookups")
    /\ UNCHANGED <<cfg, rawTmp, known, keep, conn, worker, cloud, remote>>

(* Mutant: the removal is deferred once the conversion succeeded.           *)
ConvertThenDefer ==
    /\ pc = "convert"
    /\ \/ ~cancelled /\ rawTmp' = TRUE /\ Goto("info")
       \/ (Refused("convert") \/ Killed) /\ rawTmp' \in BOOLEAN /\ err' = TRUE /\ pc' = "exited"
    /\ UNCHANGED <<cfg, known, keep, conn, worker, cloud, remote>>

(* The removal of the file is deferred first; a conversion that fails may   *)
(* leave one.                                                               *)
Convert ==
    /\ Call("convert", "convert", "info")
    /\ rawTmp' \in (IF err' THEN BOOLEAN ELSE {TRUE})
    /\ UNCHANGED <<cfg, known, keep, conn, worker, cloud, remote>>

(* server type, sparsecat binary, image and location *)
Lookups ==
    /\ Call("lookups", "lookups", "create")
    /\ UNCHANGED <<cfg, rawTmp, known, keep, conn, worker, cloud, remote>>

Create ==
    /\ Request("create", "watchCreate")
    /\ server' = (IF action' = "create" THEN "creating" ELSE server)
    /\ known' = (pc' = "watchCreate")
    /\ UNCHANGED <<cfg, rawTmp, keep, conn, worker, rescueOn, remote>>

WatchCreate ==
    /\ Watch("watchCreate", "rescue")
    /\ UNCHANGED <<cfg, rawTmp, known, keep, conn, worker, server, rescueOn, remote>>

EnableRescue ==
    /\ Request("rescue", "watchRescue")
    /\ UNCHANGED <<cfg, rawTmp, known, keep, conn, worker, server, rescueOn, remote>>

(* Mutant: the answer to the request is taken for its completion.           *)
WatchRescueNot ==
    /\ pc = "watchRescue"
    /\ action' = "none" /\ Goto("poweron")
    /\ UNCHANGED <<cfg, rawTmp, known, keep, conn, worker, server, rescueOn, remote>>

WatchRescue ==
    /\ Watch("watchRescue", "poweron")
    /\ UNCHANGED <<cfg, rawTmp, known, keep, conn, worker, server, rescueOn, remote>>

Poweron ==
    /\ Request("poweron", "watchPoweron")
    /\ UNCHANGED <<cfg, rawTmp, known, keep, conn, worker, server, rescueOn, remote>>

WatchPoweron ==
    /\ Watch("watchPoweron", "dial")
    /\ UNCHANGED <<cfg, rawTmp, known, keep, conn, worker, server, rescueOn, remote>>

(* dialSSHWithTimeout, for a minute and whatever the context says: only the *)
(* rescue system has the password.                                          *)
Dial ==
    /\ pc = "dial"
    /\ \/ server = "rescue" /\ conn' = TRUE /\ Goto("upload")
       \/ (server # "rescue" \/ "dial" \in Flaky) /\ conn' = FALSE /\ Return /\ UNCHANGED cancelled
    /\ UNCHANGED <<cfg, rawTmp, known, keep, worker, cloud, remote>>

(* sftp of sparsecat, then the two goroutines *)
Upload ==
    /\ OnServer("upload", "collect")
    /\ worker' = (IF pc' = "collect" THEN [w \in Workers |-> "spawned"] ELSE worker)
    /\ UNCHANGED <<cfg, rawTmp, known, keep, conn, cloud, remote>>

(* The loop over serrs: good results until last[w], a bad one, or the      *)
(* interrupt.  The channel has room for both, so the order in which they    *)
(* were sent makes no difference.                                           *)
CollectUntil(last) ==
    /\ pc = "collect"
    /\ \/ \E w \in Workers :
            \/ /\ worker[w] = "ok" /\ worker' = [worker EXCEPT ![w] = "received"]
               /\ Goto(IF last[w] THEN "growpart" ELSE "collect")
            \/ worker[w] = "failed" /\ worker' = worker /\ Return /\ UNCHANGED cancelled
       \/ cancelled /\ worker' = worker /\ Return /\ UNCHANGED cancelled
    /\ UNCHANGED <<cfg, rawTmp, known, keep, conn, cloud, remote>>

(* Mutant: the first good result is enough.                                 *)
CollectOne == CollectUntil([w \in Workers |-> TRUE])

Collect == CollectUntil([w \in Workers |-> \A v \in Workers \ {w} : worker[v] = "received"])

(* Mutant: what growpart answers is not looked at.                          *)
GrowpartDropsError ==
    /\ pc = "growpart"
    /\ Goto("e2fsck")
    /\ disk' \in (IF conn /\ disk = "image" THEN {"grown", disk} ELSE {disk})
    /\ UNCHANGED <<cfg, rawTmp, known, keep, conn, worker, cloud, tools>>

(* The number of the last partition, then growpart *)
Growpart ==
    /\ OnServer("growpart", "e2fsck")
    /\ disk' = (IF pc' = "e2fsck" /\ disk = "image" THEN "grown" ELSE disk)
    /\ UNCHANGED <<cfg, rawTmp, known, keep, conn, worker, cloud, tools>>

E2fsck ==
    /\ OnServer("e2fsck", "resize")
    /\ UNCHANGED <<cfg, rawTmp, known, keep, conn, worker, cloud, remote>>

Resize2fs ==
    /\ OnServer("resize", "reboot")
    /\ UNCHANGED <<cfg, rawTmp, known, keep, conn, worker, cloud, remote>>

(* Mutant: the server is kept as soon as its disk is complete.              *)
RebootKeeps ==
    /\ Request("reboot", "watchReboot")
    /\ keep' = TRUE
    /\ UNCHANGED <<cfg, rawTmp, known, conn, worker, server, rescueOn, remote>>

Reboot ==
    /\ Request("reboot", "watchReboot")
    /\ UNCHANGED <<cfg, rawTmp, known, keep, conn, worker, server, rescueOn, remote>>

WatchReboot ==
    /\ Watch("watchReboot", "ready")
    /\ keep' = (pc' = "ready")
    /\ UNCHANGED <<cfg, rawTmp, known, conn, worker, server, rescueOn, remote>>

(* A connection to port 22 within a minute *)
Ready ==
    /\ Call("ready", "ready", "ssh")
    /\ UNCHANGED <<cfg, rawTmp, known, keep, conn, worker, cloud, remote>>

Ssh ==
    /\ pc = "ssh"
    /\ \/ ~cancelled /\ pc' = "closeSsh" /\ UNCHANGED main
       \/ (Refused("ssh") \/ Killed) /\ Return
    /\ UNCHANGED <<cfg, rawTmp, known, keep, conn, worker, cloud, remote>>

Body ==
    \/ Info \/ Convert \/ Lookups \/ Create \/ WatchCreate \/ EnableRescue \/ WatchRescue
    \/ Poweron \/ WatchPoweron \/ Dial \/ Upload \/ Collect \/ Growpart \/ E2fsck
    \/ Resize2fs \/ Reboot \/ WatchReboot \/ Ready \/ Ssh

------------------------------------------------------------------------------
(* The deferred calls                                                       *)

CloseSsh ==
    /\ pc = "closeSsh"
    /\ conn' = FALSE /\ Goto("delete")
    /\ UNCHANGED <<cfg, rawTmp, known, keep, worker, cloud, remote>>

(* Server.Delete under context.Background(), unless there is nothing to     *)
(* delete                                                                   *)
DeleteOr(failed) ==
    /\ pc = "delete"
    /\ IF ~known \/ (keep /\ ~cfg.rm)
       THEN Goto("cleanRaw") /\ UNCHANGED cloud
       ELSE \/ /\ Goto("cleanRaw")
               /\ server' = "deleted" /\ action' = "none" /\ UNCHANGED rescueOn
            \/ /\ "delete" \in Flaky
               /\ pc' = failed /\ err' = (err \/ failed = "exited")
               /\ UNCHANGED <<cancelled, cloud>>
    /\ UNCHANGED <<cfg, rawTmp, known, keep, conn, worker, remote>>

(* Mutants: a deletion that failed is only logged; it is tried again.       *)
DeleteLogs == DeleteOr("cleanRaw")
DeleteRetries == DeleteOr("closeSsh")

(* When it fails, logrus.Fatalf ends the program there and then. *)
Delete == DeleteOr("exited")

CleanRaw ==
    /\ pc = "cleanRaw"
    /\ rawTmp' = FALSE /\ Goto("exited")
    /\ UNCHANGED <<cfg, known, keep, conn, worker, cloud, remote>>

Deferred == CloseSsh \/ Delete \/ CleanRaw

------------------------------------------------------------------------------
(* The goroutines; they end with the program.                               *)

(* NewSession, and the command starts *)
Begin(w) ==
    /\ pc # "exited" /\ worker[w] = "spawned"
    /\ \/ /\ conn /\ worker' = [worker EXCEPT ![w] = "running"]
          /\ disk' = (IF w = "write" THEN "partial" ELSE disk)
       \/ /\ ~conn \/ w \in Flaky
          /\ worker' = [worker EXCEPT ![w] = "failed"]
          /\ disk' = disk
    /\ UNCHANGED <<cfg, pc, main, rawTmp, known, keep, conn, cloud, tools>>

(* CombinedOutput returns, and the result is sent *)
End(w) ==
    /\ pc # "exited" /\ worker[w] = "running"
    /\ \/ /\ conn /\ worker' = [worker EXCEPT ![w] = "ok"]
          /\ tools' = (tools \/ w = "tools")
          /\ disk' = (IF w = "write" THEN "image" ELSE disk)
       \/ /\ ~conn \/ w \in Flaky
          /\ worker' = [worker EXCEPT ![w] = "failed"]
          /\ UNCHANGED remote
    /\ UNCHANGED <<cfg, pc, main, rawTmp, known, keep, conn, cloud>>

------------------------------------------------------------------------------
(* The surroundings                                                         *)

(* The cloud is done with a request: a rescue system is booted once. *)
ActionDone ==
    /\ action \in Requests /\ Exists
    /\ \/ /\ action' = "done"
          /\ server' = (CASE action = "create" -> "off"
                          [] action = "rescue" -> server
                          [] OTHER -> IF rescueOn THEN "rescue" ELSE "disk")
          /\ rescueOn' = (action = "rescue" \/ (rescueOn /\ action = "create"))
       \/ "action" \in Flaky /\ action' = "failed" /\ UNCHANGED <<server, rescueOn>>
    /\ UNCHANGED <<cfg, pc, main, rawTmp, known, keep, conn, worker, remote>>

Disconnect ==
    /\ "connection" \in Flaky /\ conn /\ pc # "exited"
    /\ conn' = FALSE
    /\ UNCHANGED <<cfg, pc, main, rawTmp, known, keep, worker, cloud, remote>>

Cancel ==
    /\ MayCancel /\ ~cancelled /\ pc # "exited"
    /\ cancelled' = TRUE
    /\ UNCHANGED <<cfg, pc, err, rawTmp, known, keep, conn, worker, cloud, remote>>

Exited == pc = "exited" /\ UNCHANGED vars

Next ==
    \/ Body \/ Deferred \/ (\E w \in Workers : Begin(w) \/ End(w))
    \/ ActionDone \/ Disconnect \/ Cancel \/ Exited

(* The program and its goroutines go on by themselves, commands on the      *)
(* server end, and the cloud finishes what it was asked; dialing gives up   *)
(* after a minute.                                                          *)
Fairness ==
    /\ WF_vars(Body \/ Deferred)
    /\ \A w \in Workers : WF_vars(Begin(w) \/ End(w))
    /\ WF_vars(ActionDone)

Spec == Init /\ [][Next]_vars /\ Fairness

------------------------------------------------------------------------------
(* Properties                                                               *)

TypeOK ==
    /\ cfg \in Runs
    /\ pc \in Points
    /\ err \in BOOLEAN /\ cancelled \in BOOLEAN
    /\ rawTmp \in BOOLEAN /\ known \in BOOLEAN /\ keep \in BOOLEAN /\ conn \in BOOLEAN
    /\ worker \in [Workers -> {"idle", "spawned", "running", "ok", "failed", "received"}]
    /\ server \in {"none", "creating", "off", "rescue", "disk", "deleted"}
    /\ rescueOn \in BOOLEAN
    /\ action \in Requests \cup {"none", "done", "failed"}
    /\ tools \in BOOLEAN
    /\ disk \in {"empty", "partial", "image", "grown"}

(* The minute of dialing is spent on a server that came up in the rescue    *)
(* system, whose password the program has: power is only switched on once   *)
(* the rescue mode is in effect.                                            *)
DialsRescue == pc = "dial" => server = "rescue"

(* The partition is grown, checked and extended only after both goroutines  *)
(* reported: nobody writes to the disk any more, all of the image is there, *)
(* and so are the tools.                                                    *)
GrownWhole ==
    pc \in {"growpart", "e2fsck", "resize", "reboot"} =>
        /\ \A w \in Workers : worker[w] = "received"
        /\ tools
        /\ disk \in {"image", "grown"}

(* A server that is there when the program ends has booted a complete image *)
(* and was not to be removed, unless it was never heard of or the cloud     *)
(* refused to delete it.                                                    *)
ServerCollected ==
    pc = "exited" /\ Exists /\ known /\ "delete" \notin Flaky =>
        keep /\ ~cfg.rm /\ server = "disk" /\ disk = "grown"

(* Success is only reported for a server that booted the image and, with    *)
(* --rm, is gone again.                                                     *)
SuccessMeansBooted ==
    pc = "exited" /\ ~err => /\ keep /\ disk = "grown" /\ ~rawTmp
                            /\ IF cfg.rm THEN server = "deleted" ELSE server = "disk"

(* The converted image goes away on every return; it stays when the         *)
(* deletion of the server failed, which ends the program.                   *)
RawCollected ==
    pc = "exited" /\ rawTmp => known /\ Exists /\ "delete" \in Flaky /\ (cfg.rm \/ ~keep)

(* hetzner.go:156: "we don't want the request to fail if the context has    *)
(* been cancelled": an interrupted run leaves no server behind that it was  *)
(* not done with.                                                           *)
NoServerForgotten == pc = "exited" /\ Exists => keep /\ ~cfg.rm

------------------------------------------------------------------------------
(* What the one who pays for the server sees of a run.                      *)
life ==
    CASE server \in {"creating", "off"} -> "off"
      [] server = "disk"    -> "serving"
      [] server = "deleted" -> "gone"
      [] OTHER -> server

image ==
    CASE disk = "image" -> "whole"
      [] disk = "grown" -> "finished"
      [] OTHER -> disk

verdict == IF pc # "exited" THEN "open" ELSE IF err THEN "failure" ELSE "success"

Contract == INSTANCE ServerContract WITH forAWhile <- cfg.rm

(* Every step of the program, its goroutines and the cloud is one the       *)
(* contract allows, or changes nothing it speaks of.                        *)
ImplementsContract == Contract!Spec

------------------------------------------------------------------------------
(* The parts of runHetzner: before there is a server, in the rescue system, *)
(* and once the image is on its disk.                                       *)
Setup == {"info", "convert", "lookups", "create"}
InRescue == {"dial", "upload", "collect", "growpart", "e2fsck", "resize", "reboot"}
Written == {"growpart", "e2fsck", "resize", "reboot", "watchReboot", "ready", "ssh"}
WatchPoints == {"watchCreate", "watchRescue", "watchPoweron", "watchReboot"}

(* How the cloud follows the program: at every point of it, what was asked  *)
(* for and what the server is, until the program gives up.                  *)
CloudFollows ==
    /\ pc \in Setup => server = "none"
    /\ pc = "watchCreate" => /\ action \in {"create", "done", "failed"}
                             /\ server = (IF action = "done" THEN "off" ELSE "creating")
    /\ pc \in {"rescue", "watchRescue", "poweron"} => server = "off"
    /\ pc = "watchRescue" => /\ action \in {"rescue", "done", "failed"}
                             /\ (action = "done" => rescueOn)
    /\ pc = "poweron" => rescueOn
    /\ pc = "watchPoweron" => /\ action \in {"poweron", "done", "failed"}
                              /\ IF action = "done" THEN server = "rescue" ELSE rescueOn
    /\ pc \in InRescue => server = "rescue"
    /\ pc \in InRescue \cup {"watchReboot"} => ~rescueOn
    /\ pc = "watchPoweron" /\ action = "done" => ~rescueOn
    /\ pc = "watchReboot" => /\ action \in {"reboot", "done", "failed"}
                             /\ (action = "done" => server = "disk")
    /\ pc \notin WatchPoints \cup Unwinding => action = "none"

(* What the results of the goroutines stand for, and when they are all in.  *)
WorkFollows ==
    /\ pc \notin Written \cup Unwinding \cup {"collect"} => \A w \in Workers : worker[w] = "idle"
    /\ pc \in Written => \A w \in Workers : worker[w] = "received"
    /\ worker["tools"] \in {"ok", "received"} => tools
    /\ worker["write"] \in {"ok", "received"} => disk \in {"image", "grown"}
    /\ pc \in Written \ {"growpart"} => disk = "grown"

(* What a server that is to be kept is. *)
KeptFollows ==
    /\ pc \in {"ready", "ssh"} => keep
    /\ keep => /\ pc \in Unwinding \cup {"ready", "ssh"}
               /\ known /\ action = "none" /\ disk = "grown"
               /\ \A w \in Workers : worker[w] = "received"
               /\ server = "disk" \/ (server = "deleted" /\ cfg.rm)

(* What the deferred calls find and leave. *)
UnwindingFollows ==
    /\ pc \notin Unwinding => ~err
    /\ pc \in Unwinding => err \/ keep
    /\ pc \in Setup => ~known
    /\ pc \notin Setup \cup Unwinding => known
    /\ known => server # "none"
    /\ server = "deleted" => pc \in {"cleanRaw", "exited"}
    /\ pc \in {"cleanRaw", "exited"} /\ known =>
           server = "deleted" \/ (keep /\ ~cfg.rm) \/ (pc = "exited" /\ err /\ "delete" \in Flaky)
    /\ pc = "exited" /\ rawTmp => /\ err /\ known /\ Exists
                                  /\ "delete" \in Flaky /\ (cfg.rm \/ ~keep)

(* What the cloud still works on, even when the program does not wait for   *)
(* it any more, finds the server as it was when it was asked.               *)
PendingFollows ==
    /\ action = "create" => server = "creating"
    /\ action \in {"rescue", "poweron"} => server = "off"
    /\ action = "poweron" => rescueOn
    /\ action = "reboot" => server = "rescue" /\ ~rescueOn /\ disk = "grown"

(* A goroutine that is not done has the server for itself: nothing is asked *)
(* of the cloud, and it is in the rescue system while it can be reached.    *)
DiskFollows ==
    /\ pc \in {"delete", "cleanRaw", "exited"} => ~conn
    /\ \A w \in Workers : worker[w] \in {"spawned", "running"} =>
          action = "none" /\ (conn => server = "rescue")
    /\ worker["write"] \in {"idle", "spawned"} => disk = "empty"
    /\ worker["write"] = "running" => disk = "partial"

(* The inductive invariant the properties above follow from: types, and how *)
(* cloud, goroutines and deferred calls stand at every point.               *)
HInv ==
    /\ TypeOK
    /\ CloudFollows
    /\ WorkFollows
    /\ KeptFollows
    /\ UnwindingFollows
    /\ PendingFollows
    /\ DiskFollows

(* The program ends, whatever fails and whoever interrupts.                 *)
Terminates == <>(pc = "exited")
==============================================================================
