---------------------------- MODULE HetznerProofs ----------------------------
(***************************************************************************)
(* Safety of Hetzner for every set of runs: whatever fails, whichever      *)
(* answers are lost, and whenever the user interrupts.  The cloud works on *)
(* a request only while the program waits for it, so a point of the        *)
(* program determines what the server is (CloudFollows) until it gives up; *)
(* what it leaves is then settled by the deferred calls alone              *)
(* (UnwindingFollows).                                                     *)
(***************************************************************************)
EXTENDS Hetzner, Naturals, TLAPS

(* A run that has not started satisfies the invariant. *)
LEMMA InitHInv == Init => HInv
<1> SUFFICES ASSUME Init PROVE HInv
  OBVIOUS
<1> USE DEF Init, Setup, InRescue, Written, WatchPoints, Unwinding
<1>1. TypeOK
  BY DEF TypeOK, Points, Workers
<1>2. CloudFollows
  BY DEF CloudFollows
<1>3. WorkFollows
  BY DEF WorkFollows, Workers
<1>4. KeptFollows /\ UnwindingFollows
  BY DEF KeptFollows, UnwindingFollows
<1>5. PendingFollows /\ DiskFollows
  BY DEF PendingFollows, DiskFollows, Workers
<1> QED
  BY <1>1, <1>2, <1>3, <1>4, <1>5 DEF HInv

(* The types are kept: what holds the place in the program, what the cloud  *)
(* and the goroutines do, and the flags.                                    *)
LEMMA TypeOKStep == HInv /\ [Next]_vars => TypeOK'
<1> SUFFICES ASSUME HInv, [Next]_vars PROVE TypeOK'
  OBVIOUS
<1> USE DEF HInv, TypeOK, main, cloud, remote, Goto, Return, Call, Request, Watch, OnServer,
      Refused, Killed
<1>1. pc' \in Points
  <2>1. CASE Body
    BY <2>1 DEF Points, Unwinding, Body, Info, Convert, Lookups, Create, WatchCreate, EnableRescue, WatchRescue, Poweron,
          WatchPoweron, Dial, Upload, Collect, CollectUntil, Growpart, E2fsck, Resize2fs, Reboot,
          WatchReboot, Ready, Ssh
  <2>2. CASE Deferred
    BY <2>2 DEF Points, Unwinding, Deferred, CloseSsh, Delete, DeleteOr, CleanRaw
  <2>3. CASE ~Body /\ ~Deferred
    BY <2>3 DEF Points, Unwinding, Next, Begin, End, ActionDone, Disconnect, Cancel, Exited, vars
  <2> QED
    BY <2>1, <2>2, <2>3
<1>2. action' \in Requests \cup {"none", "done", "failed"}
  <2>1. CASE Body
    BY <2>1 DEF Requests, Body, Info, Convert, Lookups, Create, WatchCreate, EnableRescue, WatchRescue, Poweron,
          WatchPoweron, Dial, Upload, Collect, CollectUntil, Growpart, E2fsck, Resize2fs, Reboot,
          WatchReboot, Ready, Ssh
  <2>2. CASE Deferred
    BY <2>2 DEF Requests, Deferred, CloseSsh, Delete, DeleteOr, CleanRaw
  <2>3. CASE ~Body /\ ~Deferred
    BY <2>3 DEF Requests, Next, Begin, End, ActionDone, Disconnect, Cancel, Exited, vars
  <2> QED
    BY <2>1, <2>2, <2>3
<1>3. err' \in BOOLEAN /\ cancelled' \in BOOLEAN
  <2>1. CASE Body
    BY <2>1 DEF Body, Info, Convert, Lookups, Create, WatchCreate, EnableRescue, WatchRescue, Poweron,
          WatchPoweron, Dial, Upload, Collect, CollectUntil, Growpart, E2fsck, Resize2fs, Reboot,
          WatchReboot, Ready, Ssh
  <2>2. CASE Deferred
    BY <2>2 DEF Deferred, CloseSsh, Delete, DeleteOr, CleanRaw
  <2>3. CASE ~Body /\ ~Deferred
    BY <2>3 DEF Next, Begin, End, ActionDone, Disconnect, Cancel, Exited, vars
  <2> QED
    BY <2>1, <2>2, <2>3
<1>4. rawTmp' \in BOOLEAN /\ known' \in BOOLEAN /\ keep' \in BOOLEAN /\ conn' \in BOOLEAN
  <2>1. CASE Body
    BY <2>1 DEF Body, Info, Convert, Lookups, Create, WatchCreate, EnableRescue, WatchRescue, Poweron,
          WatchPoweron, Dial, Upload, Collect, CollectUntil, Growpart, E2fsck, Resize2fs, Reboot,
          WatchReboot, Ready, Ssh
  <2>2. CASE Deferred
    BY <2>2 DEF Deferred, CloseSsh, Delete, DeleteOr, CleanRaw
  <2>3. CASE ~Body /\ ~Deferred
    BY <2>3 DEF Next, Begin, End, ActionDone, Disconnect, Cancel, Exited, vars
  <2> QED
    BY <2>1, <2>2, <2>3
<1>5. worker' \in [Workers -> {"idle", "spawned", "running", "ok", "failed", "received"}]
  <2>1. CASE Body
    BY <2>1 DEF Body, Info, Convert, Lookups, Create, WatchCreate, EnableRescue, WatchRescue, Poweron,
          WatchPoweron, Dial, Upload, Collect, CollectUntil, Growpart, E2fsck, Resize2fs, Reboot,
          WatchReboot, Ready, Ssh
  <2>2. CASE Deferred
    BY <2>2 DEF Deferred, CloseSsh, Delete, DeleteOr, CleanRaw
  <2>3. CASE ~Body /\ ~Deferred
    BY <2>3 DEF Next, Begin, End, ActionDone, Disconnect, Cancel, Exited, vars
  <2> QED
    BY <2>1, <2>2, <2>3
<1>6. server' \in {"none", "creating", "off", "rescue", "disk", "deleted"} /\ rescueOn' \in BOOLEAN
  <2>1. CASE Body
    BY <2>1 DEF Requests, Body, Info, Convert, Lookups, Create, WatchCreate, EnableRescue, WatchRescue, Poweron,
          WatchPoweron, Dial, Upload, Collect, CollectUntil, Growpart, E2fsck, Resize2fs, Reboot,
          WatchReboot, Ready, Ssh
  <2>2. CASE Deferred
    BY <2>2 DEF Requests, Deferred, CloseSsh, Delete, DeleteOr, CleanRaw
  <2>3. CASE ~Body /\ ~Deferred
    BY <2>3 DEF Requests, Next, Begin, End, ActionDone, Disconnect, Cancel, Exited, vars
  <2> QED
    BY <2>1, <2>2, <2>3
<1>7. tools' \in BOOLEAN /\ disk' \in {"empty", "partial", "image", "grown"}
  <2>1. CASE Body
    BY <2>1 DEF Body, Info, Convert, Lookups, Create, WatchCreate, EnableRescue, WatchRescue, Poweron,
          WatchPoweron, Dial, Upload, Collect, CollectUntil, Growpart, E2fsck, Resize2fs, Reboot,
          WatchReboot, Ready, Ssh
  <2>2. CASE Deferred
    BY <2>2 DEF Deferred, CloseSsh, Delete, DeleteOr, CleanRaw
  <2>3. CASE ~Body /\ ~Deferred
    BY <2>3 DEF Next, Begin, End, ActionDone, Disconnect, Cancel, Exited, vars
  <2> QED
    BY <2>1, <2>2, <2>3
<1>8. cfg' \in Runs
  <2>1. CASE Body
    BY <2>1 DEF Body, Info, Convert, Lookups, Create, WatchCreate, EnableRescue, WatchRescue, Poweron,
          WatchPoweron, Dial, Upload, Collect, CollectUntil, Growpart, E2fsck, Resize2fs, Reboot,
          WatchReboot, Ready, Ssh
  <2>2. CASE Deferred
    BY <2>2 DEF Deferred, CloseSsh, Delete, DeleteOr, CleanRaw
  <2>3. CASE ~Body /\ ~Deferred
    BY <2>3 DEF Next, Begin, End, ActionDone, Disconnect, Cancel, Exited, vars
  <2> QED
    BY <2>1, <2>2, <2>3
<1> QED
  BY <1>1, <1>2, <1>3, <1>4, <1>5, <1>6, <1>7, <1>8

(* The cloud keeps following the program. *)
LEMMA CloudStep == HInv /\ [Next]_vars => CloudFollows'
<1> SUFFICES ASSUME HInv, [Next]_vars PROVE CloudFollows'
  OBVIOUS
<1> USE DEF HInv, TypeOK, main, cloud, remote, Goto, Return, Refused, Killed, Call, Request, Watch, OnServer,
      CloudFollows, UnwindingFollows, Setup, InRescue, WatchPoints, Unwinding, Exists, Requests
<1>1. CASE Info
  BY <1>1 DEF Info
<1>2. CASE Convert
  BY <1>2 DEF Convert
<1>3. CASE Lookups
  BY <1>3 DEF Lookups
<1>4. CASE Create
  BY <1>4 DEF Create
<1>5. CASE WatchCreate
  BY <1>5 DEF WatchCreate
<1>6. CASE EnableRescue
  BY <1>6 DEF EnableRescue
<1>7. CASE WatchRescue
  BY <1>7 DEF WatchRescue
<1>8. CASE Poweron
  BY <1>8 DEF Poweron
<1>9. CASE WatchPoweron
  BY <1>9 DEF WatchPoweron
<1>10. CASE Dial
  BY <1>10 DEF Dial
<1>11. CASE Upload
  BY <1>11 DEF Upload
<1>12. CASE Collect
  BY <1>12 DEF Collect, CollectUntil
<1>13. CASE Growpart
  BY <1>13 DEF Growpart
<1>14. CASE E2fsck
  BY <1>14 DEF E2fsck
<1>15. CASE Resize2fs
  BY <1>15 DEF Resize2fs
<1>16. CASE Reboot
  BY <1>16 DEF Reboot
<1>17. CASE WatchReboot
  BY <1>17 DEF WatchReboot
<1>18. CASE Ready
  BY <1>18 DEF Ready
<1>19. CASE Ssh
  BY <1>19 DEF Ssh
<1>20. CASE CloseSsh
  BY <1>20 DEF CloseSsh
<1>21. CASE Delete
  BY <1>21 DEF Delete, DeleteOr
<1>22. CASE CleanRaw
  BY <1>22 DEF CleanRaw
<1>23. ASSUME NEW w \in Workers, Begin(w) PROVE CloudFollows'
  BY <1>23 DEF Begin
<1>24. ASSUME NEW w \in Workers, End(w) PROVE CloudFollows'
  BY <1>24 DEF End
<1>25. CASE ActionDone
  BY <1>25 DEF ActionDone
<1>26. CASE Disconnect
  BY <1>26 DEF Disconnect
<1>27. CASE Cancel
  BY <1>27 DEF Cancel
<1>28. CASE UNCHANGED vars
  BY <1>28 DEF vars
<1> QED
  BY <1>1, <1>2, <1>3, <1>4, <1>5, <1>6, <1>7, <1>8, <1>9, <1>10, <1>11, <1>12, <1>13, <1>14, <1>15, <1>16, <1>17, <1>18, <1>19, <1>20, <1>21, <1>22, <1>23, <1>24, <1>25, <1>26, <1>27, <1>28 DEF Next, Body, Deferred, Exited

(* The results of the goroutines keep standing for what they did. *)
LEMMA WorkStep == HInv /\ [Next]_vars => WorkFollows'
<1> SUFFICES ASSUME HInv, [Next]_vars PROVE WorkFollows'
  OBVIOUS
<1> USE DEF HInv, TypeOK, main, cloud, remote, Goto, Return, Refused, Killed, Call, Request, Watch, OnServer,
      WorkFollows, Written, Unwinding, Workers
<1>1. CASE Info
  BY <1>1 DEF Info
<1>2. CASE Convert
  BY <1>2 DEF Convert
<1>3. CASE Lookups
  BY <1>3 DEF Lookups
<1>4. CASE Create
  BY <1>4 DEF Create
<1>5. CASE WatchCreate
  BY <1>5 DEF WatchCreate
<1>6. CASE EnableRescue
  BY <1>6 DEF EnableRescue
<1>7. CASE WatchRescue
  BY <1>7 DEF WatchRescue
<1>8. CASE Poweron
  BY <1>8 DEF Poweron
<1>9. CASE WatchPoweron
  BY <1>9 DEF WatchPoweron
<1>10. CASE Dial
  BY <1>10 DEF Dial
<1>11. CASE Upload
  BY <1>11 DEF Upload
<1>12. CASE Collect
  BY <1>12 DEF Collect, CollectUntil
<1>13. CASE Growpart
  BY <1>13 DEF Growpart
<1>14. CASE E2fsck
  BY <1>14 DEF E2fsck
<1>15. CASE Resize2fs
  BY <1>15 DEF Resize2fs
<1>16. CASE Reboot
  BY <1>16 DEF Reboot
<1>17. CASE WatchReboot
  BY <1>17 DEF WatchReboot
<1>18. CASE Ready
  BY <1>18 DEF Ready
<1>19. CASE Ssh
  BY <1>19 DEF Ssh
<1>20. CASE CloseSsh
  BY <1>20 DEF CloseSsh
<1>21. CASE Delete
  BY <1>21 DEF Delete, DeleteOr
<1>22. CASE CleanRaw
  BY <1>22 DEF CleanRaw
<1>23. ASSUME NEW w \in Workers, Begin(w) PROVE WorkFollows'
  BY <1>23 DEF Begin
<1>24. ASSUME NEW w \in Workers, End(w) PROVE WorkFollows'
  BY <1>24 DEF End
<1>25. CASE ActionDone
  BY <1>25 DEF ActionDone
<1>26. CASE Disconnect
  BY <1>26 DEF Disconnect
<1>27. CASE Cancel
  BY <1>27 DEF Cancel
<1>28. CASE UNCHANGED vars
  BY <1>28 DEF vars
<1> QED
  BY <1>1, <1>2, <1>3, <1>4, <1>5, <1>6, <1>7, <1>8, <1>9, <1>10, <1>11, <1>12, <1>13, <1>14, <1>15, <1>16, <1>17, <1>18, <1>19, <1>20, <1>21, <1>22, <1>23, <1>24, <1>25, <1>26, <1>27, <1>28 DEF Next, Body, Deferred, Exited

(* A server that is to be kept stays what it is. *)
LEMMA KeptStep == HInv /\ [Next]_vars => KeptFollows'
<1> SUFFICES ASSUME HInv, [Next]_vars PROVE KeptFollows'
  OBVIOUS
<1> USE DEF HInv, TypeOK, main, cloud, remote, Goto, Return, Refused, Killed, Call, Request, Watch, OnServer,
      CloudFollows, WorkFollows, KeptFollows, UnwindingFollows, Written, Unwinding, Workers, Setup,
      InRescue, WatchPoints, Requests
<1>1. CASE Info
  BY <1>1 DEF Info
<1>2. CASE Convert
  BY <1>2 DEF Convert
<1>3. CASE Lookups
  BY <1>3 DEF Lookups
<1>4. CASE Create
  BY <1>4 DEF Create
<1>5. CASE WatchCreate
  BY <1>5 DEF WatchCreate
<1>6. CASE EnableRescue
  BY <1>6 DEF EnableRescue
<1>7. CASE WatchRescue
  BY <1>7 DEF WatchRescue
<1>8. CASE Poweron
  BY <1>8 DEF Poweron
<1>9. CASE WatchPoweron
  BY <1>9 DEF WatchPoweron
<1>10. CASE Dial
  BY <1>10 DEF Dial
<1>11. CASE Upload
  BY <1>11 DEF Upload
<1>12. CASE Collect
  BY <1>12 DEF Collect, CollectUntil
<1>13. CASE Growpart
  BY <1>13 DEF Growpart
<1>14. CASE E2fsck
  BY <1>14 DEF E2fsck
<1>15. CASE Resize2fs
  BY <1>15 DEF Resize2fs
<1>16. CASE Reboot
  BY <1>16 DEF Reboot
<1>17. CASE WatchReboot
  BY <1>17 DEF WatchReboot
<1>18. CASE Ready
  BY <1>18 DEF Ready
<1>19. CASE Ssh
  BY <1>19 DEF Ssh
<1>20. CASE CloseSsh
  BY <1>20 DEF CloseSsh
<1>21. CASE Delete
  BY <1>21 DEF Delete, DeleteOr
<1>22. CASE CleanRaw
  BY <1>22 DEF CleanRaw
<1>23. ASSUME NEW w \in Workers, Begin(w) PROVE KeptFollows'
  BY <1>23 DEF Begin
<1>24. ASSUME NEW w \in Workers, End(w) PROVE KeptFollows'
  BY <1>24 DEF End
<1>25. CASE ActionDone
  BY <1>25 DEF ActionDone
<1>26. CASE Disconnect
  BY <1>26 DEF Disconnect
<1>27. CASE Cancel
  BY <1>27 DEF Cancel
<1>28. CASE UNCHANGED vars
  BY <1>28 DEF vars
<1> QED
  BY <1>1, <1>2, <1>3, <1>4, <1>5, <1>6, <1>7, <1>8, <1>9, <1>10, <1>11, <1>12, <1>13, <1>14, <1>15, <1>16, <1>17, <1>18, <1>19, <1>20, <1>21, <1>22, <1>23, <1>24, <1>25, <1>26, <1>27, <1>28 DEF Next, Body, Deferred, Exited

(* The deferred calls leave nothing behind that they are to remove. *)
LEMMA UnwindingStep == HInv /\ [Next]_vars => UnwindingFollows'
<1> SUFFICES ASSUME HInv, [Next]_vars PROVE UnwindingFollows'
  OBVIOUS
<1> USE DEF HInv, TypeOK, main, cloud, remote, Goto, Return, Refused, Killed, Call, Request, Watch, OnServer,
      KeptFollows, UnwindingFollows, CloudFollows, Setup, WatchPoints, Unwinding, Exists, Flaky
<1>1. CASE Info
  BY <1>1 DEF Info
<1>2. CASE Convert
  BY <1>2 DEF Convert
<1>3. CASE Lookups
  BY <1>3 DEF Lookups
<1>4. CASE Create
  <2>1. CASE pc' = "watchCreate"
    <3>1. pc = "create" /\ server' = "creating"
      BY <1>4, <2>1 DEF Create
    <3>2. known'
      BY <1>4, <2>1 DEF Create
    <3>3. ~err'
      BY <1>4, <2>1 DEF Create
    <3> QED
      BY <1>4, <2>1, <3>1, <3>2, <3>3
  <2>2. CASE pc' = "closeSsh"
    BY <1>4, <2>2 DEF Create
  <2> QED
    BY <1>4, <2>1, <2>2 DEF Create
<1>5. CASE WatchCreate
  BY <1>5 DEF WatchCreate
<1>6. CASE EnableRescue
  BY <1>6 DEF EnableRescue
<1>7. CASE WatchRescue
  BY <1>7 DEF WatchRescue
<1>8. CASE Poweron
  BY <1>8 DEF Poweron
<1>9. CASE WatchPoweron
  BY <1>9 DEF WatchPoweron
<1>10. CASE Dial
  BY <1>10 DEF Dial
<1>11. CASE Upload
  BY <1>11 DEF Upload
<1>12. CASE Collect
  BY <1>12 DEF Collect, CollectUntil
<1>13. CASE Growpart
  BY <1>13 DEF Growpart
<1>14. CASE E2fsck
  BY <1>14 DEF E2fsck
<1>15. CASE Resize2fs
  BY <1>15 DEF Resize2fs
<1>16. CASE Reboot
  BY <1>16 DEF Reboot
<1>17. CASE WatchReboot
  BY <1>17 DEF WatchReboot
<1>18. CASE Ready
  BY <1>18 DEF Ready
<1>19. CASE Ssh
  BY <1>19 DEF Ssh
<1>20. CASE CloseSsh
  BY <1>20 DEF CloseSsh
<1>21. CASE Delete
  BY <1>21 DEF Delete, DeleteOr
<1>22. CASE CleanRaw
  BY <1>22 DEF CleanRaw
<1>23. ASSUME NEW w \in Workers, Begin(w) PROVE UnwindingFollows'
  BY <1>23 DEF Begin
<1>24. ASSUME NEW w \in Workers, End(w) PROVE UnwindingFollows'
  BY <1>24 DEF End
<1>25. CASE ActionDone
  BY <1>25 DEF ActionDone
<1>26. CASE Disconnect
  BY <1>26 DEF Disconnect
<1>27. CASE Cancel
  BY <1>27 DEF Cancel
<1>28. CASE UNCHANGED vars
  BY <1>28 DEF vars
<1> QED
  BY <1>1, <1>2, <1>3, <1>4, <1>5, <1>6, <1>7, <1>8, <1>9, <1>10, <1>11, <1>12, <1>13, <1>14, <1>15, <1>16, <1>17, <1>18, <1>19, <1>20, <1>21, <1>22, <1>23, <1>24, <1>25, <1>26, <1>27, <1>28 DEF Next, Body, Deferred, Exited

(* A request of the cloud keeps finding the server it was made for. *)
LEMMA PendingStep == HInv /\ [Next]_vars => PendingFollows'
<1> SUFFICES ASSUME HInv, [Next]_vars PROVE PendingFollows'
  OBVIOUS
<1>0. /\ CloudFollows /\ PendingFollows /\ DiskFollows
      /\ pc \in Written => \A w \in Workers : worker[w] = "received"
      /\ pc = "reboot" => disk = "grown"
      /\ pc \in Setup => server = "none"
  BY DEF HInv, WorkFollows, CloudFollows, Written
<1> USE <1>0 DEF main, cloud, remote, Goto, Return, Refused, Killed, Call, Request, Watch, OnServer,
      CloudFollows, PendingFollows, Setup, InRescue, WatchPoints, Unwinding, Requests
<1>1. CASE Info
  BY <1>1 DEF Info
<1>2. CASE Convert
  BY <1>2 DEF Convert
<1>3. CASE Lookups
  BY <1>3 DEF Lookups
<1>4. CASE Create
  BY <1>4 DEF Create
<1>5. CASE WatchCreate
  BY <1>5 DEF WatchCreate
<1>6. CASE EnableRescue
  BY <1>6 DEF EnableRescue
<1>7. CASE WatchRescue
  BY <1>7 DEF WatchRescue
<1>8. CASE Poweron
  BY <1>8 DEF Poweron
<1>9. CASE WatchPoweron
  BY <1>9 DEF WatchPoweron
<1>10. CASE Dial
  BY <1>10 DEF Dial
<1>11. CASE Upload
  BY <1>11 DEF Upload
<1>12. CASE Collect
  BY <1>12 DEF Collect, CollectUntil
<1>13. CASE Growpart
  BY <1>13 DEF Growpart, Written
<1>14. CASE E2fsck
  BY <1>14 DEF E2fsck
<1>15. CASE Resize2fs
  BY <1>15 DEF Resize2fs
<1>16. CASE Reboot
  BY <1>16 DEF Reboot
<1>17. CASE WatchReboot
  BY <1>17 DEF WatchReboot
<1>18. CASE Ready
  BY <1>18 DEF Ready
<1>19. CASE Ssh
  BY <1>19 DEF Ssh
<1>20. CASE CloseSsh
  BY <1>20 DEF CloseSsh
<1>21. CASE Delete
  BY <1>21 DEF Delete, DeleteOr
<1>22. CASE CleanRaw
  BY <1>22 DEF CleanRaw
<1>23. ASSUME NEW w \in Workers, Begin(w) PROVE PendingFollows'
  BY <1>23 DEF Begin, DiskFollows
<1>24. ASSUME NEW w \in Workers, End(w) PROVE PendingFollows'
  BY <1>24 DEF End, DiskFollows
<1>25. CASE ActionDone
  BY <1>25 DEF ActionDone
<1>26. CASE Disconnect
  BY <1>26 DEF Disconnect
<1>27. CASE Cancel
  BY <1>27 DEF Cancel
<1>28. CASE UNCHANGED vars
  BY <1>28 DEF vars
<1> QED
  BY <1>1, <1>2, <1>3, <1>4, <1>5, <1>6, <1>7, <1>8, <1>9, <1>10, <1>11, <1>12, <1>13, <1>14,
     <1>15, <1>16, <1>17, <1>18, <1>19, <1>20, <1>21, <1>22, <1>23, <1>24, <1>25, <1>26, <1>27, <1>28 DEF Next, Body, Deferred, Exited

(* A goroutine keeps the server for itself until its result was sent. *)
LEMMA DiskStep == HInv /\ [Next]_vars => DiskFollows'
<1> SUFFICES ASSUME HInv, [Next]_vars PROVE DiskFollows'
  OBVIOUS
<1>0. /\ CloudFollows /\ PendingFollows /\ DiskFollows
      /\ pc \in Written => \A w \in Workers : worker[w] = "received"
      /\ pc \notin Written \cup Unwinding \cup {"collect"} => \A w \in Workers : worker[w] = "idle"
      /\ worker \in [Workers -> {"idle", "spawned", "running", "ok", "failed", "received"}]
  BY DEF HInv, WorkFollows, TypeOK
<1> USE <1>0 DEF main, cloud, remote, Goto, Return, Refused, Killed, Call, Request, Watch, OnServer,
      CloudFollows, DiskFollows, Setup, InRescue, WatchPoints, Unwinding, Written, Workers
<1>1. CASE Info
  BY <1>1 DEF Info
<1>2. CASE Convert
  BY <1>2 DEF Convert
<1>3. CASE Lookups
  BY <1>3 DEF Lookups
<1>4. CASE Create
  BY <1>4 DEF Create
<1>5. CASE WatchCreate
  BY <1>5 DEF WatchCreate
<1>6. CASE EnableRescue
  BY <1>6 DEF EnableRescue
<1>7. CASE WatchRescue
  BY <1>7 DEF WatchRescue
<1>8. CASE Poweron
  BY <1>8 DEF Poweron
<1>9. CASE WatchPoweron
  BY <1>9 DEF WatchPoweron
<1>10. CASE Dial
  BY <1>10 DEF Dial
<1>11. CASE Upload
  BY <1>11 DEF Upload
<1>12. CASE Collect
  BY <1>12 DEF Collect, CollectUntil
<1>13. CASE Growpart
  BY <1>13 DEF Growpart
<1>14. CASE E2fsck
  BY <1>14 DEF E2fsck
<1>15. CASE Resize2fs
  BY <1>15 DEF Resize2fs
<1>16. CASE Reboot
  BY <1>16 DEF Reboot
<1>17. CASE WatchReboot
  BY <1>17 DEF WatchReboot
<1>18. CASE Ready
  BY <1>18 DEF Ready
<1>19. CASE Ssh
  BY <1>19 DEF Ssh
<1>20. CASE CloseSsh
  BY <1>20 DEF CloseSsh
<1>21. CASE Delete
  BY <1>21 DEF Delete, DeleteOr
<1>22. CASE CleanRaw
  BY <1>22 DEF CleanRaw
<1>23. ASSUME NEW w \in Workers, Begin(w) PROVE DiskFollows'
  BY <1>23 DEF Begin
<1>24. ASSUME NEW w \in Workers, End(w) PROVE DiskFollows'
  BY <1>24 DEF End
<1>25. CASE ActionDone
  BY <1>25 DEF ActionDone, Requests
<1>26. CASE Disconnect
  BY <1>26 DEF Disconnect
<1>27. CASE Cancel
  BY <1>27 DEF Cancel
<1>28. CASE UNCHANGED vars
  BY <1>28 DEF vars
<1> QED
  BY <1>1, <1>2, <1>3, <1>4, <1>5, <1>6, <1>7, <1>8, <1>9, <1>10, <1>11, <1>12, <1>13, <1>14,
     <1>15, <1>16, <1>17, <1>18, <1>19, <1>20, <1>21, <1>22, <1>23, <1>24, <1>25, <1>26, <1>27, <1>28 DEF Next, Body, Deferred, Exited

(* HInv is an invariant of every run. *)
THEOREM HetznerInvariant == Spec => []HInv
<1>1. Init => HInv
  BY InitHInv
<1>2. HInv /\ [Next]_vars => HInv'
  BY TypeOKStep, CloudStep, WorkStep, KeptStep, UnwindingStep,
     PendingStep, DiskStep DEF HInv
<1> QED
  BY <1>1, <1>2, PTL DEF Spec

(* The program only dials a server that came up in the rescue system. *)
THEOREM RescueDialed == Spec => []DialsRescue
<1>1. HInv => DialsRescue
  BY DEF HInv, DialsRescue, CloudFollows, InRescue
<1> QED
  BY <1>1, HetznerInvariant, PTL

(* The partition is only grown once both goroutines are done. *)
THEOREM GrowsWhole == Spec => []GrownWhole
<1>1. HInv => GrownWhole
  BY DEF HInv, GrownWhole, WorkFollows, Written, Workers, Unwinding
<1> QED
  BY <1>1, HetznerInvariant, PTL

(* Every server the program heard of is deleted, or kept with the image on it. *)
THEOREM ServerIsCollected == Spec => []ServerCollected
<1>1. HInv => ServerCollected
  BY DEF HInv, ServerCollected, KeptFollows, UnwindingFollows, Exists, Flaky
<1> QED
  BY <1>1, HetznerInvariant, PTL

(* A success is only reported for a server that booted the image. *)
THEOREM SuccessIsBooted == Spec => []SuccessMeansBooted
<1>1. HInv => SuccessMeansBooted
  BY DEF HInv, SuccessMeansBooted, KeptFollows, UnwindingFollows, Unwinding
<1> QED
  BY <1>1, HetznerInvariant, PTL

(* The converted image is removed unless a failed deletion ends the program. *)
THEOREM RawIsCollected == Spec => []RawCollected
<1>1. HInv => RawCollected
  BY DEF HInv, RawCollected, UnwindingFollows
<1> QED
  BY <1>1, HetznerInvariant, PTL

------------------------------------------------------------------------------
(* A step the contract of the server allows, or cannot see. *)
Allowed == Contract!Next \/ UNCHANGED <<cfg.rm, life, image, verdict>>

(* The contract does not see a step that leaves server and disk alone. *)
LEMMA Unseen ==
    ASSUME cfg' = cfg, server' = server, disk' = disk,
           pc # "exited", pc' # "exited"
    PROVE  Allowed
  BY DEF Allowed, life, image, verdict

(* The contract allows the end of the program, as a success only with the   *)
(* server in the state a success promises.                                  *)
LEMMA EndAllowed ==
    ASSUME HInv, cfg' = cfg, server' = server, disk' = disk, pc # "exited", pc' = "exited",
           err' \/ (pc = "cleanRaw" /\ err' = err)
    PROVE  Allowed
<1>1. UNCHANGED <<cfg.rm, life, image>> /\ verdict = "open"
      /\ verdict' = (IF err' THEN "failure" ELSE "success")
  BY DEF life, image, verdict
<1>2. CASE err'
  BY <1>1, <1>2 DEF Allowed, Contract!Next, Contract!GiveUp
<1>3. CASE ~err'
  <2>1. pc = "cleanRaw" /\ ~err /\ keep /\ disk = "grown" /\ known
    BY <1>3 DEF HInv, UnwindingFollows, KeptFollows, Unwinding
  <2>2. server = IF cfg.rm THEN "deleted" ELSE "disk"
    BY <2>1 DEF HInv, UnwindingFollows, KeptFollows
  <2>3. image = "finished" /\ life = IF cfg.rm THEN "gone" ELSE "serving"
    BY <2>1, <2>2 DEF image, life
  <2> QED
    BY <1>1, <1>3, <2>3 DEF Allowed, Contract!Next, Contract!Succeed
<1> QED
  BY <1>2, <1>3

(* The contract allows the disk to be written in the rescue system, in the  *)
(* order of its states.                                                     *)
LEMMA WriteAllowed ==
    ASSUME HInv, cfg' = cfg, server' = server, pc' = pc \/ pc' # "exited", pc # "exited",
           server = "rescue",
           <<disk, disk'>> \in {<<"empty", "partial">>, <<"partial", "image">>, <<"image", "grown">>}
    PROVE  Allowed
<1>1. life = "rescue" /\ UNCHANGED <<cfg.rm, life, verdict>> /\ verdict = "open"
  BY DEF life, verdict
<1>2. <<image, image'>> \in
        {<<"empty", "partial">>, <<"partial", "whole">>, <<"whole", "finished">>}
  BY DEF image
<1> QED
  BY <1>1, <1>2 DEF Allowed, Contract!Next, Contract!Write

(* Every step of a run is one its contract allows. *)
LEMMA StepAllowed == HInv /\ [Next]_vars => Allowed
<1> SUFFICES ASSUME HInv, [Next]_vars PROVE Allowed
  OBVIOUS
<1> USE DEF main, cloud, remote, Goto, Return, Call, Request, Watch, OnServer
<1>1. CASE Info
  <2>1. cfg' = cfg /\ server' = server /\ disk' = disk /\ pc # "exited" /\ pc' # "exited"
    BY <1>1 DEF Info
  <2> QED
    BY <2>1, Unseen
<1>2. CASE Convert
  <2>1. cfg' = cfg /\ server' = server /\ disk' = disk /\ pc # "exited" /\ pc' # "exited"
    BY <1>2 DEF Convert
  <2> QED
    BY <2>1, Unseen
<1>3. CASE Lookups
  <2>1. cfg' = cfg /\ server' = server /\ disk' = disk /\ pc # "exited" /\ pc' # "exited"
    BY <1>3 DEF Lookups
  <2> QED
    BY <2>1, Unseen
<1>4. CASE Create
  <2>1. /\ cfg' = cfg /\ disk' = disk /\ pc # "exited" /\ pc' # "exited" /\ server = "none"
        /\ server' \in {server, "creating"}
    BY <1>4 DEF Create, HInv, CloudFollows, Setup
  <2>2. CASE server' = server
    BY <2>1, <2>2, Unseen
  <2>3. CASE server' = "creating"
    <3>1. /\ life = "none" /\ life' = "off" /\ verdict = "open"
          /\ UNCHANGED <<cfg.rm, image, verdict>>
      BY <2>1, <2>3 DEF life, image, verdict
    <3> QED
      BY <3>1 DEF Allowed, Contract!Next, Contract!Order
  <2> QED
    BY <2>1, <2>2, <2>3
<1>5. CASE WatchCreate
  <2>1. cfg' = cfg /\ server' = server /\ disk' = disk /\ pc # "exited" /\ pc' # "exited"
    BY <1>5 DEF WatchCreate
  <2> QED
    BY <2>1, Unseen
<1>6. CASE EnableRescue
  <2>1. cfg' = cfg /\ server' = server /\ disk' = disk /\ pc # "exited" /\ pc' # "exited"
    BY <1>6 DEF EnableRescue
  <2> QED
    BY <2>1, Unseen
<1>7. CASE WatchRescue
  <2>1. cfg' = cfg /\ server' = server /\ disk' = disk /\ pc # "exited" /\ pc' # "exited"
    BY <1>7 DEF WatchRescue
  <2> QED
    BY <2>1, Unseen
<1>8. CASE Poweron
  <2>1. cfg' = cfg /\ server' = server /\ disk' = disk /\ pc # "exited" /\ pc' # "exited"
    BY <1>8 DEF Poweron
  <2> QED
    BY <2>1, Unseen
<1>9. CASE WatchPoweron
  <2>1. cfg' = cfg /\ server' = server /\ disk' = disk /\ pc # "exited" /\ pc' # "exited"
    BY <1>9 DEF WatchPoweron
  <2> QED
    BY <2>1, Unseen
<1>10. CASE Dial
  <2>1. cfg' = cfg /\ server' = server /\ disk' = disk /\ pc # "exited" /\ pc' # "exited"
    BY <1>10 DEF Dial
  <2> QED
    BY <2>1, Unseen
<1>11. CASE Upload
  <2>1. cfg' = cfg /\ server' = server /\ disk' = disk /\ pc # "exited" /\ pc' # "exited"
    BY <1>11 DEF Upload
  <2> QED
    BY <2>1, Unseen
<1>12. CASE Collect
  <2>1. cfg' = cfg /\ server' = server /\ disk' = disk /\ pc # "exited" /\ pc' # "exited"
    BY <1>12 DEF Collect, CollectUntil
  <2> QED
    BY <2>1, Unseen
<1>13. CASE Growpart
  <2>1. /\ cfg' = cfg /\ server' = server /\ pc = "growpart" /\ pc' # "exited"
        /\ disk' = disk \/ (disk = "image" /\ disk' = "grown")
    BY <1>13 DEF Growpart
  <2>2. server = "rescue"
    BY <2>1 DEF HInv, CloudFollows, InRescue
  <2> QED
    BY <2>1, <2>2, Unseen, WriteAllowed
<1>14. CASE E2fsck
  <2>1. cfg' = cfg /\ server' = server /\ disk' = disk /\ pc # "exited" /\ pc' # "exited"
    BY <1>14 DEF E2fsck
  <2> QED
    BY <2>1, Unseen
<1>15. CASE Resize2fs
  <2>1. cfg' = cfg /\ server' = server /\ disk' = disk /\ pc # "exited" /\ pc' # "exited"
    BY <1>15 DEF Resize2fs
  <2> QED
    BY <2>1, Unseen
<1>16. CASE Reboot
  <2>1. cfg' = cfg /\ server' = server /\ disk' = disk /\ pc # "exited" /\ pc' # "exited"
    BY <1>16 DEF Reboot
  <2> QED
    BY <2>1, Unseen
<1>17. CASE WatchReboot
  <2>1. cfg' = cfg /\ server' = server /\ disk' = disk /\ pc # "exited" /\ pc' # "exited"
    BY <1>17 DEF WatchReboot
  <2> QED
    BY <2>1, Unseen
<1>18. CASE Ready
  <2>1. cfg' = cfg /\ server' = server /\ disk' = disk /\ pc # "exited" /\ pc' # "exited"
    BY <1>18 DEF Ready
  <2> QED
    BY <2>1, Unseen
<1>19. CASE Ssh
  <2>1. cfg' = cfg /\ server' = server /\ disk' = disk /\ pc # "exited" /\ pc' # "exited"
    BY <1>19 DEF Ssh
  <2> QED
    BY <2>1, Unseen
<1>20. CASE CloseSsh
  <2>1. cfg' = cfg /\ server' = server /\ disk' = disk /\ pc # "exited" /\ pc' # "exited"
    BY <1>20 DEF CloseSsh
  <2> QED
    BY <2>1, Unseen
<1>21. CASE Delete
  <2>1. cfg' = cfg /\ disk' = disk /\ pc = "delete" /\ pc' \in {"cleanRaw", "exited"}
    BY <1>21 DEF Delete, DeleteOr
  <2>2. CASE server' = server /\ pc' = "cleanRaw"
    BY <2>1, <2>2, Unseen
  <2>3. CASE pc' = "exited"
    <3>1. server' = server /\ err'
      BY <1>21, <2>3 DEF Delete, DeleteOr
    <3> QED
      BY <2>1, <2>3, <3>1, EndAllowed
  <2>4. CASE server' = "deleted" /\ pc' = "cleanRaw" /\ known
    <3>1. server \in {"creating", "off", "rescue", "disk"}
      BY <2>1, <2>4 DEF HInv, TypeOK, UnwindingFollows
    <3>2. /\ life \in {"off", "rescue", "serving"} /\ life' = "gone" /\ verdict = "open"
          /\ UNCHANGED <<cfg.rm, image, verdict>>
      BY <2>1, <2>4, <3>1 DEF life, image, verdict
    <3> QED
      BY <3>2 DEF Allowed, Contract!Next, Contract!GiveBack
  <2> QED
    BY <1>21, <2>1, <2>2, <2>3, <2>4 DEF Delete, DeleteOr
<1>22. CASE CleanRaw
  BY <1>22, EndAllowed DEF CleanRaw
<1>23. ASSUME NEW w \in Workers, Begin(w) PROVE Allowed
  <2>1. /\ cfg' = cfg /\ server' = server /\ pc' = pc /\ pc # "exited"
        /\ \/ disk' = disk
           \/ conn /\ worker["write"] = "spawned" /\ disk' = "partial"
    BY <1>23 DEF Begin
  <2>2. conn /\ worker["write"] = "spawned" => server = "rescue" /\ disk = "empty"
    BY DEF HInv, DiskFollows, Workers
  <2> QED
    BY <2>1, <2>2, Unseen, WriteAllowed
<1>24. ASSUME NEW w \in Workers, End(w) PROVE Allowed
  <2>1. /\ cfg' = cfg /\ server' = server /\ pc' = pc /\ pc # "exited"
        /\ \/ disk' = disk
           \/ conn /\ worker["write"] = "running" /\ disk' = "image"
    BY <1>24 DEF End
  <2>2. conn /\ worker["write"] = "running" => server = "rescue" /\ disk = "partial"
    BY DEF HInv, DiskFollows, Workers
  <2> QED
    BY <2>1, <2>2, Unseen, WriteAllowed
<1>25. CASE ActionDone
  <2>1. UNCHANGED <<cfg.rm, image, verdict>> /\ action \in Requests
    BY <1>25 DEF ActionDone, image, verdict
  <2>2. CASE server' = server
    BY <2>1, <2>2 DEF Allowed, life
  <2>3. CASE server' # server
    <3>1. \/ action = "create" /\ server = "creating" /\ server' = "off"
          \/ action = "poweron" /\ server = "off" /\ server' = "rescue"
          \/ action = "reboot" /\ server = "rescue" /\ disk = "grown" /\ server' = "disk"
      BY <1>25, <2>1, <2>3 DEF ActionDone, Requests, HInv, PendingFollows
    <3>2. \/ life' = life
          \/ life = "off" /\ life' = "rescue"
          \/ life = "rescue" /\ image = "finished" /\ life' = "serving"
      BY <3>1 DEF life, image
    <3> QED
      BY <2>1, <3>2 DEF Allowed, Contract!Next, Contract!Rescue, Contract!Boot
  <2> QED
    BY <2>2, <2>3
<1>26. CASE Disconnect
  <2>1. cfg' = cfg /\ server' = server /\ disk' = disk /\ pc # "exited" /\ pc' # "exited"
    BY <1>26 DEF Disconnect
  <2> QED
    BY <2>1, Unseen
<1>27. CASE Cancel
  <2>1. cfg' = cfg /\ server' = server /\ disk' = disk /\ pc # "exited" /\ pc' # "exited"
    BY <1>27 DEF Cancel
  <2> QED
    BY <2>1, Unseen
<1>28. CASE UNCHANGED vars
  BY <1>28 DEF vars, Allowed, life, image, verdict
<1> QED
  BY <1>1, <1>2, <1>3, <1>4, <1>5, <1>6, <1>7, <1>8, <1>9, <1>10, <1>11, <1>12, <1>13, <1>14,
     <1>15, <1>16, <1>17, <1>18, <1>19, <1>20, <1>21, <1>22, <1>23, <1>24, <1>25, <1>26, <1>27, <1>28 DEF Next, Body, Deferred, Exited

(* A run keeps the contract of its server: it orders one, writes its disk   *)
(* only in the rescue system, boots only a finished one, never takes it     *)
(* back, and tells a success from a failure.                                *)
THEOREM KeepsServerContract == Spec => ImplementsContract
<1>1. Init => Contract!Init
  <2>1. Init => cfg.rm \in BOOLEAN
    BY HetznerAssumption DEF Init, RunType
  <2> QED
    BY <2>1 DEF Init, Contract!Init, life, image, verdict
<1>2. HInv /\ [Next]_vars => [Contract!Next]_Contract!contractVars
  BY StepAllowed DEF Allowed, Contract!contractVars
<1> QED
  BY <1>1, <1>2, HetznerInvariant, PTL DEF Spec, ImplementsContract, Contract!Spec

------------------------------------------------------------------------------
(* The points of the program still ahead of one, itself included.           *)
Ahead(point) ==
    CASE point = "convert" -> 23
      [] point = "info" -> 22
      [] point = "lookups" -> 21
      [] point = "create" -> 20
      [] point = "watchCreate" -> 19
      [] point = "rescue" -> 18
      [] point = "watchRescue" -> 17
      [] point = "poweron" -> 16
      [] point = "watchPoweron" -> 15
      [] point = "dial" -> 14
      [] point = "upload" -> 13
      [] point = "collect" -> 11
      [] point = "growpart" -> 10
      [] point = "e2fsck" -> 9
      [] point = "resize" -> 8
      [] point = "reboot" -> 7
      [] point = "watchReboot" -> 6
      [] point = "ready" -> 5
      [] point = "ssh" -> 4
      [] point = "closeSsh" -> 3
      [] point = "delete" -> 2
      [] point = "cleanRaw" -> 1
      [] OTHER -> 0

Received == \E w \in Workers : worker[w] = "received"

(* What is left to do: two more looks at an image that is to be converted,  *)
(* and the second result while none of the goroutines' is there.            *)
Left ==
    CASE pc = "info" /\ cfg.convert /\ ~rawTmp -> Ahead("info") + 2
      [] pc = "collect" /\ ~Received -> Ahead("collect") + 1
      [] OTHER -> Ahead(pc)

(* A step of the program leaves it less to do; no other changes that.       *)
GoesOn ==
    IF Body \/ Deferred THEN Left \in 1 .. 24 /\ Left' < Left ELSE Left' = Left

(* How many points are ahead of each.                                       *)
LEMMA AheadIs ==
    /\ Ahead("convert") = 23
    /\ Ahead("info") = 22
    /\ Ahead("lookups") = 21
    /\ Ahead("create") = 20
    /\ Ahead("watchCreate") = 19
    /\ Ahead("rescue") = 18
    /\ Ahead("watchRescue") = 17
    /\ Ahead("poweron") = 16
    /\ Ahead("watchPoweron") = 15
    /\ Ahead("dial") = 14
    /\ Ahead("upload") = 13
    /\ Ahead("collect") = 11
    /\ Ahead("growpart") = 10
    /\ Ahead("e2fsck") = 9
    /\ Ahead("resize") = 8
    /\ Ahead("reboot") = 7
    /\ Ahead("watchReboot") = 6
    /\ Ahead("ready") = 5
    /\ Ahead("ssh") = 4
    /\ Ahead("closeSsh") = 3
    /\ Ahead("delete") = 2
    /\ Ahead("cleanRaw") = 1
    /\ Ahead("exited") = 0
  BY DEF Ahead

(* The program is over after at most 24 of its own steps, whatever fails or *)
(* is lost, whoever interrupts, and whatever goroutines, cloud and network  *)
(* do in between.                                                           *)
THEOREM ProgramGoesOn == Spec => [][GoesOn]_vars
<1>1. ASSUME HInv, Body \/ Deferred
      PROVE  Left \in 1 .. 24 /\ Left' < Left
  <2> USE AheadIs DEF Left, main, Goto, Return, Call, Request, Watch, OnServer
  <2>1. CASE Info
    <3>1. /\ pc = "info" /\ UNCHANGED <<cfg, rawTmp>>
          /\ pc' \in {"closeSsh", IF cfg.convert /\ ~rawTmp THEN "convert" ELSE "lookups"}
      BY <2>1 DEF Info
    <3> QED
      BY <3>1
  <2>2. CASE Convert
    <3>1. pc = "convert" /\ pc' \in {"closeSsh", "info"}
      BY <2>2 DEF Convert
    <3>2. CASE pc' = "info"
      <4>1. ~err /\ err' = err
        BY <2>2, <1>1, <3>1, <3>2 DEF Convert, HInv, UnwindingFollows, Unwinding
      <4>2. rawTmp' = TRUE
        BY <2>2, <4>1 DEF Convert
      <4> QED
        BY <3>1, <3>2, <4>2
    <3> QED
      BY <3>1, <3>2
  <2>3. CASE Lookups
    BY <2>3 DEF Lookups
  <2>4. CASE Create
    BY <2>4 DEF Create
  <2>5. CASE WatchCreate
    BY <2>5 DEF WatchCreate
  <2>6. CASE EnableRescue
    BY <2>6 DEF EnableRescue
  <2>7. CASE WatchRescue
    BY <2>7 DEF WatchRescue
  <2>8. CASE Poweron
    BY <2>8 DEF Poweron
  <2>9. CASE WatchPoweron
    BY <2>9 DEF WatchPoweron
  <2>10. CASE Dial
    BY <2>10 DEF Dial
  <2>11. CASE Upload
    BY <2>11 DEF Upload
  <2>12. CASE Collect
    <3>1. pc = "collect" /\ pc' \in {"collect", "growpart", "closeSsh"}
      BY <2>12 DEF Collect, CollectUntil
    <3>2. CASE pc' = "collect"
      <4>1. PICK w \in Workers : worker[w] = "ok" /\ worker' = [worker EXCEPT ![w] = "received"]
                                /\ ~\A v \in Workers \ {w} : worker[v] = "received"
        BY <2>12, <3>2 DEF Collect, CollectUntil
      <4>2. ~Received
        BY <4>1 DEF Received, Workers
      <4>3. Received'
        BY <4>1, <1>1 DEF Received, HInv, TypeOK
      <4>4. Left = 12
        BY <3>1, <4>2
      <4>5. Left' = 11
        BY <3>2, <4>3
      <4> QED
        BY <4>4, <4>5
    <3> QED
      BY <3>1, <3>2
  <2>13. CASE Growpart
    BY <2>13 DEF Growpart
  <2>14. CASE E2fsck
    BY <2>14 DEF E2fsck
  <2>15. CASE Resize2fs
    BY <2>15 DEF Resize2fs
  <2>16. CASE Reboot
    BY <2>16 DEF Reboot
  <2>17. CASE WatchReboot
    BY <2>17 DEF WatchReboot
  <2>18. CASE Ready
    BY <2>18 DEF Ready
  <2>19. CASE Ssh
    BY <2>19 DEF Ssh
  <2>20. CASE CloseSsh
    BY <2>20 DEF CloseSsh
  <2>21. CASE Delete
    BY <2>21 DEF Delete, DeleteOr
  <2>22. CASE CleanRaw
    BY <2>22 DEF CleanRaw
  <2> QED
    BY <1>1, <2>1, <2>2, <2>3, <2>4, <2>5, <2>6, <2>7, <2>8, <2>9, <2>10, <2>11, <2>12, <2>13, <2>14, <2>15, <2>16, <2>17, <2>18, <2>19, <2>20, <2>21, <2>22 DEF Body, Deferred
<1>2. ASSUME HInv, NEW w \in Workers, Begin(w) \/ End(w)
      PROVE  Left' = Left
  <2>1. UNCHANGED <<pc, cfg, rawTmp>>
    BY <1>2 DEF Begin, End
  <2>2. Received' = Received
    <3> SUFFICES ASSUME NEW v \in Workers
                 PROVE  worker'[v] = "received" <=> worker[v] = "received"
      BY DEF Received
    <3>1. PICK r \in {"running", "ok", "failed"} : worker' = [worker EXCEPT ![w] = r]
      BY <1>2 DEF Begin, End
    <3> QED
      BY <1>2, <3>1 DEF Begin, End, HInv, TypeOK
  <2> QED
    BY <2>1, <2>2 DEF Left
<1>3. ASSUME ActionDone \/ Disconnect \/ Cancel \/ Exited \/ UNCHANGED vars
      PROVE  Left' = Left
  <2>1. UNCHANGED <<pc, cfg, rawTmp, worker>>
    BY <1>3 DEF ActionDone, Disconnect, Cancel, Exited, vars, main, cloud, remote
  <2> QED
    BY <2>1 DEF Left, Received
<1>4. HInv /\ [Next]_vars => [GoesOn]_vars
  BY <1>1, <1>2, <1>3 DEF Next, GoesOn
<1> QED
  BY HetznerInvariant, <1>4, PTL DEF Spec
==============================================================================
