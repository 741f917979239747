------------------------------ MODULE MCHetzner ------------------------------
(* Instances of Hetzner for TLC: what may fail.                             *)
EXTENDS Hetzner

In(flaky, lossy, interrupts) ==
    [convert : BOOLEAN, rm : BOOLEAN, flaky : {flaky}, lossy : {lossy}, interrupts : {interrupts}]

(* Anything may happen; the cloud deletes what it is told to; and nobody    *)
(* interrupts, so that the program has to end by itself.                    *)
AnyRun == In(Steps, Requests, TRUE) \cup In(Steps \ {"delete"}, Requests, TRUE)
          \cup In(Steps, Requests, FALSE)

InterruptOnly == In({}, {}, TRUE)
==============================================================================
