------------------------------ MODULE MCBuilder ------------------------------
(* Instances of Builder for TLC: which commands may fail.                   *)
EXTENDS Builder

(* Everything works but the way to the image; the same and the conversion;  *)
(* all but grub's umounts may fail; anything may fail.  Each with and       *)
(* without an interrupt.                                                    *)
AllEnvironments ==
    [flaky : {Commands \ (Cleanup \cup {"convert2Img"}), Commands \ Cleanup,
              Commands \ {"grubClean"}, Commands},
     interrupts : BOOLEAN]

InterruptOnly == [flaky : {{}}, interrupts : {TRUE}]
==============================================================================
