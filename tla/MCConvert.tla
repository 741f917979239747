------------------------------ MODULE MCConvert ------------------------------
(* Instances of Convert for TLC: the runs' flags and what may fail.         *)
EXTENDS Convert

CONSTANTS a, b

Two == {a, b}

(* Every combination of flags where everything may fail but closing the     *)
(* output and the last RemoveAll, and the user may interrupt; and where     *)
(* everything may fail but docker rmi, and nobody interrupts.               *)
Runs(flaky, interrupts) ==
    [cmd : {"build", "convert"}, force : BOOLEAN, keepCache : BOOLEAN, disk : BOOLEAN,
     push : BOOLEAN, flaky : {flaky}, interrupts : {interrupts}]

AnyRun == Runs(Steps \ {"closeFile", "removeTmp"}, TRUE) \cup Runs(Steps \ {"removeVM"}, FALSE)

(* Runs told apart by --force and interrupts, which may fail late, once the *)
(* output is being replaced.                                                *)
ForceOrNot == [cmd : {"convert"}, force : BOOLEAN, keepCache : {FALSE}, disk : {FALSE},
               push : {FALSE}, flaky : {{"build", "removeOld", "create", "copy"}},
               interrupts : BOOLEAN]

(* Runs of either command in which nothing goes wrong.                      *)
Smooth == [cmd : {"build", "convert"}, force : {FALSE}, keepCache : BOOLEAN, disk : {FALSE},
           push : {FALSE}, flaky : {{}}, interrupts : {FALSE}]

AloneOrPair == [{a} -> AnyRun] \cup [Two -> ForceOrNot]
SmoothAlone == [{a} -> Smooth]
SmoothPair == [Two -> Smooth]
==============================================================================
