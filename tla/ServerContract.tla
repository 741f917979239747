--------------------------- MODULE ServerContract ---------------------------
(***************************************************************************)
(* What a run on a rented server promises whoever pays for it, whatever    *)
(* the program, the cloud and the connection do: one server is ordered at  *)
(* most, its disk is only written in the rescue system and while the       *)
(* program is there to see it, it only boots a disk that is finished, what *)
(* was given back does not return, and a success is a server that runs the *)
(* image or, if it was only wanted for a while, ran it and is gone.        *)
(*                                                                         *)
(* The cloud may still boot a server when the program is over.             *)
(* run hetzner (hetzner.go) implements it, see Contract in Hetzner.tla.    *)
(***************************************************************************)
VARIABLES
    forAWhile,          \* the server is to be given back in any case
    life,               \* of the server
    image,              \* how much of the image its disk holds
    verdict             \* what the program said of the run

contractVars == <<forAWhile, life, image, verdict>>

Init ==
    /\ forAWhile \in BOOLEAN
    /\ life = "none"
    /\ image = "empty"
    /\ verdict = "open"

(* A server is ordered, once. *)
Order ==
    /\ verdict = "open" /\ life = "none"
    /\ life' = "off"
    /\ UNCHANGED <<forAWhile, image, verdict>>

(* It comes up in the rescue system. *)
Rescue ==
    /\ life = "off"
    /\ life' = "rescue"
    /\ UNCHANGED <<forAWhile, image, verdict>>

(* Its disk is written: some of the image, all of it, and made to fit. *)
Write ==
    /\ verdict = "open" /\ life = "rescue"
    /\ <<image, image'>> \in {<<"empty", "partial">>, <<"partial", "whole">>, <<"whole", "finished">>}
    /\ UNCHANGED <<forAWhile, life, verdict>>

(* It boots the image. *)
Boot ==
    /\ life = "rescue" /\ image = "finished"
    /\ life' = "serving"
    /\ UNCHANGED <<forAWhile, image, verdict>>

(* It is given back, for good. *)
GiveBack ==
    /\ verdict = "open" /\ life \in {"off", "rescue", "serving"}
    /\ life' = "gone"
    /\ UNCHANGED <<forAWhile, image, verdict>>

(* The program ends. *)
Succeed ==
    /\ verdict = "open" /\ image = "finished"
    /\ life = (IF forAWhile THEN "gone" ELSE "serving")
    /\ verdict' = "success"
    /\ UNCHANGED <<forAWhile, life, image>>

GiveUp ==
    /\ verdict = "open"
    /\ verdict' = "failure"
    /\ UNCHANGED <<forAWhile, life, image>>

Next == Order \/ Rescue \/ Write \/ Boot \/ GiveBack \/ Succeed \/ GiveUp

Spec == Init /\ [][Next]_contractVars
=============================================================================
