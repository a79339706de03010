------------------------------ MODULE Flashing ------------------------------
(***************************************************************************)
(* What an installer of boot images promises, whatever its tools do: an    *)
(* attempt first makes an image that fits, without touching the partition; *)
(* then erases and writes it, one after the other; and then ends.  Only a  *)
(* cut of the power leaves an attempt without an end.                      *)
(***************************************************************************)
CONSTANTS Images,     \* what the partition can hold
          Blank,      \* an erased partition
          Fits(_, _), \* which image fits a partition of which size
          Torn(_)     \* what a write that stops half way leaves of an image

VARIABLES room,       \* size of the partition
          stage,      \* where the attempt is
          partition,  \* content of the partition
          image       \* the image about to be written, Blank if there is none

Stages == {"off", "preparing", "erased", "written", "over"}

Init == stage = "off" /\ partition \in Images /\ image = Blank

Begin ==
  /\ stage \in {"off", "over"}
  /\ stage' = "preparing"
  /\ UNCHANGED <<room, partition, image>>

Erase ==
  /\ stage = "preparing"
  /\ stage' = "erased"
  /\ partition' = Blank
  /\ image' \in {i \in Images \ {Blank} : Fits(i, room)}
  /\ UNCHANGED room

(* An installer may miss that its write has failed.                        *)
Write ==
  /\ stage = "erased"
  /\ stage' = "written"
  /\ partition' \in {image} \cup Torn(image)
  /\ image' = Blank
  /\ UNCHANGED room

(* "Done!" or an abort; an abort of the preparation too.                   *)
End ==
  /\ stage \in {"preparing", "written"}
  /\ stage' = "over"
  /\ UNCHANGED <<room, partition, image>>

PowerOff ==
  /\ stage \in {"preparing", "erased", "written"}
  /\ stage' = "off"
  /\ partition' \in {partition} \cup (IF stage = "erased" THEN Torn(image) ELSE {})
  /\ image' = Blank
  /\ UNCHANGED room

Next == Begin \/ Erase \/ Write \/ End \/ PowerOff

(* No stage waits for anything outside of the phone: an attempt ends.      *)
Ends == stage \in {"preparing", "erased", "written"} ~> stage \in {"off", "over"}

Safety == Init /\ [][Next]_<<room, stage, partition, image>>

Spec == Safety /\ Ends
=============================================================================
