------------------------------ MODULE VirtualAB ------------------------------
(***************************************************************************)
(* What libsnapshot promises of an update.  The image of the device is one *)
(* per partition, and shared by the two slots.  The update is prepared,    *)
(* can be dropped until it is committed, and once committed it is merged   *)
(* to the end.  Whichever slot runs, it runs on an image that is its own:  *)
(* slot Old on the old one, slot New on the new one, which it sees through *)
(* snapshots as long as the update is pending or merging.                  *)
(***************************************************************************)
CONSTANT Partitions

VARIABLES
    phase,     \* none, applying, pending (to be booted) or merging
    running,   \* the slot that runs, or off
    image      \* image[p]: old, mixed or new

vars == <<phase, running, image>>

Old == "_a"
New == "_b"
Off == "off"

AllOld == \A p \in Partitions : image[p] = "old"
AllNew == \A p \in Partitions : image[p] = "new"

Init ==
    /\ phase = "none"
    /\ running = Old
    /\ image = [p \in Partitions |-> "old"]

Begin ==
    /\ phase = "none" /\ running # Off
    /\ phase' = "applying"
    /\ UNCHANGED <<running, image>>

Finish ==
    /\ phase = "applying" /\ running = Old
    /\ phase' = "pending"
    /\ UNCHANGED <<running, image>>

(* Dropping an update leaves the image of the old slot as it was. *)
Cancel ==
    /\ \/ phase = "applying" /\ running # Off
       \/ phase = "pending" /\ running = Old
    /\ phase' = "none"
    /\ UNCHANGED <<running, image>>

Commit ==
    /\ phase = "pending" /\ running = New
    /\ phase' = "merging"
    /\ UNCHANGED <<running, image>>

Merge(p) ==
    /\ phase = "merging" /\ running = New
    /\ \/ image[p] = "old" /\ image' = [image EXCEPT ![p] = "mixed"]
       \/ image[p] = "mixed" /\ image' = [image EXCEPT ![p] = "new"]
    /\ UNCHANGED <<phase, running>>

Complete ==
    /\ phase = "merging" /\ running = New /\ AllNew
    /\ phase' = "none"
    /\ UNCHANGED <<running, image>>

TurnOff ==
    /\ running # Off
    /\ running' = Off
    /\ UNCHANGED <<phase, image>>

TurnOn ==
    /\ running = Off
    /\ \/ running' = Old /\ AllOld
       \/ running' = New /\ (phase \in {"pending", "merging"} \/ AllNew)
    /\ UNCHANGED <<phase, image>>

Next ==
    \/ Begin \/ Finish \/ Cancel \/ Commit \/ Complete \/ TurnOff \/ TurnOn
    \/ \E p \in Partitions : Merge(p)

Spec == Init /\ [][Next]_vars
==============================================================================
