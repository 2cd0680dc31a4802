---------------------------- MODULE MCCatalogue ----------------------------
(* Declarations, rooms and proofs for Catalogue_rooms. *)
EXTENDS Catalogue, TLC

LightCan == {"setPower", "setBrightness", "setAutomationConfig"}

Lamp(id, name, can) ==
  [id |-> id, name |-> name, type |-> "light", category |-> "lighting", capabilities |-> can]

MCDeclarations == {Lamp("s1", "Lamp", LightCan), Lamp("s1", "Other", LightCan),
                   Lamp("door", "Lamp", LightCan)}
MCForeignProofs == {[claims |-> Lamp("s1", "Lamp", LightCan), signer |-> "other"]}
MCNewRooms == {[id |-> "r1", name |-> "Study"], [id |-> "r2", name |-> "Study"]}

(* The handlers are alike, and no property here is about fairness. *)
Symmetry == Permutations(Clients)
=============================================================================
