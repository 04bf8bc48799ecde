------------------------- MODULE MCGarmentEditing --------------------------
(* A small instance of GarmentEditing: every garment has its own uploader. *)
EXTENDS GarmentEditing

MCUploader == [g \in Garments |-> g]

============================================================================
