------------------------------ MODULE MCThumbs ------------------------------
EXTENDS Thumbs

(* Room for three thumbnails, for one and for none; the cursor goes past   *)
(* both ends of the folder.                                                *)
MCSizes == {1, 2, 4}
MCMinSlot == -1
=============================================================================
