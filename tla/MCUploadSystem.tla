--------------------------- MODULE MCUploadSystem ---------------------------
(* Instances of UploadSystem for TLC. *)
EXTENDS UploadSystem

MCNames == {"a.txt", "c.jpeg", "none.txt"}
MCExt == [f \in MCNames |-> IF f = "c.jpeg" THEN "jpeg" ELSE "txt"]
MCSize == [f \in MCNames |-> CASE f = "none.txt" -> -1 [] f = "a.txt" -> 3
                               [] OTHER -> 1]
MCDisk == [f \in MCNames |-> IF f = "a.txt" THEN Absent ELSE <<Fragment(f, 1)>>]
NoSends == {<<>>}
=============================================================================
