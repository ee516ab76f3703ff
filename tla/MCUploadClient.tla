--------------------------- MODULE MCUploadClient ---------------------------
(* Instances of UploadClient for TLC. *)
EXTENDS UploadClient

MCNames == {"a.txt", "b.png", "c.jpeg", "none.txt"}
TwoNames == {"a.txt", "b.png"}
MCExt == [f \in MCNames |-> CASE f = "b.png" -> "png" [] f = "c.jpeg" -> "jpeg"
                              [] OTHER -> "txt"]
MCSize == [f \in MCNames |-> CASE f = "none.txt" -> -1 [] f = "a.txt" -> 2
                               [] OTHER -> 1]
=============================================================================
