---------------------------- MODULE MCFileServer ----------------------------
(* Instances of FileServer for TLC. *)
EXTENDS FileServer

MCNames == {"a.txt", "b.png", "c.mp4", "new.png", "d.pdf"}
MCExt == [f \in MCNames |->
             CASE f = "a.txt" -> "txt" [] f = "c.mp4" -> "mp4"
               [] f = "d.pdf" -> "pdf" [] OTHER -> "png"]
File(f, n) == [i \in 1 .. n |-> Fragment(f, i)]
MCDisk == [f \in MCNames |->
              CASE f = "new.png" -> Absent [] f \in {"a.txt", "c.mp4"} -> File(f, 1)
                [] OTHER -> File(f, 2)]
Uploading(f, n) == <<Upload(f), Valid>> \o File(f, n)

\* Browsers and uploads on the same files, peers that are refused and peers
\* that send nonsense.
MixedSends ==
    {<<Get("b.png"), Get(Dir)>>, Uploading("b.png", 1),
     <<Get("c.mp4")>>, Uploading("c.mp4", 2), <<Get("a.txt"), Get("new.png")>>,
     Uploading("new.png", 1), <<Upload("new.png"), Invalid>>,
     Uploading("d.pdf", 1), <<Get(Absent)>>, <<Upload(Absent)>>, <<Blank>>}
=============================================================================
