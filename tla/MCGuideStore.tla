---------------------------- MODULE MCGuideStore ----------------------------
(***************************************************************************)
(* Two saves of one version, three pictures and a pool of two threads, so  *)
(* that a picture waits while two are written.  The second save, by        *)
(* another build of the parser, has not found the third picture.           *)
(***************************************************************************)
EXTENDS GuideStore, TLC

CONSTANTS s1, s2, p1, p2, p3

MCSaves == {s1, s2}
MCPictures == {p1, p2, p3}
MCPicturesOf == s1 :> {p1, p2, p3} @@ s2 :> {p1, p2}

=============================================================================
