-------------------------- MODULE MCGuideCreation --------------------------
(***************************************************************************)
(* Two clients, an upload of two files - f1 with a picture, f2 without -   *)
(* and another upload that no file is of.  Each client names either upload *)
(* and either file, chosen in the initial state: the same file twice, two  *)
(* files of the upload, a file paired with the wrong upload.               *)
(***************************************************************************)
EXTENDS GuideCreation, TLC

CONSTANTS f1, f2, u1, u2, p1, p2

MCFiles == {f1, f2}
MCUploads == {u1, u2}
MCUploadOf == f1 :> u1 @@ f2 :> u1
MCPictures == {p1, p2}
MCPicturesOf == f1 :> {p1, p2} @@ f2 :> {}
MCMaxLives == f1 :> 2 @@ f2 :> 1

=============================================================================
