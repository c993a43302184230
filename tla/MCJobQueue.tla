------------------------------ MODULE MCJobQueue ------------------------------
(* Values of the constants of JobQueue for TLC. *)
EXTENDS JobQueueClaims, TLC

CONSTANTS j1, j2

\* One job of each kind that has an uploaded file.
PdfAndImage == j1 :> "pdf" @@ j2 :> "image"
OneImage    == j1 :> "image"
OnePdf      == j1 :> "pdf"
===============================================================================
