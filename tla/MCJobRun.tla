-------------------------------- MODULE MCJobRun --------------------------------
(* Values for the checks of JobRun: every kind of upload in every mode it may have. *)
EXTENDS JobRun

Upload(kind, mode, forced) == [kind |-> kind, mode |-> mode, forced |-> forced]

MCUploads ==
    {Upload("text", mode, FALSE) : mode \in {"overlay", "layout"}}
    \cup {Upload("pdf", mode, forced) : mode \in Modes, forced \in BOOLEAN}
    \cup {Upload("image", mode, FALSE) : mode \in Modes}

MCOverlays == {Upload(kind, "overlay", FALSE) : kind \in {"pdf", "image"}}
=================================================================================
