----------------------------- MODULE MCReleases -----------------------------
(* Model values for ReleaseLineage. *)
EXTENDS ReleaseLineage

NothingActive == <<>>
=============================================================================
