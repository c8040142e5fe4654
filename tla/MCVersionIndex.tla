--------------------------- MODULE MCVersionIndex ---------------------------
(***************************************************************************)
(* The instance of the release, with the jobs that regenerate the index.   *)
(***************************************************************************)
EXTENDS MCRelease, VersionIndex

\* GitHub's API answers or does not.
MCSilences == {{}, {"tags", "cli"}}
=============================================================================
