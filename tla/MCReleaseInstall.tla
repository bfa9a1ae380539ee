-------------------------- MODULE MCReleaseInstall --------------------------
(* Instances of ReleaseInstall small enough for TLC. *)
EXTENDS ReleaseInstall

BothInstallers == {"sync", "download"}
TheCheck == {"sync"}

\* The second of three releases is refused.
FirstAndThird == {1, 3}
AllReleases == Versions
=============================================================================
