---- MODULE MCReleaseInstall ----
(* The instance of the release_install run. *)
EXTENDS ReleaseInstall
CONSTANTS u1, u2, manifest, code, pty, addon
TwoReleases == {2, 3}
NeedsAddon == [m \in Modules |-> IF m = pty THEN {addon} ELSE {}]
====
