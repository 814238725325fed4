-------------------------- MODULE MCUpgradeInstall --------------------------
(***************************************************************************)
(* UpgradeInstall with a handful of releases, some of them bad.            *)
(***************************************************************************)
EXTENDS UpgradeInstall

\* Releases 3 to 7 cannot reach the manager.  3 stays up all the same; 4 to 7
\* die, which is one more in a row than Keep.
MCBad == Versions \cap 3..7
MCHangs == Versions \cap {3}

\* Every release after the installed one is bad.
MCAllBad == Versions \ {Installed}

\* No release is bad, or none of the bad ones hangs.
MCNone == {}
=============================================================================
