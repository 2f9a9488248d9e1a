---------------------------- MODULE MCInstallFlow ---------------------------
(* Two attempts at the dialog, one at the console; every manifest.            *)
EXTENDS InstallFlow

Interfaces == {"dialog", "console"}
=============================================================================
