----------------------------- MODULE MCSaveRam -----------------------------
(* Two games, three RAM contents, and four choices of the faults.            *)
EXTENDS SaveRam

McGames == {"g1", "g2"}
McValues == {"ff", "v1", "v2"}

AllFaults == FaultKinds
\* The faults saving is meant to survive: every one before the commit point.
BeforeCommit == FaultKinds \ {"rename", "windowCrash"}
OnlyWindowCrash == {"windowCrash"}
\* Those after which a normal shutdown may leave a game unsaved.
OpenOrRename == {"open", "rename"}
=============================================================================
