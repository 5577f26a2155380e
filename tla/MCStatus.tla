------------------------------ MODULE MCStatus ------------------------------
(***************************************************************************)
(* A small instance of Status for TLC.                                     *)
(***************************************************************************)
EXTENDS MCLifecycle, Status

\* Upgrade, downgrade, repair and remove.
StatusRequests ==
    {Plain(Ask("install", v2)), [Plain(Ask("install", v1)) EXCEPT !.downgrade = TRUE],
     Plain(Ask("repair", v2)), Plain(Ask("remove", v1))}

=============================================================================
