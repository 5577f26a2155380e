---------------------------- MODULE Transaction ----------------------------
(***************************************************************************)
(* What a lifecycle operation promises to somebody who does not see its    *)
(* steps: it happens entirely, at the moment its manifest is written or    *)
(* deleted, or not at all; operations follow one another; and a fresh      *)
(* install takes nothing over.  Only a crash in the middle, a rollback     *)
(* that fails or somebody who alters the files may leave the installation  *)
(* in doubt, and the next operation that commits settles it again.         *)
(***************************************************************************)
CONSTANTS Procs, Builds, Contents, None

VARIABLES
    owner,      \* the process whose operation is under way
    installed,  \* the manifest
    binary,     \* the contents of the install path
    unit,       \* the contents of the service definition path
    certain     \* nothing has left the installation in doubt

vars == <<owner, installed, binary, unit, certain>>

Nothing == [build |-> None, hash |-> None, service |-> FALSE]

Init ==
    /\ owner = None
    /\ installed = Nothing
    /\ binary \in Contents
    /\ unit \in Contents
    /\ certain = TRUE

Begin ==
    /\ owner = None
    /\ owner' \in Procs
    /\ UNCHANGED <<installed, binary, unit, certain>>

\* The operation ends; whatever it has not committed by now has not happened.
End ==
    /\ owner # None
    /\ owner' = None
    /\ UNCHANGED <<installed, binary, unit, certain>>

\* A definition that belongs to the installation goes with its service.
UnitWithoutService == IF installed.service THEN None ELSE unit

\* Nothing is taken over: what a fresh install writes was not there, or stays the same.
Vacant(service) ==
    /\ binary = None \/ binary' = binary
    /\ service => unit = None

\* Install, upgrade or repair.
Install ==
    /\ owner # None
    /\ \E b \in Builds, service \in BOOLEAN :
          /\ installed = Nothing => Vacant(service)
          /\ installed' = [build |-> b, hash |-> binary', service |-> service]
          /\ unit' = IF service THEN b ELSE UnitWithoutService
    /\ binary' \in Contents \ {None}
    /\ certain' = TRUE
    /\ UNCHANGED owner

Remove ==
    /\ owner # None
    /\ installed # Nothing
    /\ installed' = Nothing
    /\ binary' = None
    /\ unit' = UnitWithoutService
    /\ certain' = TRUE
    /\ UNCHANGED owner

\* A crash, a rollback that failed, or files altered from outside.
Interrupt ==
    /\ certain' = FALSE
    /\ owner' \in {owner, None}
    /\ binary' \in Contents
    /\ unit' \in Contents
    /\ UNCHANGED installed

Next == Begin \/ End \/ Install \/ Remove \/ Interrupt

Spec == Init /\ [][Next]_vars

-----------------------------------------------------------------------------

(***************************************************************************)
(* Unless it is in doubt, the installation is what the manifest says: the  *)
(* binary has the recorded hash and the definition of a recorded service   *)
(* is the one of the recorded version.                                     *)
(***************************************************************************)
Consistent ==
    certain /\ installed # Nothing =>
        /\ binary = installed.hash
        /\ installed.service => unit = installed.build

=============================================================================
