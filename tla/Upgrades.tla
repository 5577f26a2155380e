------------------------------ MODULE Upgrades ------------------------------
(***************************************************************************)
(* The versions an installation goes through: the decisions of install and *)
(* repair (lifecycle.go and repairVersionMatches in runner_linux.go) over  *)
(* any sequence of builds that are offered to one host.  What an accepted  *)
(* operation does to the host is the subject of Lifecycle; here it always  *)
(* succeeds, so that the manifest records the version that was offered.    *)
(***************************************************************************)
EXTENDS Versions, FiniteSets

CONSTANTS
    Offers,      \* the declared versions that are offered
    Undeclared,  \* the empty App.Version
    Nothing,     \* there is no manifest
    MaxChain     \* a history holds at most that many versions (a bound of the model)

\* The records that declared versions are, accepted or not.
Texts == [core : Seq(Seq(Int)), pre : Seq(Seq(Int))]

ASSUME OffersAssumption ==
    /\ Offers \subseteq Texts
    /\ Undeclared \notin Offers
    /\ Nothing \notin Offers \cup {Undeclared}
    /\ MaxChain \in Nat

VARIABLES
    installed,   \* the version the manifest records
    answer,      \* the answer to the last operation
    offered,     \* the version that operation was requested for
    replaced     \* history: versions replaced, by install alone and in order,
                 \* since the last one that was not compared with its predecessor

vars == <<installed, answer, offered, replaced>>

Answers == {"none", "install", "upgrade", "repair", "removed",
            "invalid", "same", "downgrade", "mismatch", "absent"}

\* App.Validate, the first thing DecideInstall does.
Valid(v) == v = Undeclared \/ Accepted(v)

Declared(v) == v \notin {Undeclared, Nothing}

\* Mutants of DecideInstall and RepairVersionMatches.
DecideInstall_Unvalidated(v, allowDowngrade) ==
    CASE installed = Nothing -> "install"
      [] installed # Nothing ->
            IF ~Valid(v) THEN "invalid"
            ELSE IF Declared(v) /\ Declared(installed) /\ Compare(v, installed) <= 0
                    /\ ~allowDowngrade
            THEN (IF Compare(v, installed) = 0 THEN "same" ELSE "downgrade") ELSE "upgrade"
RepairVersionMatches_AnyUndeclared(v) ==
    ~Declared(v) \/ ~Declared(installed) \/ Compare(v, installed) = 0

\* DecideInstall
DecideInstall(v, allowDowngrade) ==
    LET compared == Declared(v) /\ Declared(installed)
    IN  CASE ~Valid(v)                                       -> "invalid"
          [] Valid(v) /\ installed = Nothing                 -> "install"
          [] Valid(v) /\ installed # Nothing /\ ~compared    -> "upgrade"
          [] Valid(v) /\ compared /\ Compare(v, installed) = 0 -> "same"
          [] Valid(v) /\ compared /\ Compare(v, installed) < 0 /\ ~allowDowngrade
                                                             -> "downgrade"
          [] OTHER                                           -> "upgrade"

\* repairVersionMatches
RepairVersionMatches(v) ==
    IF Declared(v) /\ Declared(installed) THEN Compare(v, installed) = 0
                                          ELSE v = installed

Init ==
    /\ installed = Nothing
    /\ answer = "none"
    /\ offered = Nothing
    /\ replaced = {}

\* install, of the version v
Install(v, allowDowngrade) ==
    LET decision == DecideInstall(v, allowDowngrade)
    IN  /\ Cardinality(replaced) < MaxChain
        /\ answer' = decision
        /\ offered' = v
        /\ IF decision \in {"install", "upgrade"}
           THEN /\ installed' = v
                /\ replaced' = IF Declared(v) /\ Declared(installed) /\ ~allowDowngrade
                               THEN replaced \cup {installed} ELSE {}
           ELSE UNCHANGED <<installed, replaced>>

\* repair, by a build of the version v
Repair(v) ==
    LET decision == CASE ~Valid(v)                                  -> "invalid"
                      [] Valid(v) /\ installed = Nothing            -> "absent"
                      [] Valid(v) /\ installed # Nothing ->
                            IF RepairVersionMatches(v) THEN "repair" ELSE "mismatch"
    IN  /\ answer' = decision
        /\ offered' = v
        /\ installed' = IF decision = "repair" THEN v ELSE installed
        /\ UNCHANGED replaced

Remove ==
    /\ installed # Nothing
    /\ installed' = Nothing
    /\ answer' = "removed"
    /\ offered' = Nothing
    /\ replaced' = {}

Next ==
    \/ \E v \in Offers \cup {Undeclared} :
          Repair(v) \/ \E allowDowngrade \in BOOLEAN : Install(v, allowDowngrade)
    \/ Remove

Spec == Init /\ [][Next]_vars

-----------------------------------------------------------------------------
(* Properties                                                              *)

\* Every variable has its type, and only valid versions are ever recorded.
TypeOK ==
    /\ installed \in Offers \cup {Undeclared, Nothing}
    /\ Declared(installed) => Accepted(installed)
    /\ answer \in Answers
    /\ offered \in Offers \cup {Undeclared, Nothing}
    /\ replaced \subseteq Offers

(***************************************************************************)
(* A version that was replaced is never accepted again, however long the   *)
(* chain of upgrades since and whatever their identifiers look like: no    *)
(* sequence of upgrades leads back (Version.Compare orders the versions    *)
(* totally).                                                               *)
(***************************************************************************)
NeverBack ==
    Declared(installed) =>
        \A u \in replaced : DecideInstall(u, FALSE) = "downgrade"

(***************************************************************************)
(* No build is left without a way in, or with two of different meaning:    *)
(* what install refuses as the same version is what repair accepts, and    *)
(* both accept a build only where no version is declared at all.           *)
(***************************************************************************)
SameMeansRepair ==
    installed # Nothing =>
        \A v \in Offers \cup {Undeclared} : Valid(v) =>
            (RepairVersionMatches(v) <=>
                \/ DecideInstall(v, FALSE) = "same"
                \/ v = Undeclared /\ installed = Undeclared)

(***************************************************************************)
(* An upgrade that needed no leave to downgrade raises the precedence that *)
(* Semantic Versioning 2.0.0 gives the two versions (CompareVersions), as  *)
(* long as no identifier of digits is too large for the code.              *)
(***************************************************************************)
UpgradesFollowSemVer ==
    Declared(installed) /\ Fits(installed) =>
        \A u \in replaced : Fits(u) => SemVerBelow(u, installed)

=============================================================================
