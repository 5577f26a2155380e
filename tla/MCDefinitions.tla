--------------------------- MODULE MCDefinitions ---------------------------
(***************************************************************************)
(* A small instance of Definitions for TLC: all texts of up to MaxLength   *)
(* characters.                                                             *)
(***************************************************************************)
EXTENDS Definitions

CONSTANT MaxLength

MCValues == UNION {[1 .. n -> {"x"} \cup Special] : n \in 0 .. MaxLength}

=============================================================================
