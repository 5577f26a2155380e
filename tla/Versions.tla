------------------------------ MODULE Versions ------------------------------
(***************************************************************************)
(* Versions and their precedence (version.go).  A character is an integer  *)
(* ordered like its byte: digits are 0 .. Base - 1, letters are greater    *)
(* and the hyphen is less.  A declared version is the record of its text   *)
(* split at the separators,                                                *)
(*   core - the parts between the dots, MAJOR.MINOR.PATCH when well formed *)
(*   pre  - the prerelease identifiers, none when there is no prerelease   *)
(* Build metadata is left out: it is checked and never compared.           *)
(* Numbers are uint64 in the code: MaxUint is the largest of them here.    *)
(***************************************************************************)
EXTENDS Integers, Sequences

CONSTANTS Base, MaxUint

ASSUME WidthAssumption == Base \in Nat \ {0, 1} /\ MaxUint \in Nat

Sign(n) == IF n < 0 THEN -1 ELSE IF n > 0 THEN 1 ELSE 0

Shorter(s, t) == IF Len(s) <= Len(t) THEN Len(s) ELSE Len(t)

\* The first of the comparisons that is not a tie, otherwise the last resort.
FirstOf(signs, resort) ==
    LET decisive == {i \in DOMAIN signs : signs[i] # 0}
    IN  IF decisive = {} THEN resort
        ELSE signs[CHOOSE i \in decisive : \A j \in decisive : i <= j]

-----------------------------------------------------------------------------
(* Identifiers                                                             *)

AllDigits(id) == \A i \in DOMAIN id : id[i] \in 0 .. Base - 1

Value(id) ==
    LET value[n \in 0 .. Len(id)] == IF n = 0 THEN 0 ELSE value[n - 1] * Base + id[n]
    IN  value[Len(id)]

\* numericIdentifier: digits only, and a value strconv.ParseUint can represent.
Numeric(id) == AllDigits(id) /\ Value(id) <= MaxUint

\* The order of Go strings.
CompareText(a, b) ==
    FirstOf([i \in 1 .. Shorter(a, b) |-> Sign(a[i] - b[i])], Sign(Len(a) - Len(b)))

\* Mutant of CompareIdentifiers.
CompareIdentifiers_Mixed(a, b) ==
    IF Numeric(a) /\ Numeric(b) THEN Sign(Value(a) - Value(b)) ELSE CompareText(a, b)

\* Numeric identifiers by value and below all others; the others as text.
CompareIdentifiers(a, b) ==
    CASE Numeric(a) /\ Numeric(b)   -> Sign(Value(a) - Value(b))
      [] Numeric(a) /\ ~Numeric(b)  -> -1
      [] ~Numeric(a) /\ Numeric(b)  -> 1
      [] ~Numeric(a) /\ ~Numeric(b) -> CompareText(a, b)

-----------------------------------------------------------------------------
(* Versions                                                                *)

\* parseIdentifiers: the leading zero is only looked for in what counts as numeric.
IdentifierAccepted(id) ==
    /\ id # <<>>
    /\ Len(id) > 1 /\ id[1] = 0 => ~Numeric(id)

\* parseCoreNumber
CoreNumberAccepted(part) ==
    /\ part # <<>>
    /\ Len(part) > 1 => part[1] # 0
    /\ Numeric(part)

\* ParseVersion succeeds.
Accepted(v) ==
    /\ \A i \in DOMAIN v.pre : IdentifierAccepted(v.pre[i])
    /\ Len(v.core) = 3
    /\ \A i \in 1 .. 3 : CoreNumberAccepted(v.core[i])

\* Mutant of ComparePrerelease.
ComparePrerelease_ReleaseFirst(p, q) ==
    FirstOf([i \in 1 .. Shorter(p, q) |-> CompareIdentifiers(p[i], q[i])],
            Sign(Len(p) - Len(q)))

\* A release is above its prereleases; more identifiers win when the first ones tie.
ComparePrerelease(p, q) ==
    CASE p = <<>> /\ q = <<>> -> 0
      [] p = <<>> /\ q # <<>> -> 1
      [] p # <<>> /\ q = <<>> -> -1
      [] p # <<>> /\ q # <<>> ->
            FirstOf([i \in 1 .. Shorter(p, q) |-> CompareIdentifiers(p[i], q[i])],
                    Sign(Len(p) - Len(q)))

\* Version.Compare, for two versions that ParseVersion accepts.
Compare(v, w) ==
    FirstOf([i \in 1 .. 3 |-> Sign(Value(v.core[i]) - Value(w.core[i]))],
            ComparePrerelease(v.pre, w.pre))

-----------------------------------------------------------------------------
(***************************************************************************)
(* Semantic Versioning 2.0.0, which the project declares to follow: the    *)
(* rules say nothing of widths: an identifier of digits is a number however*)
(* long it is.  SemVerBelow: version u is below version v.                 *)
(***************************************************************************)
SemVerIdentifierBelow(a, b) ==
    \/ AllDigits(a) /\ AllDigits(b) /\ Value(a) < Value(b)
    \/ AllDigits(a) /\ ~AllDigits(b)
    \/ ~AllDigits(a) /\ ~AllDigits(b) /\ CompareText(a, b) = -1

SemVerPrereleaseBelow(p, q) ==
    \/ p # <<>> /\ q = <<>>
    \/ /\ p # <<>> /\ q # <<>>
       /\ \E n \in 0 .. Shorter(p, q) :
             /\ SubSeq(p, 1, n) = SubSeq(q, 1, n)
             /\ \/ n = Len(p) /\ n < Len(q)
                \/ n < Shorter(p, q) /\ SemVerIdentifierBelow(p[n + 1], q[n + 1])

\* Its identifiers of digits are numbers for the code, too.
Fits(v) == \A i \in DOMAIN v.pre : AllDigits(v.pre[i]) => Value(v.pre[i]) <= MaxUint

SemVerBelow(u, v) ==
    \/ \E n \in 1 .. 3 : /\ \A i \in 1 .. n - 1 : u.core[i] = v.core[i]
                         /\ Value(u.core[n]) < Value(v.core[n])
    \/ u.core = v.core /\ SemVerPrereleaseBelow(u.pre, v.pre)

=============================================================================
