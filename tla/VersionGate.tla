----------------------------- MODULE VersionGate -----------------------------
(***************************************************************************)
(* The semantic-version admission gate of UnifiedClient                    *)
(* (src/Common/RegisterCenter/UnifiedClient.go: Init's validation of the   *)
(* dependency version, checkVersion).                                      *)
(*                                                                         *)
(* A version string is abstracted to what golang.org/x/mod/semver tells    *)
(* apart:                                                                  *)
(*   kind  "empty"  the empty string;                                      *)
(*         "num"    digits that form a valid semver once prefixed by "v";  *)
(*         "junk"   anything else ("bogus", "1.x", ...);                   *)
(*   lead  whether the string already starts with 'v';                     *)
(*   major, minor, patch  the numeric components (meaningful for "num");   *)
(*   pre   whether it carries a pre-release tag (all tags compare equal).  *)
(* The normalisation (prefixing "v") is modelled by what it does: it sets  *)
(* lead, so "1.2.0" and "v1.2.0" become the same string.                   *)
(***************************************************************************)
EXTENDS Integers

Version(S) == [kind : {"empty", "num", "junk"}, lead : BOOLEAN,
               major : S, minor : S, patch : S, pre : BOOLEAN]

\* if version[0] != 'v' { version = "v" + version }
Normalize(v) == [v EXCEPT !.lead = TRUE]

\* semver.IsValid on a normalised string: only the digits decide.
IsValid(v) == v.lead /\ v.kind = "num"

\* semver.Major: the major component.
Major(v) == v.major

\* semver.Compare: -1, 0 or 1 by precedence; a pre-release sorts before the
\* release with the same numbers.
Compare(a, b) ==
  LET ta == <<a.major, a.minor, a.patch>>
      tb == <<b.major, b.minor, b.patch>>
      Lt(x, y) == \/ x[1] < y[1]
                  \/ x[1] = y[1] /\ x[2] < y[2]
                  \/ x[1] = y[1] /\ x[2] = y[2] /\ x[3] < y[3]
  IN CASE Lt(ta, tb)                      -> -1
       [] Lt(tb, ta)                      -> 1
       [] a.pre /\ ~b.pre                 -> -1
       [] ~a.pre /\ b.pre                 -> 1
       [] OTHER                           -> 0

\* unifiedClient.Init: the dependency's version must be non-empty and valid
\* once normalised; relySemver keeps the normalised string.
ValidRely(rely) == rely.kind # "empty" /\ IsValid(Normalize(rely))

\* Bug variant of checkVersion: the major versions are not compared.
checkVersionNoMajor(version, relySemver) ==
  /\ version.kind # "empty"
  /\ IsValid(Normalize(version))
  /\ Compare(Normalize(version), relySemver) >= 0

\* unifiedClient.checkVersion(version) against the normalised relySemver.
checkVersion(version, relySemver) ==
  /\ version.kind # "empty"
  /\ IsValid(Normalize(version))
  /\ Major(Normalize(version)) = Major(relySemver)
  /\ Compare(Normalize(version), relySemver) >= 0

\* The admission rule as the specification states it (AcceptNode): both
\* versions valid, the same major version, and the node not older.
AcceptNode(nodeVersion, minVersion) ==
  LET n == Normalize(nodeVersion)
      m == Normalize(minVersion)
  IN  IsValid(n) /\ IsValid(m) /\ n.major = m.major /\ Compare(n, m) # -1

=============================================================================
