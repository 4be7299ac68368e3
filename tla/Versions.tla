-------------------------------- MODULE Versions --------------------------------
(***************************************************************************)
(* Version numbers and their comparison (game_shared/CGameVersion.cpp over *)
(* external/semver.c).  The tag is what follows the "-" of 1.6.0-dev: its  *)
(* identifiers, which are separated by dots, or none (NULL).  Of each the  *)
(* comparison sees the characters, and what strtol makes of them: whether  *)
(* they are all a number, and which.  The metadata after the "+" play no   *)
(* part in any comparison.                                                 *)
(***************************************************************************)
EXTENDS Integers, Sequences

Identifier == [text : Seq(Nat), isnum : BOOLEAN, num : Int]
Tags       == Seq(Identifier)
Version    == [major : Nat, minor : Nat, patch : Nat, tag : Tags]

NULL == <<>>

(* The characters of a word that is no number.                             *)
Word(chars) == [text |-> chars, isnum |-> FALSE, num |-> 0]
dev         == <<100, 101, 118>>

IsDev(tag) == Len(tag) = 1 /\ tag[1].text = dev

binary_comparison(x, y) == IF x = y THEN 0 ELSE IF x > y THEN 1 ELSE -1

(* Two sequences of lengths m and n, whose elements compare as signs says  *)
(* as long as both last: the first difference decides, then the length.    *)
FirstDifference(signs, m, n) ==
  LET differ == {k \in DOMAIN signs : signs[k] # 0}
  IN  IF differ = {} THEN binary_comparison(m, n)
      ELSE signs[CHOOSE k \in differ : \A j \in differ : k <= j]

(* strncmp over the shorter length, then the lengths.                      *)
compare_words(x, y) ==
  FirstDifference([k \in DOMAIN x \cap DOMAIN y |-> binary_comparison(x[k], y[k])],
                  Len(x), Len(y))

(* A number comes before every word.                                       *)
compare_identifier(x, y) ==
  IF x.isnum # y.isnum THEN IF x.isnum THEN -1 ELSE 1
  ELSE IF x.isnum THEN binary_comparison(x.num, y.num)
  ELSE compare_words(x.text, y.text)

(* A version without a tag comes after those that have one.                *)
compare_prerelease(x, y) ==
  IF x = NULL /\ y = NULL THEN 0
  ELSE IF y = NULL THEN -1
  ELSE IF x = NULL THEN 1
  ELSE FirstDifference([k \in DOMAIN x \cap DOMAIN y |-> compare_identifier(x[k], y[k])],
                       Len(x), Len(y))

semver_compare_version(x, y) ==
  IF x.major # y.major THEN binary_comparison(x.major, y.major)
  ELSE IF x.minor # y.minor THEN binary_comparison(x.minor, y.minor)
  ELSE binary_comparison(x.patch, y.patch)

semver_compare(x, y) ==
  IF semver_compare_version(x, y) # 0 THEN semver_compare_version(x, y)
  ELSE compare_prerelease(x.tag, y.tag)

(* "dev" is always >: of the same number, or of a lower one.               *)
DevAhead(x, y) == semver_compare_version(y, x) # 1 /\ IsDev(x.tag)

(* The operators of CGameVersion.  Only two of them know of "dev".         *)
Gt(x, y)  == semver_compare(x, y) = 1 \/ DevAhead(x, y)
Geq(x, y) == semver_compare(x, y) >= 0 \/ DevAhead(x, y)
Lt(x, y)  == semver_compare(x, y) = -1
Leq(x, y) == semver_compare(x, y) <= 0
Eq(x, y)  == semver_compare(x, y) = 0
=============================================================================
