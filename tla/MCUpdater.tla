------------------------------ MODULE MCUpdater ------------------------------
(* The updater on a small instance: the game is a "dev" build of version 1, *)
(* and GitHub may answer with any list of up to MaxReleases tags, bad ones, *)
(* older and newer ones, and the one that the build is ahead of.            *)
EXTENDS Updater

CONSTANT MaxReleases

V(n, t)   == [NoVersion EXCEPT !.major = n, !.tag = t]
Number(n) == [text |-> <<48 + n>>, isnum |-> TRUE, num |-> n]

(* "beta", "rc", a number that is spelled with a 0 before it, and an empty *)
(* identifier, which strtol takes for 0.                                   *)
Beta   == Word(<<98, 101, 116, 97>>)
Rc     == Word(<<114, 99>>)
Padded == [Number(2) EXCEPT !.text = <<48, 50>>]
Empty  == [Number(0) EXCEPT !.text = <<>>]

MCGameVersion  == V(1, <<Word(dev)>>)
MCReleases     == {BadTag, V(1, <<Beta, Number(2)>>), V(1, NULL), V(2, NULL)}
MCReleaseLists == UNION {[1..n -> MCReleases] : n \in 0..MaxReleases}

(* The loop of compare_prerelease (semver.c:219-251), identifier by        *)
(* identifier, and under it strncmp, character by character.               *)
RECURSIVE strncmp(_, _, _, _)
strncmp(x, y, k, n) ==
  IF k > n THEN 0
  ELSE IF x[k] # y[k] THEN (IF x[k] < y[k] THEN -1 ELSE 1)
  ELSE strncmp(x, y, k + 1, n)

StringComparison(x, y) ==
  LET xn  == Len(x)
      yn  == Len(y)
      res == strncmp(x, y, 1, IF xn < yn THEN xn ELSE yn)
  IN  IF res # 0 THEN res ELSE IF xn # yn THEN (IF xn < yn THEN -1 ELSE 1) ELSE 0

RECURSIVE Loop(_, _, _)
Loop(x, y, k) ==
  LET a   == x[k]
      b   == y[k]
      res == CASE a.isnum /\ ~b.isnum -> -1
               [] ~a.isnum /\ b.isnum -> 1
               [] a.isnum /\ b.isnum  -> (IF a.num = b.num THEN 0
                                   ELSE IF a.num < b.num THEN -1 ELSE 1)
               [] OTHER               -> StringComparison(a.text, b.text)
  IN  CASE res # 0                  -> res
        [] k = Len(x) /\ k = Len(y) -> 0
        [] k = Len(x)               -> -1
        [] k = Len(y)               -> 1
        [] OTHER                    -> Loop(x, y, k + 1)

SomeIdentifiers == {Word(dev), Word(<<100, 101>>), Beta, Rc,
                    Empty, Number(1), Number(2), Padded}
SomeTags        == UNION {[1..n -> SomeIdentifiers] : n \in 1..2}

(* The operator that the updater decides with computes what the loop does. *)
ASSUME ComparesAsTheLoopDoes ==
  \A x, y \in SomeTags : compare_prerelease(x, y) = Loop(x, y, 1)
=============================================================================
