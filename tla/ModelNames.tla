----------------------------- MODULE ModelNames ------------------------------
(* Model names and the patterns of rules (Glob, ModelName and ModelGlob in    *)
(* internal/config/config.go).  Pure operators.                               *)
(*                                                                            *)
(* A name is a sequence of tokens: separators, and what stands between them,  *)
(* without case and surrounding space.  "*" and "?" are tokens of patterns.   *)
EXTENDS Integers, Sequences, FiniteSets, FiniteSetsExt

Separators == {"/", "-", "_", ".", ":", "@"}

Wildcards == {"*", "?"}

(* What follows the last "/".                                                 *)
ModelName(name) ==
  LET cuts == {i \in DOMAIN name : name[i] = "/"}
  IN  IF cuts = {} THEN name ELSE SubSeq(name, Max(cuts) + 1, Len(name))

HasWildcard(pattern) == \E i \in DOMAIN pattern : pattern[i] \in Wildcards

(* Glob: the position in the pattern and in the name, and the last star met   *)
(* with the position in the name where its run ends so far; both lie behind.  *)
GlobStates(p, n) ==
  {x \in (1..Len(p) + 1) \X (1..Len(n) + 1) \X (0..Len(p)) \X (1..Len(n) + 1) :
     x[3] < x[1] /\ x[4] <= x[2]}

OnlyStars(p, pi) == \A i \in pi..Len(p) : p[i] = "*"

Fits(p, n, pi, ni) == pi <= Len(p) /\ p[pi] \in {"?", n[ni]}

IsStar(p, pi) == pi <= Len(p) /\ p[pi] = "*"

(* Faulty form: after a mismatch it goes on in the name from where it failed, *)
(* and does not come back to just after the star's run.                       *)
GlobOnward(p, n) ==
  LET glob[x \in GlobStates(p, n)] ==
        LET pi == x[1]
            ni == x[2]
        IN  IF ni > Len(n) THEN OnlyStars(p, pi)
            ELSE IF Fits(p, n, pi, ni) THEN glob[<<pi + 1, ni + 1, x[3], x[4]>>]
            ELSE IF IsStar(p, pi) THEN glob[<<pi + 1, ni, pi, ni>>]
            ELSE IF x[3] > 0 THEN glob[<<x[3] + 1, ni + 1, x[3], x[4]>>]
            ELSE FALSE
  IN  glob[<<1, 1, 0, 1>>]

Glob(p, n) ==
  LET glob[x \in GlobStates(p, n)] ==
        LET pi == x[1]
            ni == x[2]
            star == x[3]
            mark == x[4]
        IN  IF ni > Len(n) THEN OnlyStars(p, pi)
            ELSE IF Fits(p, n, pi, ni) THEN glob[<<pi + 1, ni + 1, star, mark>>]
            ELSE IF IsStar(p, pi) THEN glob[<<pi + 1, ni, pi, ni>>]
            ELSE IF star > 0 THEN glob[<<star + 1, mark + 1, star, mark + 1>>]
            ELSE FALSE
  IN  glob[<<1, 1, 0, 1>>]

Qualified(p) == \E i \in DOMAIN p : p[i] = "/"

ModelGlob(p, n) == Glob(p, n) \/ (~Qualified(p) /\ Glob(p, ModelName(n)))

-----------------------------------------------------------------------------
(* What a pattern means, without an algorithm: each token of the name is at a *)
(* position of the pattern that allows it, in order; only stars may hold any  *)
(* number of them.                                                            *)
Covers(p, n) ==
  \E at \in [1..Len(n) -> 1..Len(p)] :
    /\ \A i \in 1..(Len(n) - 1) : at[i] <= at[i + 1]
    /\ \A i \in 1..Len(n) : p[at[i]] \in Wildcards \cup {n[i]}
    /\ \A k \in 1..Len(p) : p[k] # "*" => Cardinality({i \in 1..Len(n) : at[i] = k}) = 1

(* ... with the namespace, or for a pattern without one, without it.          *)
CoversModel(p, n) == Covers(p, n) \/ (~Qualified(p) /\ Covers(p, ModelName(n)))
==============================================================================
