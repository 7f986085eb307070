------------------------------ MODULE Identity -------------------------------
(* Whether a response came from the model that was asked for                  *)
(* (internal/detect/model.go: Check, Matches, isVersionSuffix).  Pure         *)
(* operators.  That a response names its model where ProcessingModel looks is *)
(* taken for granted; the empty name stands for a response that names none.   *)
EXTENDS ModelNames, SequencesExt

CONSTANT Digits   \* the numbers among the tokens, with their length

ASSUME DigitsAssumption == Digits \in [DOMAIN Digits -> Nat \ {0}]

Expectations ==
  [accept : Seq(Seq(STRING)), deny : Seq(Seq(STRING)), default : Seq(STRING),
   rejectMissing : BOOLEAN]

Families == {"gpt", "chatgpt", "deepseek", "glm", "claude", "gemini"}

Rolling == {"o1", "o3", "o4"}

(* knownModel.                                                                *)
KnownModel(name) ==
  \/ name[1] \in Families /\ Len(name) > 1 /\ name[2] = "-"
  \/ name[1] \in Rolling /\ (Len(name) = 1 \/ name[2] = "-")

(* "." introduces a minor version, not a snapshot.                            *)
SuffixBoundaries == {"-", "_", ":", "@"}

Releases == {"latest", "preview", "exp", "experimental", "beta", "stable", "release"}

Parts(suffix) == SelectSeq(suffix, LAMBDA t : t \notin Separators)

(* isVersionSuffix.  Faulty form: any number will do.                         *)
VersionSuffixAny(suffix) ==
  LET parts == Parts(suffix)
  IN  parts # <<>> /\ ToSet(parts) \subseteq Releases \cup DOMAIN Digits

VersionSuffix(suffix) ==
  LET parts == Parts(suffix)
      numbers == SelectSeq(parts, LAMBDA t : t \in DOMAIN Digits)
      digits == SumFunction([i \in DOMAIN numbers |-> Digits[numbers[i]]])
  IN  /\ parts # <<>>
      /\ ToSet(parts) \subseteq Releases \cup DOMAIN Digits
      /\ digits = 0 \/ digits >= 3

Suffixed(exp, act) ==
  /\ IsStrictPrefix(exp, act)
  /\ act[Len(exp) + 1] \in SuffixBoundaries
  /\ VersionSuffix(SubSeq(act, Len(exp) + 2, Len(act)))

(* cpa stripped the prefix of an alias.                                       *)
Stripped(exp, act) ==
  KnownModel(act) /\ IsStrictSuffix(act, exp) /\ exp[Len(exp) - Len(act)] \in Separators

Matches(expected, actual) ==
  LET exp == ModelName(expected)
      act == ModelName(actual)
  IN  /\ exp # <<>> /\ act # <<>>
      /\ exp = act \/ Suffixed(exp, act) \/ Stripped(exp, act)

(* Expectation.Check.                                                         *)
Check(e, actual) ==
  LET accept == IF e.accept = <<>> THEN <<e.default>> ELSE e.accept
      denied == \E i \in DOMAIN e.deny : ModelGlob(e.deny[i], actual)
      accepted == \E i \in DOMAIN accept :
                    IF HasWildcard(accept[i]) THEN ModelGlob(accept[i], actual)
                    ELSE Matches(accept[i], actual)
  IN  IF actual = <<>> THEN (IF e.rejectMissing THEN "mismatch" ELSE "unknown")
      ELSE IF ~denied /\ accepted THEN "accepted"
      ELSE "mismatch"

-----------------------------------------------------------------------------
(* The promise of the README's table, read apart from the code: an upstream   *)
(* may put its own namespace before the name, drop the alias prefix of a      *)
(* model of a known family, and append a snapshot.  A short number right      *)
(* after the name is another version of the model, not a snapshot.            *)
Snapshot(s) ==
  /\ s # <<>> /\ s[1] \in SuffixBoundaries
  /\ \E i \in DOMAIN s : s[i] \notin Separators
  /\ \A i \in DOMAIN s : s[i] \in Separators \cup Releases \cup DOMAIN Digits
  /\ \A i \in DOMAIN s :
       s[i] \in DOMAIN Digits /\ Digits[s[i]] < 3 =>
         \E j \in 1..(i - 1) : s[j] \in Releases \cup {d \in DOMAIN Digits : Digits[d] >= 3}

SameModel(expected, actual) ==
  LET exp == ModelName(expected)
      act == ModelName(actual)
  IN  /\ exp # <<>> /\ act # <<>>
      /\ \/ exp = act
         \/ \E s \in {SubSeq(act, i, Len(act)) : i \in DOMAIN act} :
              Snapshot(s) /\ act = exp \o s
         \/ \E i \in 1..(Len(exp) - 1) :
              exp[i] \in Separators /\ SubSeq(exp, i + 1, Len(exp)) = act /\ KnownModel(act)
==============================================================================
