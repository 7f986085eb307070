---------------------------- MODULE MCConfigure ------------------------------
(* Small instances of Configure: every reference graph of three groups, and   *)
(* lists in which names repeat, members are missing or selections are pinned; *)
(* and pairs of guard rules.                                                  *)
EXTENDS Configure

CONSTANTS a, b, c, leaf, none

MCNames == {a, b, c, leaf, none}

Plain(models) == [model : models, tuned : {FALSE}]

Group(name, members) ==
  [name |-> name, members |-> members, pinned |-> FALSE, selected |-> none]

Pinned(name, members, m) ==
  [name |-> name, members |-> members, pinned |-> TRUE, selected |-> m]

(* All graphs on three groups (c has a leaf besides, so that it is kept), and *)
(* two groups with leaf settings and pins.                                    *)
Distinct ==
  {<<Group(a, Plain(ma)), Group(b, Plain(mb)), Group(c, Plain(mc \cup {leaf}))>> :
     ma, mb, mc \in SUBSET {a, b, c}}
  \cup
  {<<g, h>> :
     g \in {Group(a, m) : m \in SUBSET [model : {b, leaf}, tuned : BOOLEAN]},
     h \in {Pinned(b, Plain(m), s) : m \in SUBSET {a, leaf, none}, s \in {a, leaf, none}}}

(* Two entries, of one name or two, some of them unnamed or pinned.           *)
Entries ==
  {Group(n, Plain(m)) : n \in {a, b, none}, m \in SUBSET {a, b, leaf}}
  \cup {Pinned(n, Plain(m), s) :
          n \in {a, b}, m \in {{a, leaf}, {b, leaf}, {a, b}}, s \in {a, b, leaf}}

Repeated == {<<g, h>> : g, h \in Entries}

Guarding(list) == [Default EXCEPT !.virtual = list]

(* Patterns without and with wildcards and namespaces, and the empty one.     *)
Patterns ==
  {<<>>, <<"*">>, <<"glm", "-", "5">>, <<"glm", "-", "*">>, <<"*", "glm", "-", "5">>,
   <<"glm", "-", "?">>, <<"z", "/", "*">>, <<"*", "5", "*", "5">>}

MCTokens == Separators \cup Wildcards \cup
  {"gpt", "chatgpt", "o1", "o3", "o4", "deepseek", "glm", "5", "y", "z"}

Strict(pattern) == [Rule(pattern) EXCEPT !.retries = <<-1>>, !.missing = "reject"]
Typo(pattern) == [Rule(pattern) EXCEPT !.retries = <<2>>, !.missing = "typo"]

Guards ==
  {[virtual |-> <<Group(a, Plain({leaf}))>>, rules |-> <<f, g>>, retries |-> n, missing |-> m] :
     f \in {Strict(p) : p \in Patterns}, g \in {Typo(p) : p \in Patterns} \cup {Rule(<<"*">>)},
     n \in {-1, 1}, m \in {"", "reject"}}

MCRequested ==
  {<<>>, <<"glm", "-", "5">>, <<"z", "/", "glm", "-", "5">>, <<"y", "/", "glm", "-", "5">>,
   <<"glm", "-", "glm", "-", "5">>, <<"5", "-", "5", "5">>, <<"gpt", "-", "5">>, <<"z", "/">>}

MCSubmissions == {Guarding(list) : list \in Distinct \cup Repeated} \cup Guards

(* Then one that is accepted, and one that is refused.                        *)
MCLater ==
  {Guarding(<<Group(a, Plain({leaf}))>>),
   [virtual |-> <<Group(a, Plain({b})), Group(b, Plain({a}))>>, rules |-> <<>>,
    retries |-> 0, missing |-> ""]}

(* The shortest of them in which a later entry hides a reference.             *)
Hidden ==
  {Guarding(<<Group(a, Plain(m1)), Group(b, Plain(m2)), Group(b, Plain(m3))>>) :
     m1, m2, m3 \in SUBSET {a, b, leaf}}
==============================================================================
