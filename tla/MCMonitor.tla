----------------------------- MODULE MCMonitor -------------------------------
(* Instances of Monitor: requests with and without alias, for two entries and *)
(* lists of two served models.                                                *)
EXTENDS Monitor

MCDigits ==
  [d \in {"4", "1", "5", "20250805"} |-> IF d = "20250805" THEN 8 ELSE 1]

Gpt == <<"gpt", "-", "5">>
Glm == <<"glm", "-", "5">>
Opus == <<"claude", "-", "opus", "-", "4">>

(* One alias whose model cpa changed meanwhile, and two models by their names.*)
MCUsages ==
  {[model |-> <<"z", "/">> \o Glm, alias |-> <<"my", "-">> \o Glm],
   [model |-> Gpt, alias |-> <<"my", "-">> \o Glm],
   [model |-> Gpt, alias |-> <<>>],
   [model |-> Opus, alias |-> <<>>]}

(* A snapshot with a namespace, the model behind the alias, and the next     *)
(* version of the last one.                                                   *)
MCServed ==
  {<<"openai", "/">> \o Gpt \o <<"-", "20250805">>, Glm, Opus \o <<"-", "1">>}

(* That version with its snapshot.                                            *)
MCBump == {Opus, Opus \o <<"-", "1", "-", "20250805">>}
==============================================================================
