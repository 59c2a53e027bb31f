----------------------------- MODULE MCAiAdvisor -----------------------------
(***************************************************************************)
(* AiAdvisor with two patterns and four configurations: a reviewed one,    *)
(* one that stages automatically with other limits, one without an API key *)
(* and one that is disabled.                                               *)
(***************************************************************************)
EXTENDS AiAdvisor

MCPatternKey == {"p", "q"}

Reviewed ==
  [enabled |-> TRUE, has_key |-> TRUE, trigger_threshold |-> 2, cooldown_seconds |-> 2,
   window_secs |-> 1, context |-> 2, max_rules_per_fire |-> 1, approval_mode |-> "manual"]

MCConfigs ==
  { Reviewed,
    [Reviewed EXCEPT !.window_secs = 2, !.cooldown_seconds = 1,
                     !.max_rules_per_fire = 2, !.approval_mode = "auto"],
    [Reviewed EXCEPT !.has_key = FALSE],
    [Reviewed EXCEPT !.enabled = FALSE] }

\* All texts of up to three lines, and some with a fence in the middle.
MCResponses ==
  UNION {[1..n -> Line] : n \in 0..3}
    \cup { <<"open", "rule", "close", "rule">>, <<"rule", "open", "rule", "rule">>,
           <<"prose", "open", "rule", "close", "prose">>,
           <<"open", "rule", "close", "open", "rule">>,
           <<"open", "rule", "close", "close", "rule">> }

=============================================================================
