------------------------------ MODULE AiAdvisor ------------------------------
(***************************************************************************)
(* The AI advisor (ai_advisor/mod.rs).  The pipeline task calls analyze    *)
(* for every event, one call at a time, and between two calls replaces the *)
(* configuration when it is reloaded.  analyze counts incidents per        *)
(* pattern over a sliding window, asks a provider for rules when a pattern *)
(* repeats, at most once per cooldown, and stages what comes back.         *)
(*                                                                         *)
(* Events that are no incidents, have no pattern (privilege changes and    *)
(* signals) or come while the advisor is disabled change nothing; only the *)
(* others are actions here.  A response is the kinds of its lines.         *)
(***************************************************************************)
EXTENDS Integers, Sequences, FiniteSets, SequencesExt

CONSTANTS
  PatternKey,  \* binary, detail and action of an incident
  Configs,     \* configurations of the advisor that are loaded
  Responses,   \* texts a provider answers with: sequences of Line
  MaxTime,     \* bound: the clock
  MaxEvents,   \* bound: incidents analyzed
  MaxReloads,  \* bound: reloads
  None

\* The lines of a response: a fence ```toml, a fence ```, a rule, other text.
Line == {"open", "close", "rule", "prose"}

\* has_key: the variable api_key_env names is set and not empty.  context is
\* context_window_size.
AiAdvisorConfig ==
  [enabled : BOOLEAN, has_key : BOOLEAN, trigger_threshold : Nat,
   cooldown_seconds : Nat, window_secs : Nat, context : Nat,
   max_rules_per_fire : Nat, approval_mode : {"manual", "auto"}]

\* An incident in the window, and a request to a provider.
Incident == [at : Nat, key : PatternKey]
Request  == [key : PatternKey, at : Nat, cfg : Configs, context : Seq(Incident)]

ASSUME AiAdvisorAssumption ==
  /\ None \notin PatternKey \cup Nat \cup Request
  /\ Configs \subseteq AiAdvisorConfig
  /\ \A r \in Responses : r \in Seq(Line)
  /\ MaxTime \in Nat /\ MaxEvents \in Nat /\ MaxReloads \in Nat

VARIABLES
  clock,      \* the time, in seconds
  cfg,        \* the configuration
  window,     \* the incidents in the window: [at, key], oldest first
  counts,     \* counts[k] for the patterns in the window
  cooldowns,  \* cooldowns[k]: when pattern k was last tried
  pc,         \* where analyze is: not running, awaiting the provider, staging
  ask,        \* the request: [key, at, cfg, context], or None
  proposed,   \* the rules left to stage, as lines of the response
  text,       \* the response
  staged,     \* what this call has staged: [line, as]
  seen,       \* history: all incidents analyzed: [at, key]
  asked,      \* history: asked[k], when the provider was last asked, or None
  since,      \* history: incidents analyzed before the last reload
  reloads     \* history: the number of reloads

windowVars == <<window, counts, seen>>
callVars == <<pc, ask, proposed, text, staged>>
vars == <<clock, cfg, windowVars, cooldowns, callVars, asked, since, reloads>>

Init ==
  /\ clock = 0 /\ cfg \in Configs
  /\ window = <<>> /\ counts = <<>> /\ cooldowns = <<>>
  /\ pc = "idle" /\ ask = None /\ proposed = {} /\ text = <<>> /\ staged = {}
  /\ seen = <<>> /\ asked = [k \in PatternKey |-> None] /\ since = 0 /\ reloads = 0

-----------------------------------------------------------------------------
(***************************************************************************)
(* The window                                                              *)
(***************************************************************************)
Expired(e) == clock - e.at > cfg.window_secs

\* Popped from the front, as long as the front is expired.
Popped == {i \in DOMAIN window : \A j \in 1..i : Expired(window[j])}

Kept == SubSeq(window, Cardinality(Popped) + 1, Len(window))

\* Slip: what is popped stays counted.
RemainingAll(k) == IF k \in DOMAIN counts THEN counts[k] ELSE 0

\* Each popped incident takes one from the count of its pattern.
Remaining(k) == LET c == IF k \in DOMAIN counts THEN counts[k] ELSE 0
                    n == Cardinality({i \in Popped : window[i].key = k})
                IN  IF n < c THEN c - n ELSE 0

\* A pattern whose count is zero has no entry.
Counted(k) ==
  LET c(x) == IF x = k THEN Remaining(x) + 1 ELSE Remaining(x)
  IN  [x \in {y \in PatternKey : c(y) > 0} |-> c(x)]

Track(k) ==
  /\ pc = "idle" /\ cfg.enabled /\ Len(seen) < MaxEvents
  /\ window' = Append(Kept, [at |-> clock, key |-> k])
  /\ counts' = Counted(k)
  /\ seen' = Append(seen, [at |-> clock, key |-> k])

-----------------------------------------------------------------------------
(***************************************************************************)
(* analyze                                                                 *)
(***************************************************************************)
Cooling(k) == k \in DOMAIN cooldowns /\ clock - cooldowns[k] < cfg.cooldown_seconds

\* Slip: only the incident that reaches the threshold counts.
DueOnce(k) == counts'[k] = cfg.trigger_threshold /\ ~Cooling(k)

\* Slip: the cooldown is not looked at.
DueAlways(k) == counts'[k] >= cfg.trigger_threshold

Due(k) == counts'[k] >= cfg.trigger_threshold /\ ~Cooling(k)

\* The newest n of a sequence, oldest first.
NewestOf(s, n) == SubSeq(s, IF Len(s) > n THEN Len(s) - n + 1 ELSE 1, Len(s))

\* The request: the newest incidents, most recent first.
Prompt(k) ==
  [key |-> k, at |-> clock, cfg |-> cfg, context |-> Reverse(NewestOf(window', cfg.context))]

CountOnly(k) ==
  /\ Track(k) /\ ~Due(k)
  /\ UNCHANGED <<clock, cfg, cooldowns, callVars, asked, since, reloads>>

\* The cooldown starts before the key is looked up.
Triggers(k) ==
  /\ Track(k) /\ Due(k)
  /\ cooldowns' = [x \in DOMAIN cooldowns \cup {k} |-> IF x = k THEN clock ELSE cooldowns[x]]

WithoutApiKey(k) ==
  /\ Triggers(k) /\ ~cfg.has_key
  /\ UNCHANGED <<clock, cfg, callVars, asked, since, reloads>>

Ask(k) ==
  /\ Triggers(k) /\ cfg.has_key
  /\ pc' = "asking" /\ ask' = Prompt(k)
  /\ asked' = [asked EXCEPT ![k] = clock]
  /\ UNCHANGED <<clock, cfg, proposed, text, staged, since, reloads>>

Return ==
  /\ pc' = "idle" /\ ask' = None /\ proposed' = {} /\ text' = <<>> /\ staged' = {}
  /\ UNCHANGED <<clock, cfg, windowVars, cooldowns, asked, since, reloads>>

\* The request fails, or the answer is not the JSON that is expected.
ProviderFails == pc = "asking" /\ Return

\* Slip: any fence opens a block.
ScanAnyFence(block, line) ==
  IF block THEN line # "close" ELSE line \in {"open", "close"}

\* One line of extract_toml: only a closing fence ends a block.
Scan(block, line) == IF block THEN line # "close" ELSE line = "open"

\* InBlock(r)[i]: a block is open after line i.
InBlock(r) ==
  LET block[i \in 0..Len(r)] == IF i = 0 THEN FALSE ELSE Scan(block[i - 1], r[i])
  IN  block

\* The lines extracted; without a block, all of them if there is a rule.
extract_toml(r) ==
  LET fenced == {i \in DOMAIN r : InBlock(r)[i - 1] /\ r[i] # "close"}
  IN  IF fenced = {} /\ Contains(r, "rule") THEN DOMAIN r ELSE fenced

\* What is extracted parses if it is nothing but rules.
Rules(r) == LET toml == extract_toml(r)
            IN  IF \A i \in toml : r[i] = "rule" THEN toml ELSE {}

\* The first max_rules_per_fire of them.
Taken(r) ==
  {i \in Rules(r) : Cardinality({j \in Rules(r) : j < i}) < cfg.max_rules_per_fire}

\* No TOML, TOML that does not parse, or no rules in it.
NothingProposed(r) == pc = "asking" /\ Taken(r) = {} /\ Return

Proposed(r) ==
  /\ pc = "asking" /\ Taken(r) # {}
  /\ pc' = "staging" /\ text' = r /\ proposed' = Taken(r)
  /\ UNCHANGED <<clock, cfg, windowVars, cooldowns, ask, staged, asked, since, reloads>>

\* The rules are staged in their order, and each can fail.
Stage ==
  /\ pc = "staging"
  /\ \E i \in proposed :
       /\ \A j \in proposed : i <= j
       /\ staged' \in {staged, staged \cup {[line |-> i, as |-> cfg.approval_mode]}}
       /\ proposed' = proposed \ {i}
  /\ UNCHANGED <<clock, cfg, windowVars, cooldowns, pc, ask, text, asked, since, reloads>>

Staged == pc = "staging" /\ proposed = {} /\ Return

-----------------------------------------------------------------------------
\* Slip: the configuration is replaced in the middle of analyze.
ReloadAnytime(c) ==
  /\ reloads < MaxReloads
  /\ cfg' = c /\ reloads' = reloads + 1 /\ since' = Len(seen)
  /\ UNCHANGED <<clock, windowVars, cooldowns, callVars, asked>>

\* update_config keeps the window, the counts and the cooldowns.  The pipeline
\* calls it in another arm of the select! that awaits analyze.
Reload(c) ==
  /\ pc = "idle" /\ reloads < MaxReloads
  /\ cfg' = c /\ reloads' = reloads + 1 /\ since' = Len(seen)
  /\ UNCHANGED <<clock, windowVars, cooldowns, callVars, asked>>

Tick ==
  /\ clock < MaxTime
  /\ clock' = clock + 1
  /\ UNCHANGED <<cfg, windowVars, cooldowns, callVars, asked, since, reloads>>

Next ==
  \/ \E k \in PatternKey : CountOnly(k) \/ WithoutApiKey(k) \/ Ask(k)
  \/ ProviderFails
  \/ \E r \in Responses : NothingProposed(r) \/ Proposed(r)
  \/ Stage \/ Staged
  \/ \E c \in Configs : Reload(c)
  \/ Tick

Spec == Init /\ [][Next]_vars

-----------------------------------------------------------------------------
\* The types of what the decision to ask depends on.
TypeOK ==
  /\ clock \in Nat /\ cfg \in Configs
  /\ window \in Seq(Incident) /\ seen \in Seq(Incident) /\ since \in 0..Len(seen)
  /\ DOMAIN counts \subseteq PatternKey /\ \A k \in DOMAIN counts : counts[k] \in Nat \ {0}
  /\ DOMAIN cooldowns \subseteq PatternKey /\ \A k \in DOMAIN cooldowns : cooldowns[k] \in Nat
  /\ pc \in {"idle", "asking", "staging"}
  /\ ask \in Request \cup {None} /\ (pc = "idle" <=> ask = None)
  /\ asked \in [PatternKey -> Nat \cup {None}]

Occurrences(s, k) == {i \in DOMAIN s : s[i].key = k}

\* ai_advisor/mod.rs:68-87: through evictions, windows of changing length and
\* disabled spells, a pattern's count is the number of its incidents in the
\* window, which is the latest part of what was analyzed.
CountsMatchWindow ==
  /\ IsSuffix(window, seen)
  /\ \A k \in PatternKey :
       Cardinality(Occurrences(window, k)) = IF k \in DOMAIN counts THEN counts[k] ELSE 0

\* The incidents of pattern k after the n-th that are window_secs old at most.
Recent(k, n) == {i \in (n + 1)..Len(seen') : seen'[i].key = k /\ ~Expired(seen'[i])}

Asks(k) == ask = None /\ ask' # None /\ ask'.key = k

\* README.md:59, "When the same anomalous pattern recurs above a threshold": the
\* provider is asked about a pattern only if it did occur that often within the
\* window, and not again within the cooldown; it is shown nothing older than the
\* window, and this incident first.
AsksWhenItRepeats ==
  [][\A k \in PatternKey : Asks(k) =>
       /\ Cardinality(Recent(k, 0)) >= cfg.trigger_threshold
       /\ asked[k] = None \/ clock - asked[k] >= cfg.cooldown_seconds
       /\ ~\E i \in DOMAIN ask'.context : Expired(ask'.context[i])
       /\ ask'.context # <<>> => Head(ask'.context) = Last(window')]_vars

\* Nor does it miss one: what repeats since the last reload leads to a request,
\* or to an attempt without an API key, if no attempt has been made for it within
\* the cooldown.
NoRepetitionIsMissed ==
  [][\A k \in PatternKey :
       (/\ Len(seen') > Len(seen) /\ Last(seen').key = k
        /\ Cardinality(Recent(k, since)) >= cfg.trigger_threshold /\ ~Cooling(k))
       => Asks(k) \/ ~cfg.has_key]_vars

\* Line i is between a fence ```toml and the next closing fence.
InFence(r, i) ==
  \E j \in 1..(i - 1) : /\ r[j] = "open" /\ r[i] # "close"
                        /\ \A l \in (j + 1)..(i - 1) : r[l] # "close"

\* ai_advisor/mod.rs:138-159, config.rs:145-150: rules are staged as the approval
\* mode at the time of the request says, no more than it allows, and in a response
\* with fenced blocks nothing outside them is taken for a rule.
StagedAsAsked ==
  ask # None =>
    /\ Cardinality(staged) <= ask.cfg.max_rules_per_fire
    /\ \A s \in staged :
         /\ s.as = ask.cfg.approval_mode /\ text[s.line] = "rule"
         /\ (\E i \in DOMAIN text : InFence(text, i)) => InFence(text, s.line)

=============================================================================
