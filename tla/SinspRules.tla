----------------------------- MODULE SinspRules -----------------------------
(***************************************************************************)
(* What libsinsp runs on an event: the filter of the capture               *)
(* (sinsp::set_filter) and the rules of sinsp_evttype_filter, which are    *)
(* compiled filters with a name, tags and the kinds of event they apply    *)
(* to, switched on and off by name or by tag in numbered rule sets.  The   *)
(* two tables of a rule set, by event type and by system call, work alike: *)
(* here a kind is a member of either.                                      *)
(***************************************************************************)
EXTENDS SinspFilter

CONSTANTS Names, Tags, Kinds, Rulesets,
          MaxRules,   \* bound: rules
          MaxCalls    \* bound: calls that switch rules on or off

ASSUME RulesAssumption ==
    /\ MaxRules \in Nat /\ MaxCalls \in Nat
    /\ 0 \in Rulesets /\ Rulesets \subseteq Nat

VARIABLES
    m_filter,         \* the filter of the capture, or NoFilter
    rules,            \* the filter_wrappers, in the order of add
    m_filters,        \* name -> rule
    m_filter_by_tag,  \* tag -> rules, each in its list once
    m_rulesets,       \* vector of rule sets: kind -> bag of rules, where there is a list
    calls,            \* calls of enable and enable_tags so far
    enabled           \* history: the rules that are on, for each rule set

rulesVars == <<m_filter, rules, m_filters, m_filter_by_tag, m_rulesets, calls, enabled>>
vars == <<compilerVars, rulesVars>>

\* Bound: a filter that is used, or read after one that is, has one check.
OneCheck == <<"check">>
NoFilter == [exprs |-> << >>]
Nowhere == << >>

Init ==
    /\ CompilerInit
    /\ m_filter = NoFilter
    /\ rules = << >>
    /\ m_filters = << >> /\ m_filter_by_tag = << >> /\ m_rulesets = << >>
    /\ calls = 0
    /\ enabled = [r \in Rulesets |-> {}]

\* The next filter gets a compiler of its own.
NewCompiler ==
    /\ words' = << >>
    /\ status' = "reading" /\ m_state' = "ST_NEED_EXPRESSION"
    /\ m_last_boolop' = BO_NONE /\ m_nest_level' = 0
    /\ tree' = NewFilter

\* sinsp::set_filter: once.
set_filter ==
    /\ status = "accepted" /\ words = OneCheck
    /\ m_filter = NoFilter
    /\ m_filter' = tree
    /\ NewCompiler
    /\ UNCHANGED <<rules, m_filters, m_filter_by_tag, m_rulesets, calls, enabled>>

AppliesTo(kinds) == IF kinds = {} THEN Kinds ELSE kinds

\* Of a list of rules only matters how often a rule is in it: run stops at the first
\* one that matches, whichever that is.
Listed(L, k) == IF k \in DOMAIN L THEN L[k] ELSE EmptyBag
Tagged(tag) == IF tag \in DOMAIN m_filter_by_tag THEN m_filter_by_tag[tag] ELSE {}

\* sinsp_evttype_filter::add, under a name that is not in use.
add(name, kinds, tags) ==
    /\ status = "accepted" /\ words = OneCheck
    /\ Len(rules) < MaxRules
    /\ name \notin DOMAIN m_filters
    /\ LET w == Len(rules) + 1
       IN  /\ rules' = Append(rules, [name |-> name, tags |-> tags, asked |-> kinds,
                                    kinds |-> AppliesTo(kinds), filter |-> tree])
           /\ m_filters' = [n \in DOMAIN m_filters \cup {name} |-> IF n = name THEN w ELSE m_filters[n]]
           /\ m_filter_by_tag' = [g \in DOMAIN m_filter_by_tag \cup tags |->
                                    IF g \in tags THEN Tagged(g) \cup {w} ELSE m_filter_by_tag[g]]
    /\ NewCompiler
    /\ UNCHANGED <<m_filter, m_rulesets, calls, enabled>>

---------------------------------------------------------------------------
\* ruleset_filters

\* met is the bag of the rules that the loop of the caller meets.
Applying(met, k) == {w \in BagToSet(met) : k \in rules[w].kinds}

add_filter(R, met) ==
    [k \in DOMAIN R \cup UNION {rules[w].kinds : w \in BagToSet(met)} |->
        Listed(R, k) (+) [w \in Applying(met, k) |-> met[w]]]

Without(B, S) == [w \in BagToSet(B) \ S |-> B[w]]

\* All places of a rule in a list are erased, and a list that becomes empty is deleted.
BugRemove(R, met) == [k \in DOMAIN R |-> Without(R[k], Applying(met, k))]
BugRemoveOne(R, met) ==
    LET left == [k \in DOMAIN R |-> R[k] (-) SetToBag(Applying(met, k))]
    IN  [k \in {x \in DOMAIN R : left[x] # EmptyBag} |-> left[k]]
remove_filter(R, met) ==
    LET left == [k \in DOMAIN R |-> Without(R[k], Applying(met, k))]
    IN  [k \in {x \in DOMAIN R : left[x] # EmptyBag} |-> left[k]]

\* The vector grows to the number that is asked for.
Grown(r) == [i \in 1 .. (IF Len(m_rulesets) > r THEN Len(m_rulesets) ELSE r + 1) |->
                IF i <= Len(m_rulesets) THEN m_rulesets[i] ELSE Nowhere]

\* On or off for each rule that the loop meets; ws has the rules that the caller means.
\* One thread uses the inspector: no filter is being compiled.
Switch(met, ws, on, r) ==
    /\ words = << >>
    /\ calls < MaxCalls /\ calls' = calls + 1
    /\ m_rulesets' = [Grown(r) EXCEPT ![r + 1] = IF on THEN add_filter(@, met) ELSE remove_filter(@, met)]
    /\ enabled' = [enabled EXCEPT ![r] = IF on THEN @ \cup ws ELSE @ \ ws]
    /\ UNCHANGED <<compilerVars, m_filter, rules, m_filters, m_filter_by_tag>>

\* names: those that match the pattern.
enable(names, on, r) ==
    Switch(SetToBag({m_filters[n] : n \in names \cap DOMAIN m_filters}),
           {w \in DOMAIN rules : rules[w].name \in names}, on, r)

\* A rule with several of the tags is met several times.
enable_tags(tags, on, r) ==
    Switch([w \in UNION {Tagged(g) : g \in tags} |-> Cardinality({g \in tags : w \in Tagged(g)})],
           {w \in DOMAIN rules : rules[w].tags \cap tags # {}}, on, r)

\* An event is of a kind, and matches the checks of some of the rules and, as number
\* 0, the one of the capture's filter.
Events == [kind : Kinds, v : [0 .. Len(rules) -> BOOLEAN]]
Passes(T, w, e) == run(T, <<e.v[w]>>)

run_ruleset(e, r) ==
    /\ Len(m_rulesets) > r
    /\ \E w \in BagToSet(Listed(m_rulesets[r + 1], e.kind)) : Passes(rules[w].filter, w, e)

run_filters_on_evt(e) == (m_filter # NoFilter /\ Passes(m_filter, 0, e)) \/ run_ruleset(e, 0)

\* evttypes_for_ruleset and syscalls_for_ruleset, of a rule set that exists.
kinds_for_ruleset(r) == DOMAIN m_rulesets[r + 1]

Unused == rules = << >> /\ m_filter = NoFilter /\ calls = 0

Next ==
    \/ /\ Compile /\ UNCHANGED rulesVars
       /\ Unused \/ words' = OneCheck
    \/ set_filter
    \/ \E n \in Names, kinds \in SUBSET Kinds, tags \in SUBSET Tags : add(n, kinds, tags)
    \/ \E on \in BOOLEAN, r \in Rulesets :
          \/ \E names \in SUBSET Names \ {{}} : enable(names, on, r)
          \/ \E tags \in SUBSET Tags \ {{}} : enable_tags(tags, on, r)

Spec == Init /\ [][Next]_vars

---------------------------------------------------------------------------
Means(w, e) ==
    /\ rules[w].asked = {} \/ e.kind \in rules[w].asked
    /\ Passes(rules[w].filter, w, e)

\* After any calls of enable and enable_tags an event is let through by a rule set
\* exactly if a rule that the last call about it switched on is for events of its
\* kind (all, if add named none) and matches it: the state is of the rules, not of
\* the tags, and a rule that was switched on twice is off after one call.  The filter
\* of the capture lets further events through.
RulesDecide ==
    \A e \in Events :
        /\ \A r \in Rulesets : run_ruleset(e, r) <=> \E w \in enabled[r] : Means(w, e)
        /\ run_filters_on_evt(e) <=> \/ m_filter # NoFilter /\ Passes(m_filter, 0, e)
                                     \/ \E w \in enabled[0] : Means(w, e)

\* The kinds that a rule set reports as its own are those of its rules: a caller who
\* captures no others misses no match, and one whose rules are off gets none.
KindsKnown ==
    \A r \in Rulesets : Len(m_rulesets) > r =>
        kinds_for_ruleset(r) = {k \in Kinds : \E w \in enabled[r] : rules[w].asked \in {{}} \cup {K \in SUBSET Kinds : k \in K}}
=============================================================================
