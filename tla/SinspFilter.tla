---------------------------- MODULE SinspFilter ----------------------------
(***************************************************************************)
(* Filters of libsinsp: sinsp_filter_compiler::compile_, which reads a     *)
(* filter and builds a tree of checks, and                                 *)
(* gen_event_filter_expression::compare, which runs the tree on an event.  *)
(* A filter is a sequence of words; one step is one turn of the compiler's *)
(* loop.  What a check compares does not matter, only whether it matches.  *)
(***************************************************************************)
EXTENDS Integers, SequencesExt

CONSTANTS MaxWords   \* bound: words of a filter

\* check: a field, an operator and a value; in: a field that is not a string, in a
\* list of two values; bad: what is not a word of a filter, an unknown field say.
Leaves == {"check", "in"}
Connectives == {"and", "or"}
Words == Leaves \cup Connectives \cup {"not", "(", ")", "bad"}

ASSUME FilterAssumption == MaxWords \in Nat

VARIABLES
    words,    \* history: what was read of the filter
    status,   \* of compile: reading; accepted; rejected at a word, or incomplete at the
              \* end (sinsp_exception); undefined
    m_state,  \* of the compiler: ST_NEED_EXPRESSION or ST_EXPRESSION_DONE
    m_last_boolop,
    m_nest_level,
    tree      \* the sinsp_filter: its expressions, the root first, and m_curexpr

compilerVars == <<words, status, m_state, m_last_boolop, m_nest_level, tree>>

NULL == 0
BO_NONE == 0
BO_NOT == 1
BO_OR == 2
BO_AND == 4
Boolop(w) == IF w = "or" THEN BO_OR ELSE BO_AND

\* boolop | BO_NOT; and what a boolop is without BO_NOT.
WithNot(op) == IF op % 2 = 1 THEN op ELSE op + 1
Negates(op) == op % 2 = 1
Connects(op) == op - (op % 2)

NewExpression(parent) == [m_parent |-> parent, m_checks |-> << >>]
NewFilter == [exprs |-> <<NewExpression(NULL)>>, cur |-> 1, leaves |-> 0]

CompilerInit ==
    /\ words = << >>
    /\ status = "reading" /\ m_state = "ST_NEED_EXPRESSION"
    /\ m_last_boolop = BO_NONE /\ m_nest_level = 0
    /\ tree = NewFilter

---------------------------------------------------------------------------
\* gen_event_filter.  A check is the leaf of that number, or the expression.

add_check(T, chk) == [T EXCEPT !.exprs[T.cur].m_checks = Append(@, chk)]

add_leaf(T, op) ==
    LET n == T.leaves + 1
    IN  [add_check(T, [m_boolop |-> op, leaf |-> TRUE, at |-> n]) EXCEPT !.leaves = n]

push_expression(T, op) ==
    LET n == Len(T.exprs) + 1
        added == add_check(T, [m_boolop |-> op, leaf |-> FALSE, at |-> n])
    IN  [added EXCEPT !.exprs = Append(@, NewExpression(T.cur)), !.cur = n]

pop_expression(T) == [T EXCEPT !.cur = T.exprs[@].m_parent]

---------------------------------------------------------------------------
\* compile_

Reads(w) ==
    /\ status = "reading" /\ Len(words) < MaxWords
    /\ words' = Append(words, w)

Throw ==
    /\ status' = "rejected"
    /\ UNCHANGED <<m_state, m_last_boolop, m_nest_level, tree>>

\* The compiler goes through m_curexpr when it is NULL, after a ')' too many.
Undefined ==
    /\ status' = "undefined"
    /\ UNCHANGED <<m_state, m_last_boolop, m_nest_level, tree>>

BugOpened == m_last_boolop
Opened == BO_NONE

Open ==
    /\ Reads("(")
    /\ \/ m_state # "ST_NEED_EXPRESSION" /\ Throw
       \/ m_state = "ST_NEED_EXPRESSION" /\ tree.cur = NULL /\ Undefined
       \/ /\ m_state = "ST_NEED_EXPRESSION" /\ tree.cur # NULL
          /\ tree' = push_expression(tree, m_last_boolop)
          /\ m_last_boolop' = Opened
          /\ m_nest_level' = m_nest_level + 1
          /\ UNCHANGED <<status, m_state>>

\* Nothing tests that there is a "(" to close, or an expression before.
Close ==
    /\ Reads(")")
    /\ \/ tree.cur = NULL /\ Undefined
       \/ /\ tree.cur # NULL
          /\ tree' = pop_expression(tree)
          /\ m_nest_level' = m_nest_level - 1
          /\ UNCHANGED <<status, m_state, m_last_boolop>>

\* Where an expression is needed, "or" and "and" are taken for the name of a field.
Connective(w) ==
    /\ w \in Connectives
    /\ Reads(w)
    /\ \/ m_state = "ST_NEED_EXPRESSION" /\ Throw
       \/ /\ m_state = "ST_EXPRESSION_DONE"
          /\ m_last_boolop' = Boolop(w)
          /\ m_state' = "ST_NEED_EXPRESSION"
          /\ UNCHANGED <<status, m_nest_level, tree>>

Not ==
    /\ Reads("not")
    /\ m_last_boolop' = WithNot(m_last_boolop)
    /\ m_state' = "ST_NEED_EXPRESSION"
    /\ UNCHANGED <<status, m_nest_level, tree>>

\* parse_check: "in" makes an expression of its own, "(field=v1 or field=v2)".
BugParseCheck(w) ==
    IF w = "check" THEN add_leaf(tree, m_last_boolop)
    ELSE add_leaf(add_leaf(tree, m_last_boolop), BO_OR)
parse_check(w) ==
    IF w = "check" THEN add_leaf(tree, m_last_boolop)
    ELSE pop_expression(add_leaf(add_leaf(push_expression(tree, m_last_boolop), BO_NONE), BO_OR))

Check(w) ==
    /\ w \in Leaves
    /\ Reads(w)
    /\ \/ m_state # "ST_NEED_EXPRESSION" /\ Throw
       \/ m_state = "ST_NEED_EXPRESSION" /\ tree.cur = NULL /\ Undefined
       \/ /\ m_state = "ST_NEED_EXPRESSION" /\ tree.cur # NULL
          /\ tree' = parse_check(w)
          /\ m_last_boolop' = IF w = "in" THEN BO_NONE ELSE m_last_boolop
          /\ m_state' = "ST_EXPRESSION_DONE"
          /\ UNCHANGED <<status, m_nest_level>>

Bad == Reads("bad") /\ Throw

Good == m_nest_level = 0 /\ m_state = "ST_EXPRESSION_DONE"

End ==
    /\ status = "reading"
    /\ status' = IF Good THEN "accepted" ELSE "incomplete"
    /\ UNCHANGED <<words, m_state, m_last_boolop, m_nest_level, tree>>

Compile ==
    \/ Open \/ Close \/ Not \/ Bad \/ End
    \/ \E w \in Words : Connective(w) \/ Check(w)

---------------------------------------------------------------------------
\* gen_event_filter_expression::compare.  v says which leaves match the event.  A
\* check without a connective, in a place where one is asserted, is left out.  The
\* check ids are, too: no check of compile_ is given one.

compare(T, v) ==
    LET result[x \in DOMAIN T.exprs] ==
        LET Compared(chk) == (IF chk.leaf THEN v[chk.at] ELSE result[chk.at]) # Negates(chk.m_boolop)
            Step(acc, chk) ==
                IF acc.done THEN acc
                ELSE IF acc.first
                     THEN [acc EXCEPT !.first = FALSE,
                                      !.res = IF Connects(chk.m_boolop) = BO_NONE THEN Compared(chk) ELSE @]
                ELSE CASE Connects(chk.m_boolop) = BO_OR ->
                            IF acc.res THEN [acc EXCEPT !.done = TRUE] ELSE [acc EXCEPT !.res = Compared(chk)]
                       [] Connects(chk.m_boolop) = BO_AND ->
                            IF acc.res THEN [acc EXCEPT !.res = Compared(chk)] ELSE [acc EXCEPT !.done = TRUE]
                       [] OTHER -> acc
        IN  FoldLeft(Step, [res |-> TRUE, first |-> TRUE, done |-> FALSE], T.exprs[x].m_checks).res
    IN  result

run(T, v) == compare(T, v)[1]

---------------------------------------------------------------------------
\* A filter is a list of checks and filters in brackets, each with or without a
\* "not", with "and" or "or" in between.  What may come after a word:
Follows(w) ==
    CASE w \in {"start", "("} \cup Connectives -> Leaves \cup {"not", "("}
      [] w = "not" -> Leaves \cup {"("}
      [] w \in Leaves \cup {")"} -> Connectives \cup {")"}
      [] OTHER -> {}
Before(s, i) == IF i = 1 THEN "start" ELSE s[i - 1]
Places(s, from, to, w) == {i \in from .. to : s[i] = w}
Depth(s, from, to) == Cardinality(Places(s, from, to, "(")) - Cardinality(Places(s, from, to, ")"))

\* s may be the beginning of a filter, and is one.
Viable(s) == \A i \in DOMAIN s : s[i] \in Follows(Before(s, i)) /\ Depth(s, 1, i) >= 0
IsFilter(s) == s # << >> /\ Viable(s) /\ Depth(s, 1, Len(s)) = 0 /\ Last(s) \in Leaves \cup {")"}

\* The number of the (first) leaf at place i.
LeafAt(s, i) == 1 + Cardinality(Places(s, 1, i - 1, "check")) + 2 * Cardinality(Places(s, 1, i - 1, "in"))

\* What the words from lo to hi mean: "and" and "or" bind equally, from the right.
Meaning(s, v) ==
    LET of[lo \in DOMAIN s, hi \in DOMAIN s] ==
        LET splits == {k \in lo .. hi : s[k] \in Connectives /\ Depth(s, lo, k) = 0}
            k == Min(splits)
        IN  IF splits # {}
            THEN IF s[k] = "and" THEN of[lo, k - 1] /\ of[k + 1, hi] ELSE of[lo, k - 1] \/ of[k + 1, hi]
            ELSE CASE s[lo] = "not" -> ~of[lo + 1, hi]
                   [] s[lo] = "("   -> of[lo + 1, hi - 1]
                   [] s[lo] = "in"  -> v[LeafAt(s, lo)] \/ v[LeafAt(s, lo) + 1]
                   [] OTHER         -> v[LeafAt(s, lo)]
    IN  of[1, Len(s)]

Matches == [1 .. tree.leaves -> BOOLEAN]

\* Types; m_curexpr is an expression, or NULL after a ')' too many.
CompilerTypeOK ==
    /\ status \in {"reading", "accepted", "rejected", "incomplete", "undefined"}
    /\ m_state \in {"ST_NEED_EXPRESSION", "ST_EXPRESSION_DONE"}
    /\ m_last_boolop \in 0 .. 5
    /\ tree.cur \in 0 .. Len(tree.exprs)

\* The tree that compile_ builds, with the early exits of compare, decides every event
\* as the filter means it.
DecidesAsMeant ==
    status = "accepted" /\ IsFilter(words) =>
        \A v \in Matches : run(tree, v) = Meaning(words, v)

\* A filter that is in order is never turned down: what compile_ throws at, and what
\* makes it go astray, is not the beginning of a filter.
AcceptsFilters ==
    /\ status \in {"rejected", "undefined"} => ~Viable(words)
    /\ status = "incomplete" => ~IsFilter(words)

\* Every expression but the root is in the list of its parent once and in no other, so
\* that the destructors that run when the filter is rejected or no longer used free
\* each once; and the first check of an expression has no connective, as compare
\* asserts.
In(T, p, x) == {i \in DOMAIN T[p].m_checks : ~T[p].m_checks[i].leaf /\ T[p].m_checks[i].at = x}
OwnedOnce(T) ==
    \A x \in DOMAIN T : /\ x # 1 => \A p \in DOMAIN T : Cardinality(In(T, p, x)) = IF p = T[x].m_parent THEN 1 ELSE 0
                        /\ T[x].m_checks # << >> => Connects(T[x].m_checks[1].m_boolop) = BO_NONE

\* The types hold, no filter that is in order is turned down, and every expression has
\* one owner, whatever the words are.
CompilerSound ==
    /\ CompilerTypeOK
    /\ AcceptsFilters
    /\ status # "undefined" => OwnedOnce(tree.exprs)
=============================================================================
