-------------------------- MODULE SinspRulesProofs --------------------------
(***************************************************************************)
(* For any words, names, tags, kinds of events and rule sets: the filter   *)
(* compiler turns no filter down and builds a tree in which each           *)
(* expression has one owner; and after any calls of enable and enable_tags *)
(* the lists of a rule set have the rules that are on, and no others.      *)
(***************************************************************************)
EXTENDS SinspRules, FiniteSetTheorems, TLAPS

\* Each leaf is tried with Zenon, then with SMT, and then with both for longer.
USE ZenonT(2), SMTT(30), ZenonT(20), SMTT(60)

---------------------------------------------------------------------------
\* The tree of a filter

Chk == [m_boolop : 0 .. 5, leaf : BOOLEAN, at : Nat]
Expr == [m_parent : Nat, m_checks : Seq(Chk)]
Tree == [exprs : Seq(Expr), cur : Nat, leaves : Nat]

\* The expressions in a list are among those of the tree.
Made(E, checks) == \A i \in DOMAIN checks : ~checks[i].leaf => checks[i].at \in DOMAIN E

\* A tree as compile_ builds it: an expression was made after its parent, and what is
\* in a list was made.
TreeOK(T) ==
    /\ T \in Tree
    /\ Len(T.exprs) >= 1 /\ T.exprs[1].m_parent = NULL
    /\ T.cur \in 0 .. Len(T.exprs)
    /\ \A x \in 2 .. Len(T.exprs) : T.exprs[x].m_parent \in 1 .. x - 1
    /\ \A x \in DOMAIN T.exprs : Made(T.exprs, T.exprs[x].m_checks)
    /\ OwnedOnce(T.exprs)

Empty(T, x) == T.exprs[x].m_checks = << >>

\* The connective of the next check is one that m_curexpr can take.
Takes(T, op) == op \in 0 .. 5 /\ (Empty(T, T.cur) => Connects(op) = BO_NONE)

\* The trees have the same expressions, and checks may have been added.
Grew(T, U) ==
    /\ Len(T.exprs) <= Len(U.exprs)
    /\ \A x \in 1 .. Len(T.exprs) : /\ U.exprs[x].m_parent = T.exprs[x].m_parent
                                    /\ ~Empty(T, x) => ~Empty(U, x)

\* Adding to the end of a sequence.
LEMMA Appended ==
    ASSUME NEW S, NEW s \in Seq(S), NEW x \in S
    PROVE  /\ Append(s, x) \in Seq(S) /\ DOMAIN Append(s, x) = DOMAIN s \cup {Len(s) + 1}
           /\ Len(Append(s, x)) = Len(s) + 1
           /\ \A i \in DOMAIN s : Append(s, x)[i] = s[i]
           /\ Append(s, x)[Len(s) + 1] = x
           /\ Append(s, x) # << >>
  <1>1. Append(s, x) \in Seq(S) /\ Len(Append(s, x)) = Len(s) + 1
    OBVIOUS
  <1>2. DOMAIN s = 1 .. Len(s) /\ Len(s) \in Nat
    OBVIOUS
  <1>3. DOMAIN Append(s, x) = 1 .. Len(s) + 1
    BY <1>1
  <1>4. \A i \in DOMAIN s : Append(s, x)[i] = s[i]
    OBVIOUS
  <1>5. Append(s, x)[Len(s) + 1] = x
    OBVIOUS
  <1>6. Append(s, x) # << >>
    BY <1>1, <1>2
  <1>7. 1 .. Len(s) + 1 = 1 .. Len(s) \cup {Len(s) + 1}
    BY <1>2
  <1>8. QED
    BY <1>1, <1>2, <1>3, <1>4, <1>5, <1>6, <1>7

\* A sequence with an element has a first one.
LEMMA First ==
    ASSUME NEW S, NEW s \in Seq(S), s # << >>
    PROVE  1 \in DOMAIN s /\ Len(s) >= 1
  OBVIOUS

\* What add_check does to the expressions.
Added(T, V, chk) ==
    LET c == T.cur
        old == T.exprs[c].m_checks
    IN  /\ V \in Tree /\ V.cur = c /\ V.leaves = T.leaves
        /\ Len(V.exprs) = Len(T.exprs) /\ DOMAIN V.exprs = DOMAIN T.exprs
        /\ \A x \in DOMAIN V.exprs : V.exprs[x].m_parent = T.exprs[x].m_parent
        /\ \A x \in DOMAIN V.exprs \ {c} : V.exprs[x].m_checks = T.exprs[x].m_checks
        /\ DOMAIN V.exprs[c].m_checks = DOMAIN old \cup {Len(old) + 1}
        /\ \A i \in DOMAIN old : V.exprs[c].m_checks[i] = old[i]
        /\ V.exprs[c].m_checks[Len(old) + 1] = chk
        /\ V.exprs[c].m_checks # << >>

\* add_check adds the check at the end of the list of m_curexpr.
LEMMA AddCheck ==
    ASSUME NEW T, TreeOK(T), T.cur # NULL, NEW chk \in Chk
    PROVE  Added(T, add_check(T, chk), chk)
  <1> DEFINE c == T.cur
             old == T.exprs[c].m_checks
             e == [T.exprs[c] EXCEPT !.m_checks = Append(@, chk)]
             E == [T.exprs EXCEPT ![c] = e]
             U == add_check(T, chk)
  <1>1. T \in Tree /\ c \in 1 .. Len(T.exprs) /\ T.exprs \in Seq(Expr) /\ T.exprs[c] \in Expr
    BY DEF TreeOK, Tree, NULL
  <1>2. old \in Seq(Chk)
    BY <1>1 DEF Expr
  <1>3. /\ Append(old, chk) \in Seq(Chk) /\ DOMAIN Append(old, chk) = DOMAIN old \cup {Len(old) + 1}
        /\ \A i \in DOMAIN old : Append(old, chk)[i] = old[i]
        /\ Append(old, chk)[Len(old) + 1] = chk
        /\ Append(old, chk) # << >>
    <2> HIDE DEF old
    <2>1. QED
      BY ONLY <1>2, chk \in Chk, Appended, ZenonT(10), SMTT(60)
  <1> HIDE DEF old
  <1>4. e \in Expr /\ e.m_parent = T.exprs[c].m_parent /\ e.m_checks = Append(old, chk)
    BY <1>1, <1>3 DEF Expr, old
  <1> HIDE DEF e
  <1>5. E \in Seq(Expr) /\ Len(E) = Len(T.exprs) /\ DOMAIN E = DOMAIN T.exprs /\ E[c] = e
        /\ \A x \in DOMAIN E \ {c} : E[x] = T.exprs[x]
    BY <1>1, <1>4
  <1>6. U = [T EXCEPT !.exprs = E]
    BY DEF add_check, e, E
  <1>7. U \in Tree /\ U.exprs = E /\ U.cur = c /\ U.leaves = T.leaves
    BY <1>1, <1>5, <1>6 DEF Tree
  <1> HIDE DEF E, U
  <1>8. \A x \in DOMAIN E : E[x].m_parent = T.exprs[x].m_parent
    BY <1>4, <1>5
  <1>9. QED
    BY <1>3, <1>4, <1>5, <1>7, <1>8 DEF old, U, Added

\* add_check with the check of a field: no expression gets another owner.
LEMMA AddLeaf ==
    ASSUME NEW T, TreeOK(T), T.cur # NULL, NEW op, Takes(T, op)
    PROVE  LET U == add_leaf(T, op)
           IN  /\ TreeOK(U) /\ U.cur = T.cur /\ Len(U.exprs) = Len(T.exprs)
               /\ Grew(T, U) /\ ~Empty(U, U.cur)
  <1> DEFINE c == T.cur
             chk == [m_boolop |-> op, leaf |-> TRUE, at |-> T.leaves + 1]
             V == add_check(T, chk)
             U == add_leaf(T, op)
             E == V.exprs
             old == T.exprs[c].m_checks
  <1>1. /\ T \in Tree /\ T.leaves \in Nat /\ c \in 1 .. Len(T.exprs) /\ DOMAIN T.exprs = 1 .. Len(T.exprs)
        /\ Len(T.exprs) \in Nat /\ T.exprs[c] \in Expr
    BY DEF TreeOK, Tree, NULL
  <1>2. chk \in Chk /\ chk.m_boolop = op /\ chk.leaf
    BY <1>1 DEF Takes, Chk
  <1> HIDE DEF chk
  <1>3. /\ V \in Tree /\ V.cur = c /\ V.leaves = T.leaves
        /\ Len(E) = Len(T.exprs) /\ DOMAIN E = DOMAIN T.exprs
        /\ \A x \in DOMAIN E : E[x].m_parent = T.exprs[x].m_parent
        /\ \A x \in DOMAIN E \ {c} : E[x].m_checks = T.exprs[x].m_checks
        /\ DOMAIN E[c].m_checks = DOMAIN old \cup {Len(old) + 1}
        /\ \A i \in DOMAIN old : E[c].m_checks[i] = old[i]
        /\ E[c].m_checks[Len(old) + 1] = chk
        /\ E[c].m_checks # << >>
    <2>1. Added(T, V, chk)
      BY <1>2, AddCheck
    <2>2. QED
      BY <2>1 DEF Added
  <1>4. U = [V EXCEPT !.leaves = T.leaves + 1]
    BY DEF add_leaf, chk
  <1> HIDE DEF U, V
  <1>5. U \in Tree /\ U.exprs = E /\ U.cur = c
    <2>1. V \in Tree /\ V.cur = c /\ T.leaves + 1 \in Nat
      BY <1>1, <1>3
    <2>2. QED
      BY ONLY <1>4, <2>1, SMTT(60) DEF Tree
  <1> HIDE DEF E
  <1>6. \A p, x \in DOMAIN E : In(E, p, x) = In(T.exprs, p, x)
    <2> SUFFICES ASSUME NEW p \in DOMAIN E, NEW x \in DOMAIN E
                 PROVE  In(E, p, x) = In(T.exprs, p, x)
      OBVIOUS
    <2>1. CASE p # c
      <3>1. E[p].m_checks = T.exprs[p].m_checks
        BY <1>3, <2>1
      <3>2. QED
        BY ONLY <3>1, ZenonT(10), SMTT(60) DEF In
    <2>2. CASE p = c
      <3>1. /\ DOMAIN E[p].m_checks = DOMAIN old \cup {Len(old) + 1}
            /\ \A i \in DOMAIN old : E[p].m_checks[i] = old[i]
            /\ E[p].m_checks[Len(old) + 1].leaf
        BY <1>2, <1>3, <2>2
      <3>2. In(E, p, x) = {i \in DOMAIN old : ~old[i].leaf /\ old[i].at = x}
        BY ONLY <3>1, ZenonT(10), SMTT(60) DEF In
      <3>3. QED
        BY <2>2, <3>2 DEF In
    <2>3. QED
      BY <2>1, <2>2
  <1>7. \A x \in DOMAIN E : E[x].m_checks # << >> => Connects(E[x].m_checks[1].m_boolop) = BO_NONE
    <2> SUFFICES ASSUME NEW x \in DOMAIN E, E[x].m_checks # << >>
                 PROVE  Connects(E[x].m_checks[1].m_boolop) = BO_NONE
      OBVIOUS
    <2>1. CASE x # c
      BY <1>3, <2>1 DEF TreeOK, OwnedOnce
    <2>2. CASE x = c /\ old = << >>
      <3>1. Len(old) + 1 = 1
        BY <2>2
      <3>2. E[c].m_checks[1] = chk
        BY <1>3, <3>1
      <3>3. QED
        BY <1>2, <2>2, <3>2 DEF Takes, Empty
    <2>3. CASE x = c /\ old # << >>
      <3>1. 1 \in DOMAIN old
        <4>1. old \in Seq(Chk)
          BY <1>1 DEF Expr
        <4>2. QED
          BY <2>3, <4>1, First
      <3>2. E[c].m_checks[1] = old[1]
        BY <1>3, <3>1
      <3>3. QED
        BY <1>1, <2>3, <3>2 DEF TreeOK, OwnedOnce
    <2>4. QED
      BY <2>1, <2>2, <2>3
  <1>8. OwnedOnce(E)
    <2>1. OwnedOnce(T.exprs)
      BY DEF TreeOK
    <2>2. ASSUME NEW x \in DOMAIN E, x # 1, NEW p \in DOMAIN E
          PROVE  Cardinality(In(E, p, x)) = IF p = E[x].m_parent THEN 1 ELSE 0
      <3>1. x \in DOMAIN T.exprs /\ p \in DOMAIN T.exprs /\ E[x].m_parent = T.exprs[x].m_parent
        BY <1>3
      <3>2. Cardinality(In(T.exprs, p, x)) = IF p = T.exprs[x].m_parent THEN 1 ELSE 0
        BY ONLY <2>1, <2>2, <3>1, ZenonT(10), SMTT(60) DEF OwnedOnce
      <3>3. In(E, p, x) = In(T.exprs, p, x)
        BY <1>6
      <3>4. QED
        BY ONLY <3>1, <3>2, <3>3, ZenonT(10), SMTT(60)
    <2>3. QED
      BY ONLY <1>7, <2>2, ZenonT(10), SMTT(60) DEF OwnedOnce
  <1>9. \A x \in DOMAIN E : Made(E, E[x].m_checks)
    <2>1. \A x \in DOMAIN E : Made(E, T.exprs[x].m_checks)
      BY <1>3 DEF TreeOK, Made
    <2>2. Made(E, E[c].m_checks)
      BY <1>1, <1>2, <1>3, <2>1 DEF Made
    <2>3. QED
      BY <1>3, <2>1, <2>2
  <1>10. TreeOK(U)
    <2>1. \A x \in 2 .. Len(E) : E[x].m_parent \in 1 .. x - 1
      <3>1. \A x \in 2 .. Len(T.exprs) : T.exprs[x].m_parent \in 1 .. x - 1
        BY DEF TreeOK
      <3>2. /\ Len(T.exprs) \in Nat /\ DOMAIN E = 1 .. Len(T.exprs) /\ Len(E) = Len(T.exprs)
            /\ \A x \in DOMAIN E : E[x].m_parent = T.exprs[x].m_parent
        BY <1>1, <1>3
      <3>3. 2 .. Len(E) \subseteq DOMAIN E
        BY ONLY <3>2, SMTT(60)
      <3>4. QED
        BY ONLY <3>1, <3>2, <3>3, ZenonT(10), SMTT(60)
    <2>2. Len(E) >= 1 /\ E[1].m_parent = NULL /\ c \in 0 .. Len(E)
      <3>1. /\ Len(T.exprs) \in Nat /\ DOMAIN E = 1 .. Len(T.exprs) /\ Len(E) = Len(T.exprs)
            /\ \A x \in DOMAIN E : E[x].m_parent = T.exprs[x].m_parent
        BY <1>1, <1>3
      <3>2. Len(T.exprs) >= 1 /\ T.exprs[1].m_parent = NULL /\ c \in 1 .. Len(T.exprs)
        BY <1>1 DEF TreeOK
      <3>3. QED
        BY ONLY <3>1, <3>2, SMTT(60)
    <2>3. QED
      BY ONLY <1>5, <1>8, <1>9, <2>1, <2>2, SMTT(60) DEF TreeOK
  <1>11. Grew(T, U) /\ ~Empty(U, U.cur)
    BY <1>1, <1>3, <1>5 DEF Grew, Empty
  <1>12. QED
    BY <1>3, <1>5, <1>10, <1>11 DEF U

\* push_expression: the new expression is in the list of m_curexpr, and becomes it.
LEMMA Push ==
    ASSUME NEW T, TreeOK(T), T.cur # NULL, NEW op, Takes(T, op)
    PROVE  LET U == push_expression(T, op)
           IN  /\ TreeOK(U) /\ U.cur = Len(T.exprs) + 1 /\ Len(U.exprs) = Len(T.exprs) + 1
               /\ Grew(T, U) /\ U.exprs[U.cur].m_parent = T.cur
               /\ Empty(U, U.cur) /\ ~Empty(U, T.cur)
  <1> DEFINE c == T.cur
             n == Len(T.exprs) + 1
             chk == [m_boolop |-> op, leaf |-> FALSE, at |-> n]
             V == add_check(T, chk)
             U == push_expression(T, op)
             new == NewExpression(c)
             E == Append(V.exprs, new)
             old == T.exprs[c].m_checks
  <1>1. /\ T \in Tree /\ c \in 1 .. Len(T.exprs) /\ DOMAIN T.exprs = 1 .. Len(T.exprs)
        /\ Len(T.exprs) \in Nat /\ n \in Nat /\ c \in Nat /\ T.exprs[c] \in Expr
    BY DEF TreeOK, Tree, NULL
  <1>2. chk \in Chk /\ chk.m_boolop = op /\ ~chk.leaf /\ chk.at = n
    BY <1>1 DEF Takes, Chk
  <1> HIDE DEF chk
  <1>3. /\ V \in Tree /\ V.cur = c /\ V.leaves = T.leaves
        /\ Len(V.exprs) = Len(T.exprs) /\ DOMAIN V.exprs = DOMAIN T.exprs
        /\ \A x \in DOMAIN V.exprs : V.exprs[x].m_parent = T.exprs[x].m_parent
        /\ \A x \in DOMAIN V.exprs \ {c} : V.exprs[x].m_checks = T.exprs[x].m_checks
        /\ DOMAIN V.exprs[c].m_checks = DOMAIN old \cup {Len(old) + 1}
        /\ \A i \in DOMAIN old : V.exprs[c].m_checks[i] = old[i]
        /\ V.exprs[c].m_checks[Len(old) + 1] = chk
        /\ V.exprs[c].m_checks # << >>
    <2>1. Added(T, V, chk)
      BY <1>2, AddCheck
    <2>2. QED
      BY <2>1 DEF Added
  <1>4. new \in Expr /\ new.m_parent = c /\ new.m_checks = << >> /\ DOMAIN new.m_checks = {}
    BY <1>1 DEF NewExpression, Expr
  <1> HIDE DEF new
  <1>5. /\ E \in Seq(Expr) /\ DOMAIN E = DOMAIN T.exprs \cup {n} /\ Len(E) = n
        /\ \A x \in DOMAIN T.exprs : E[x] = V.exprs[x]
        /\ E[n] = new
    <2>1. V.exprs \in Seq(Expr)
      BY <1>3 DEF Tree
    <2> HIDE DEF V
    <2>2. /\ E \in Seq(Expr) /\ DOMAIN E = DOMAIN V.exprs \cup {Len(V.exprs) + 1}
          /\ Len(E) = Len(V.exprs) + 1
          /\ \A x \in DOMAIN V.exprs : E[x] = V.exprs[x]
          /\ E[Len(V.exprs) + 1] = new
      BY <1>4, <2>1, Appended
    <2>3. QED
      BY <1>3, <2>2
  <1>6. U = [V EXCEPT !.exprs = E, !.cur = n]
    BY DEF push_expression, chk, new
  <1> HIDE DEF E
  <1>7. U \in Tree /\ U.exprs = E /\ U.cur = n
    BY <1>1, <1>3, <1>5, <1>6 DEF Tree
  <1> HIDE DEF U, V, n
  <1>8. n \notin DOMAIN T.exprs /\ \A x \in DOMAIN T.exprs : x < n
    BY <1>1 DEF n
  <1>9. \A p, x \in DOMAIN T.exprs : In(E, p, x) = In(T.exprs, p, x)
    <2> SUFFICES ASSUME NEW p \in DOMAIN T.exprs, NEW x \in DOMAIN T.exprs
                 PROVE  In(E, p, x) = In(T.exprs, p, x)
      OBVIOUS
    <2>1. CASE p # c
      <3>1. E[p].m_checks = T.exprs[p].m_checks
        BY <1>3, <1>5, <2>1
      <3>2. QED
        BY ONLY <3>1, ZenonT(10), SMTT(60) DEF In
    <2>2. CASE p = c
      <3>1. chk.at # x
        BY <1>2, <1>8
      <3>2. E[p].m_checks = V.exprs[c].m_checks
        BY <1>5, <2>2
      <3>3. \A i \in DOMAIN old : E[p].m_checks[i] = old[i]
        BY <1>3, <3>2
      <3>4. DOMAIN E[p].m_checks = DOMAIN old \cup {Len(old) + 1} /\ E[p].m_checks[Len(old) + 1] = chk
        BY <1>3, <3>2
      <3>5. In(E, p, x) = {i \in DOMAIN old : ~old[i].leaf /\ old[i].at = x}
        BY ONLY <3>1, <3>3, <3>4, ZenonT(10), SMTT(60) DEF In
      <3>6. QED
        BY <2>2, <3>5 DEF In
    <2>3. QED
      BY <2>1, <2>2
  <1>10. \A x \in DOMAIN E : In(E, n, x) = {}
    BY <1>4, <1>5 DEF In
  <1>11. \A p \in DOMAIN T.exprs : In(T.exprs, p, n) = {}
    <2>1. \A p \in DOMAIN T.exprs : Made(T.exprs, T.exprs[p].m_checks)
      BY DEF TreeOK
    <2>2. QED
      BY <1>8, <2>1 DEF In, Made
  <1>12. \A p \in DOMAIN T.exprs \ {c} : In(E, p, n) = {}
    <2>1. \A p \in DOMAIN T.exprs \ {c} : E[p].m_checks = T.exprs[p].m_checks
      BY <1>3, <1>5
    <2>2. QED
      BY <1>11, <2>1 DEF In
  <1>13. In(E, c, n) = {Len(old) + 1}
    <2>1. \A i \in DOMAIN old : ~(~old[i].leaf /\ old[i].at = n)
      BY <1>1, <1>11 DEF In
    <2>2. E[c].m_checks = V.exprs[c].m_checks
      BY <1>1, <1>5
    <2>3. /\ DOMAIN E[c].m_checks = DOMAIN old \cup {Len(old) + 1}
          /\ \A i \in DOMAIN old : E[c].m_checks[i] = old[i]
          /\ E[c].m_checks[Len(old) + 1] = chk
      BY <1>3, <2>2
    <2>4. QED
      BY ONLY <1>2, <2>1, <2>3, ZenonT(10), SMTT(60) DEF In
  <1>14. \A x \in DOMAIN E : E[x].m_parent = IF x = n THEN c ELSE T.exprs[x].m_parent
    BY <1>3, <1>4, <1>5, <1>8
  <1>15. \A p, x \in DOMAIN E : x # 1 => Cardinality(In(E, p, x)) = IF p = E[x].m_parent THEN 1 ELSE 0
    <2> SUFFICES ASSUME NEW p \in DOMAIN E, NEW x \in DOMAIN E, x # 1
                 PROVE  Cardinality(In(E, p, x)) = IF p = E[x].m_parent THEN 1 ELSE 0
      OBVIOUS
    <2>1. CASE p = n
      <3>1. In(E, p, x) = {}
        BY <1>10, <2>1
      <3>2. E[x].m_parent # n
        <4>1. CASE x = n
          BY <1>1, <1>8, <1>14, <4>1
        <4>2. CASE x # n
          <5>1. x \in 2 .. Len(T.exprs)
            BY <1>1, <1>5, <4>2
          <5>2. T.exprs[x].m_parent \in 1 .. x - 1
            BY <5>1 DEF TreeOK
          <5>3. QED
            BY <1>1, <1>5, <1>14, <4>2, <5>1, <5>2 DEF n
        <4>3. QED
          BY <4>1, <4>2
      <3>3. QED
        BY <2>1, <3>1, <3>2, FS_EmptySet
    <2>2. CASE p # n /\ x # n
      <3>1. p \in DOMAIN T.exprs /\ x \in DOMAIN T.exprs
        BY <1>5, <2>2
      <3>2. Cardinality(In(T.exprs, p, x)) = IF p = T.exprs[x].m_parent THEN 1 ELSE 0
        BY <3>1 DEF TreeOK, OwnedOnce
      <3>3. QED
        BY <1>9, <1>14, <2>2, <3>1, <3>2
    <2>3. CASE p = c /\ x = n
      <3>1. Cardinality({Len(old) + 1}) = 1
        BY FS_Singleton
      <3>2. QED
        BY <1>13, <1>14, <2>3, <3>1
    <2>4. CASE p # n /\ p # c /\ x = n
      <3>1. In(E, p, x) = {}
        BY <1>5, <1>12, <2>4
      <3>2. QED
        BY <1>14, <2>4, <3>1, FS_EmptySet
    <2>5. QED
      BY <2>1, <2>2, <2>3, <2>4
  <1>16. \A x \in DOMAIN E : E[x].m_checks # << >> => Connects(E[x].m_checks[1].m_boolop) = BO_NONE
    <2> SUFFICES ASSUME NEW x \in DOMAIN E, E[x].m_checks # << >>
                 PROVE  Connects(E[x].m_checks[1].m_boolop) = BO_NONE
      OBVIOUS
    <2>1. x \in DOMAIN T.exprs
      BY <1>4, <1>5
    <2>2. CASE x # c
      <3>1. E[x].m_checks = T.exprs[x].m_checks
        BY <1>3, <1>5, <2>1, <2>2
      <3>2. QED
        BY <2>1, <3>1 DEF TreeOK, OwnedOnce
    <2>3. CASE x = c /\ old = << >>
      <3>1. Len(old) + 1 = 1
        BY <2>3
      <3>2. E[c].m_checks[1] = chk
        BY <1>3, <1>5, <2>1, <2>3, <3>1
      <3>3. QED
        BY <1>2, <2>3, <3>2 DEF Takes, Empty
    <2>4. CASE x = c /\ old # << >>
      <3>1. 1 \in DOMAIN old
        <4>1. old \in Seq(Chk)
          BY <1>1 DEF Expr
        <4>2. QED
          BY <2>4, <4>1, First
      <3>2. E[c].m_checks[1] = old[1]
        BY <1>3, <1>5, <2>1, <2>4, <3>1
      <3>3. QED
        BY <1>1, <2>4, <3>2 DEF TreeOK, OwnedOnce
    <2>5. QED
      BY <2>2, <2>3, <2>4
  <1>17. OwnedOnce(E)
    BY <1>15, <1>16 DEF OwnedOnce
  <1>18. \A x \in DOMAIN E : Made(E, E[x].m_checks)
    <2>1. \A x \in DOMAIN T.exprs : Made(E, T.exprs[x].m_checks)
      BY <1>5 DEF TreeOK, Made
    <2>2. \A x \in DOMAIN T.exprs \ {c} : Made(E, E[x].m_checks)
      BY <1>3, <1>5, <2>1
    <2>3. Made(E, E[n].m_checks)
      BY <1>4, <1>5 DEF Made
    <2>4. Made(E, E[c].m_checks)
      <3>1. E[c].m_checks = V.exprs[c].m_checks /\ chk.at \in DOMAIN E
        BY <1>1, <1>2, <1>5
      <3>2. Made(E, old)
        BY <1>1, <2>1
      <3>3. QED
        BY <1>3, <3>1, <3>2 DEF Made
    <2>5. QED
      BY <1>5, <2>2, <2>3, <2>4
  <1>19. \A x \in 2 .. Len(E) : E[x].m_parent \in 1 .. x - 1
    <2> SUFFICES ASSUME NEW x \in 2 .. Len(E)
                 PROVE  E[x].m_parent \in 1 .. x - 1
      OBVIOUS
    <2>1. x \in DOMAIN E
      BY <1>1, <1>5 DEF n
    <2>2. CASE x = n
      BY <1>1, <1>14, <2>1, <2>2 DEF n
    <2>3. CASE x # n
      <3>1. x \in 2 .. Len(T.exprs)
        BY <1>1, <1>5, <2>1, <2>3
      <3>2. QED
        BY <1>14, <2>1, <2>3, <3>1 DEF TreeOK
    <2>4. QED
      BY <2>2, <2>3
  <1>20. E[1].m_parent = NULL /\ Len(E) >= 1 /\ n \in 0 .. Len(E)
    <2>1. 1 \in DOMAIN T.exprs /\ 1 # n
      BY <1>1 DEF n
    <2>2. T.exprs[1].m_parent = NULL
      BY DEF TreeOK
    <2>3. E[1].m_parent = NULL
      BY <1>5, <1>14, <2>1, <2>2
    <2>4. QED
      BY <1>1, <1>5, <2>3
  <1>21. TreeOK(U)
    BY <1>7, <1>17, <1>18, <1>19, <1>20 DEF TreeOK
  <1>22. Grew(T, U)
    <2>1. Len(T.exprs) <= Len(E)
      BY <1>1, <1>5 DEF n
    <2>2. \A x \in DOMAIN T.exprs : T.exprs[x].m_checks # << >> => E[x].m_checks # << >>
      BY <1>3, <1>5
    <2>3. QED
      BY <1>1, <1>5, <1>7, <1>8, <1>14, <2>1, <2>2 DEF Grew, Empty
  <1>23. E[n].m_parent = c /\ Empty(U, n) /\ ~Empty(U, c)
    BY <1>1, <1>3, <1>4, <1>5, <1>7 DEF Empty
  <1>24. QED
    BY <1>5, <1>7, <1>21, <1>22, <1>23 DEF U, n

\* pop_expression: m_curexpr is its parent, or NULL; the expressions are the same.
LEMMA Pop ==
    ASSUME NEW T, TreeOK(T), T.cur # NULL
    PROVE  LET U == pop_expression(T)
           IN  /\ TreeOK(U) /\ U.exprs = T.exprs /\ U.cur = T.exprs[T.cur].m_parent
               /\ T.cur # 1 => U.cur # NULL /\ ~Empty(U, U.cur)
               /\ T.cur = 1 => U.cur = NULL
  <1> DEFINE c == T.cur
             p == T.exprs[c].m_parent
             U == pop_expression(T)
  <1>1. /\ T \in Tree /\ c \in 1 .. Len(T.exprs) /\ DOMAIN T.exprs = 1 .. Len(T.exprs)
        /\ Len(T.exprs) \in Nat /\ c \in Nat /\ T.exprs[c] \in Expr
    BY DEF TreeOK, Tree, NULL
  <1>2. U = [T EXCEPT !.cur = p]
    BY DEF pop_expression
  <1>3. U \in Tree /\ U.exprs = T.exprs /\ U.cur = p
    BY <1>1, <1>2 DEF Tree, Expr
  <1>4. c = 1 => p = NULL
    BY DEF TreeOK
  <1>5. c # 1 => p \in 1 .. c - 1
    BY <1>1 DEF TreeOK
  <1> HIDE DEF U, p
  <1>6. p \in 0 .. Len(T.exprs)
    BY <1>1, <1>4, <1>5 DEF NULL
  <1>7. TreeOK(U)
    BY ONLY TreeOK(T), <1>3, <1>6, SMTT(60) DEF TreeOK
  <1>8. c # 1 => T.exprs[p].m_checks # << >>
    <2> SUFFICES ASSUME c # 1, T.exprs[p].m_checks = << >>
                 PROVE  FALSE
      OBVIOUS
    <2>1. p \in DOMAIN T.exprs
      BY <1>1, <1>5
    <2>2. Cardinality(In(T.exprs, p, c)) = 1
      BY <1>1, <2>1 DEF TreeOK, OwnedOnce, p
    <2>3. In(T.exprs, p, c) = {}
      BY DEF In
    <2>4. QED
      BY <2>2, <2>3, FS_EmptySet
  <1>9. QED
    BY <1>1, <1>3, <1>4, <1>5, <1>7, <1>8 DEF Empty, NULL, U, p

\* A filter with no words yet.
LEMMA NewTree == TreeOK(NewFilter) /\ NewFilter.cur = 1 /\ Len(NewFilter.exprs) = 1 /\ Empty(NewFilter, 1)
  <1> DEFINE e == NewExpression(NULL)
  <1>1. e \in Expr /\ e.m_parent = NULL /\ e.m_checks = << >> /\ DOMAIN e.m_checks = {}
    BY DEF NewExpression, Expr, NULL
  <1> HIDE DEF e
  <1>2. /\ NewFilter \in Tree /\ NewFilter.exprs = <<e>> /\ NewFilter.cur = 1
        /\ DOMAIN <<e>> = {1} /\ <<e>>[1] = e /\ Len(<<e>>) = 1
    BY <1>1 DEF NewFilter, Tree, e
  <1>3. OwnedOnce(<<e>>)
    BY <1>1, <1>2 DEF OwnedOnce
  <1>4. \A x \in DOMAIN <<e>> : Made(<<e>>, <<e>>[x].m_checks)
    BY <1>1, <1>2 DEF Made
  <1>5. \A x \in 2 .. 1 : FALSE
    OBVIOUS
  <1>6. TreeOK(NewFilter)
    BY <1>1, <1>2, <1>3, <1>4, <1>5 DEF TreeOK
  <1>7. QED
    BY <1>1, <1>2, <1>6 DEF Empty

\* parse_check adds to the list of m_curexpr, and leaves it where it is.
LEMMA ParseCheck ==
    ASSUME TreeOK(tree), tree.cur # NULL, Takes(tree, m_last_boolop), NEW w
    PROVE  LET U == parse_check(w)
           IN  /\ TreeOK(U) /\ Grew(tree, U) /\ U.cur = tree.cur /\ ~Empty(U, U.cur)
               /\ Len(U.exprs) \in {Len(tree.exprs), Len(tree.exprs) + 1}
  <1>1. CASE w = "check"
    BY <1>1, AddLeaf DEF parse_check
  <1>2. CASE w # "check"
    <2> DEFINE c == tree.cur
               n == Len(tree.exprs) + 1
               A == push_expression(tree, m_last_boolop)
               B == add_leaf(A, BO_NONE)
               C == add_leaf(B, BO_OR)
               D == pop_expression(C)
    <2>1. /\ tree \in Tree /\ c \in 1 .. Len(tree.exprs) /\ Len(tree.exprs) \in Nat
          /\ n \in Nat /\ n # 0 /\ n # 1
      BY DEF TreeOK, Tree, NULL
    <2> HIDE DEF n
    <2>2. /\ TreeOK(A) /\ A.cur = n /\ Len(A.exprs) = n /\ Grew(tree, A)
          /\ A.exprs[n].m_parent = c /\ ~Empty(A, c)
      BY Push DEF n
    <2> HIDE DEF A
    <2>3. Takes(A, BO_NONE)
      BY DEF Takes, BO_NONE, Connects
    <2>4. TreeOK(B) /\ B.cur = n /\ Len(B.exprs) = n /\ Grew(A, B) /\ ~Empty(B, n)
      BY <2>1, <2>2, <2>3, AddLeaf DEF NULL
    <2> HIDE DEF B
    <2>5. Takes(B, BO_OR)
      BY <2>4 DEF Takes, BO_OR
    <2>6. TreeOK(C) /\ C.cur = n /\ Len(C.exprs) = n /\ Grew(B, C)
      BY <2>1, <2>4, <2>5, AddLeaf DEF NULL
    <2> HIDE DEF C
    <2>7. C.exprs[n].m_parent = c
      BY <2>1, <2>2, <2>4, <2>6 DEF Grew
    <2>8. TreeOK(D) /\ D.exprs = C.exprs /\ D.cur = c /\ ~Empty(D, c)
      BY <2>1, <2>6, <2>7, Pop DEF NULL
    <2>9. Grew(tree, D)
      BY <2>1, <2>2, <2>4, <2>6, <2>8 DEF Grew, Empty, n
    <2>10. parse_check(w) = D
      BY <1>2 DEF parse_check, A, B, C
    <2>11. QED
      BY <2>6, <2>8, <2>9, <2>10 DEF n
  <1>3. QED
    BY <1>1, <1>2

---------------------------------------------------------------------------
\* The compiler

\* How deep the expressions of a tree are nested.
Levels(T) ==
    {lev \in [1 .. Len(T.exprs) -> Nat] :
        /\ lev[1] = 0
        /\ \A x \in 2 .. Len(T.exprs) : lev[x] = lev[T.exprs[x].m_parent] + 1}

\* m_nest_level is the level of m_curexpr.
Nested(T, n) == \E lev \in Levels(T) : n = IF T.cur = NULL THEN -1 ELSE lev[T.cur]

Final(s) == IF s = << >> THEN "start" ELSE s[Len(s)]
Ends(s) == Final(s) \in Leaves \cup {")"}

\* What holds whenever compile_ is at a word: the next check has a connective only if
\* there is a check before it; and as long as the words may be the beginning of a
\* filter, the state and the level are those of the words.
Reading ==
    /\ tree.cur # NULL => Takes(tree, m_last_boolop)
    /\ tree.cur # NULL /\ m_state = "ST_EXPRESSION_DONE" => ~Empty(tree, tree.cur)
    /\ Viable(words) => /\ m_nest_level = Depth(words, 1, Len(words))
                        /\ m_state = "ST_EXPRESSION_DONE" <=> Ends(words)

CompilerInv ==
    /\ words \in Seq(Words)
    /\ status \in {"reading", "accepted", "rejected", "incomplete", "undefined"}
    /\ m_state \in {"ST_NEED_EXPRESSION", "ST_EXPRESSION_DONE"}
    /\ m_last_boolop \in 0 .. 5
    /\ m_nest_level \in Int
    /\ TreeOK(tree)
    /\ Nested(tree, m_nest_level)
    /\ status = "reading" => Reading
    /\ AcceptsFilters

\* The levels of a tree with another expression.
LEMMA LevelsGrow ==
    ASSUME NEW T, NEW U, TreeOK(T), TreeOK(U), Grew(T, U),
           Len(U.exprs) \in {Len(T.exprs), Len(T.exprs) + 1}, NEW lev \in Levels(T)
    PROVE  \E new \in Levels(U) : \A x \in 1 .. Len(T.exprs) : new[x] = lev[x]
  <1> DEFINE n == Len(T.exprs)
             m == Len(U.exprs)
             new == [x \in 1 .. m |-> IF x <= n THEN lev[x] ELSE lev[U.exprs[x].m_parent] + 1]
  <1>1. n \in Nat /\ n >= 1 /\ m \in {n, n + 1}
    BY DEF TreeOK, Tree
  <1>2. \A x \in 2 .. m : U.exprs[x].m_parent \in 1 .. x - 1
    BY DEF TreeOK
  <1>3. lev \in [1 .. n -> Nat] /\ lev[1] = 0 /\ \A x \in 2 .. n : lev[x] = lev[T.exprs[x].m_parent] + 1
    BY DEF Levels
  <1>4. \A x \in 1 .. n : U.exprs[x].m_parent = T.exprs[x].m_parent
    BY DEF Grew
  <1> HIDE DEF n, m
  <1>5. \A x \in 1 .. n : new[x] = lev[x]
    BY <1>1
  <1>6. \A x \in 1 .. m : x > n => x \in 2 .. m /\ U.exprs[x].m_parent \in 1 .. n
    BY <1>1, <1>2
  <1>7. new \in [1 .. m -> Nat]
    BY <1>1, <1>3, <1>6
  <1>8. \A x \in 2 .. m : new[x] = new[U.exprs[x].m_parent] + 1
    <2> SUFFICES ASSUME NEW x \in 2 .. m
                 PROVE  new[x] = new[U.exprs[x].m_parent] + 1
      OBVIOUS
    <2>1. CASE x \in 1 .. n
      <3>1. x \in 2 .. n /\ U.exprs[x].m_parent \in 1 .. n
        BY <1>1, <1>2, <2>1
      <3>2. QED
        BY <1>3, <1>4, <1>5, <2>1, <3>1
    <2>2. CASE x \notin 1 .. n
      <3>1. x \in 1 .. m /\ x > n
        BY <1>1, <2>2
      <3>2. new[x] = lev[U.exprs[x].m_parent] + 1 /\ U.exprs[x].m_parent \in 1 .. n
        BY <1>1, <1>6, <3>1
      <3>3. QED
        BY <1>5, <3>2
    <2>3. QED
      BY <2>1, <2>2
  <1>9. new[1] = 0
    BY <1>1, <1>3, <1>5
  <1> HIDE DEF new
  <1>10. new \in Levels(U)
    BY <1>7, <1>8, <1>9 DEF Levels, m
  <1>11. QED
    BY <1>5, <1>10 DEF n

\* The number of opening, or of closing brackets with one more word.
LEMMA PlacesAppended ==
    ASSUME NEW s \in Seq(Words), NEW w \in Words, NEW v
    PROVE  LET t == Append(s, w)
           IN  /\ \A i \in DOMAIN s : Places(t, 1, i, v) = Places(s, 1, i, v)
               /\ Cardinality(Places(t, 1, Len(t), v)) =
                     Cardinality(Places(s, 1, Len(s), v)) + (IF w = v THEN 1 ELSE 0)
               /\ Cardinality(Places(s, 1, Len(s), v)) \in Nat
  <1> DEFINE t == Append(s, w)
             n == Len(s)
             P == Places(s, 1, n, v)
  <1>1. /\ DOMAIN t = DOMAIN s \cup {n + 1} /\ Len(t) = n + 1
        /\ \A i \in DOMAIN s : t[i] = s[i]
        /\ t[n + 1] = w
    BY Appended
  <1>2. n \in Nat /\ DOMAIN s = 1 .. n
    OBVIOUS
  <1> HIDE DEF t, n
  <1>3. \A i \in DOMAIN s : Places(t, 1, i, v) = Places(s, 1, i, v)
    <2> SUFFICES ASSUME NEW i \in DOMAIN s
                 PROVE  Places(t, 1, i, v) = Places(s, 1, i, v)
      OBVIOUS
    <2>1. 1 .. i \subseteq DOMAIN s
      BY <1>2
    <2>2. QED
      BY <1>1, <2>1 DEF Places
  <1>4. P \subseteq 1 .. n /\ n + 1 \notin P
    BY <1>2 DEF Places
  <1>5. IsFiniteSet(P)
    <2>1. IsFiniteSet(1 .. n)
      BY <1>2, FS_Interval
    <2> HIDE DEF P
    <2>2. QED
      BY <1>4, <2>1, FS_Subset
  <1>6. Cardinality(P) \in Nat
    BY <1>5, FS_CardinalityType
  <1>7. Cardinality(P \cup {n + 1}) = Cardinality(P) + 1
    BY <1>4, <1>5, FS_AddElement
  <1>8. 1 .. n + 1 = (1 .. n) \cup {n + 1}
    BY <1>2
  <1>9. \A i \in 1 .. n : t[i] = s[i]
    BY <1>1, <1>2
  <1>10. Cardinality(Places(t, 1, n + 1, v)) = Cardinality(P) + (IF w = v THEN 1 ELSE 0)
    <2>1. CASE w = v
      <3>1. Places(t, 1, n + 1, v) = P \cup {n + 1}
        BY <1>1, <1>8, <1>9, <2>1 DEF Places
      <3>2. QED
        BY <1>7, <2>1, <3>1
    <2>2. CASE w # v
      <3>1. Places(t, 1, n + 1, v) = P
        BY <1>1, <1>8, <1>9, <2>2 DEF Places
      <3> HIDE DEF P
      <3>2. QED
        BY <1>6, <2>2, <3>1
    <2>3. QED
      BY <2>1, <2>2
  <1>11. QED
    BY <1>1, <1>3, <1>6, <1>10 DEF P, t, n

\* With one more word: what the depth is, and what makes it the beginning of a filter.
LEMMA OneMoreWord ==
    ASSUME NEW s \in Seq(Words), NEW w \in Words
    PROVE  LET t == Append(s, w)
           IN  /\ t \in Seq(Words) /\ Final(t) = w
               /\ Depth(t, 1, Len(t)) = Depth(s, 1, Len(s)) + (IF w = "(" THEN 1 ELSE IF w = ")" THEN -1 ELSE 0)
               /\ Viable(t) => Viable(s) /\ w \in Follows(Final(s))
  <1> DEFINE t == Append(s, w)
             n == Len(s)
  <1>1. /\ t \in Seq(Words) /\ DOMAIN t = DOMAIN s \cup {n + 1} /\ Len(t) = n + 1
        /\ \A i \in DOMAIN s : t[i] = s[i]
        /\ t[n + 1] = w /\ t # << >>
    BY Appended
  <1>2. n \in Nat /\ DOMAIN s = 1 .. n /\ (s = << >> <=> n = 0)
    OBVIOUS
  <1>3. Final(t) = w
    BY <1>1 DEF Final
  <1>4. /\ \A i \in DOMAIN s : Places(t, 1, i, "(") = Places(s, 1, i, "(")
        /\ Cardinality(Places(t, 1, Len(t), "(")) = Cardinality(Places(s, 1, n, "(")) + (IF w = "(" THEN 1 ELSE 0)
        /\ Cardinality(Places(s, 1, n, "(")) \in Nat
    BY PlacesAppended
  <1>5. /\ \A i \in DOMAIN s : Places(t, 1, i, ")") = Places(s, 1, i, ")")
        /\ Cardinality(Places(t, 1, Len(t), ")")) = Cardinality(Places(s, 1, n, ")")) + (IF w = ")" THEN 1 ELSE 0)
        /\ Cardinality(Places(s, 1, n, ")")) \in Nat
    BY PlacesAppended
  <1> HIDE DEF t, n
  <1>6. Depth(t, 1, Len(t)) = Depth(s, 1, n) + (IF w = "(" THEN 1 ELSE IF w = ")" THEN -1 ELSE 0)
    BY <1>4, <1>5 DEF Depth
  <1>7. ASSUME Viable(t) PROVE Viable(s)
    <2> SUFFICES ASSUME NEW i \in DOMAIN s
                 PROVE  s[i] \in Follows(Before(s, i)) /\ Depth(s, 1, i) >= 0
      BY DEF Viable
    <2>1. t[i] \in Follows(Before(t, i)) /\ Depth(t, 1, i) >= 0
      BY <1>1, <1>7 DEF Viable
    <2>2. Before(t, i) = Before(s, i)
      BY <1>1, <1>2 DEF Before
    <2>3. Depth(t, 1, i) = Depth(s, 1, i)
      BY <1>4, <1>5 DEF Depth
    <2>4. QED
      BY <1>1, <2>1, <2>2, <2>3
  <1>8. ASSUME Viable(t) PROVE w \in Follows(Final(s))
    <2>1. t[n + 1] \in Follows(Before(t, n + 1))
      BY <1>1, <1>8 DEF Viable
    <2>2. Before(t, n + 1) = Final(s)
      <3>1. CASE n = 0
        BY <1>2, <3>1 DEF Before, Final
      <3>2. CASE n # 0
        <4>1. n \in DOMAIN s /\ n + 1 # 1 /\ n + 1 - 1 = n
          BY <1>2, <3>2
        <4>2. QED
          BY <1>1, <1>2, <3>2, <4>1 DEF Before, Final, n
      <3>3. QED
        BY <3>1, <3>2
    <2>3. QED
      BY <1>1, <2>1, <2>2
  <1>9. QED
    BY <1>1, <1>3, <1>6, <1>7, <1>8 DEF t, n

\* The depth is never below zero.
LEMMA ViableDepth ==
    ASSUME NEW s \in Seq(Words), Viable(s)
    PROVE  Depth(s, 1, Len(s)) >= 0
  <1>1. CASE s = << >>
    <2>1. Len(s) = 0 /\ 1 .. 0 = {}
      BY <1>1
    <2>2. \A v : Places(s, 1, Len(s), v) = {}
      BY <2>1 DEF Places
    <2>3. Cardinality({}) = 0
      BY FS_EmptySet
    <2>4. Depth(s, 1, Len(s)) = 0 - 0
      BY <2>2, <2>3 DEF Depth
    <2>5. QED
      BY <2>4
  <1>2. CASE s # << >>
    BY <1>2 DEF Viable
  <1>3. QED
    BY <1>1, <1>2

\* Which words come after the end of an expression.
LEMMA FollowsEnd ==
    ASSUME NEW f, NEW w \in Words, w \in Follows(f)
    PROVE  /\ w # "bad"
           /\ w \in Connectives \cup {")"} <=> f \in Leaves \cup {")"}
  BY DEF Follows, Words, Leaves, Connectives

\* What is known when a word was read and the words may still be the beginning of a
\* filter.
LEMMA NextWord ==
    ASSUME CompilerInv, NEW w \in Words, Reads(w)
    PROVE  /\ words' \in Seq(Words) /\ Final(words') = w /\ status = "reading" /\ Reading
           /\ Viable(words') =>
                 /\ tree.cur # NULL /\ w # "bad"
                 /\ w \in Connectives \cup {")"} <=> m_state = "ST_EXPRESSION_DONE"
                 /\ Depth(words', 1, Len(words')) =
                       m_nest_level + (IF w = "(" THEN 1 ELSE IF w = ")" THEN -1 ELSE 0)
  <1>1. words \in Seq(Words) /\ words' = Append(words, w) /\ status = "reading" /\ Reading
    BY DEF CompilerInv, Reads
  <1>2. /\ words' \in Seq(Words) /\ Final(words') = w
        /\ Depth(words', 1, Len(words')) =
              Depth(words, 1, Len(words)) + (IF w = "(" THEN 1 ELSE IF w = ")" THEN -1 ELSE 0)
        /\ Viable(words') => Viable(words) /\ w \in Follows(Final(words))
    BY <1>1, OneMoreWord
  <1>3. ASSUME Viable(words')
        PROVE  /\ tree.cur # NULL /\ w # "bad"
               /\ w \in Connectives \cup {")"} <=> m_state = "ST_EXPRESSION_DONE"
               /\ m_nest_level = Depth(words, 1, Len(words))
    <2>1. /\ m_nest_level = Depth(words, 1, Len(words))
          /\ m_state = "ST_EXPRESSION_DONE" <=> Ends(words)
      BY <1>1, <1>2, <1>3 DEF Reading
    <2>2. m_nest_level >= 0
      BY <1>1, <1>2, <1>3, <2>1, ViableDepth
    <2>3. tree.cur # NULL
      BY <2>2 DEF CompilerInv, Nested
    <2>4. w # "bad" /\ (w \in Connectives \cup {")"} <=> Final(words) \in Leaves \cup {")"})
      BY <1>2, <1>3, FollowsEnd
    <2>5. QED
      BY <2>1, <2>3, <2>4 DEF Ends
  <1>4. QED
    BY <1>1, <1>2, <1>3

\* A filter that is not in order may be turned down, or lead astray.
LEMMA TurnDown ==
    ASSUME CompilerInv, words' \in Seq(Words), Throw \/ Undefined, ~Viable(words')
    PROVE  CompilerInv'
  BY DEF CompilerInv, Throw, Undefined, AcceptsFilters

\* compile_ at a word that it takes: what is left to show.
LEMMA ReadOn ==
    ASSUME words' \in Seq(Words), status' = "reading",
           m_state' \in {"ST_NEED_EXPRESSION", "ST_EXPRESSION_DONE"},
           m_last_boolop' \in 0 .. 5, m_nest_level' \in Int,
           TreeOK(tree)', Nested(tree, m_nest_level)', Reading'
    PROVE  CompilerInv'
  BY DEF CompilerInv, AcceptsFilters

\* The step at "(".
LEMMA OpenStep ==
    ASSUME CompilerInv, Open
    PROVE  CompilerInv'
  <1> DEFINE c == tree.cur
             n == Len(tree.exprs) + 1
  <1>1. "(" \in Words /\ "(" \notin Connectives \cup {")"}
    BY DEF Words, Connectives
  <1>2. Reads("(")
    BY DEF Open
  <1>3. /\ words' \in Seq(Words) /\ Final(words') = "(" /\ status = "reading" /\ Reading
        /\ Viable(words') => /\ c # NULL /\ m_state # "ST_EXPRESSION_DONE"
                             /\ Depth(words', 1, Len(words')) = m_nest_level + 1
    BY <1>1, <1>2, NextWord
  <1>4. CASE (Throw /\ m_state # "ST_NEED_EXPRESSION") \/ (Undefined /\ c = NULL)
    BY <1>3, <1>4, TurnDown DEF CompilerInv
  <1>5. CASE /\ m_state = "ST_NEED_EXPRESSION" /\ c # NULL
             /\ tree' = push_expression(tree, m_last_boolop)
             /\ m_last_boolop' = Opened
             /\ m_nest_level' = m_nest_level + 1
             /\ UNCHANGED <<status, m_state>>
    <2>1. Takes(tree, m_last_boolop) /\ TreeOK(tree)
      BY <1>3, <1>5 DEF Reading, CompilerInv
    <2>2. /\ TreeOK(tree') /\ tree'.cur = n /\ Len(tree'.exprs) = n /\ Grew(tree, tree')
          /\ tree'.exprs[n].m_parent = c /\ Empty(tree', n)
      BY <1>5, <2>1, Push
    <2>3. n \in Nat /\ n >= 2 /\ c \in 1 .. Len(tree.exprs)
      BY <1>5, <2>1 DEF TreeOK, Tree, NULL
    <2>4. PICK lev \in Levels(tree) : m_nest_level = lev[c]
      BY <1>5 DEF CompilerInv, Nested
    <2>5. PICK new \in Levels(tree') : \A x \in 1 .. Len(tree.exprs) : new[x] = lev[x]
      BY <2>1, <2>2, LevelsGrow
    <2>6. new[n] = m_nest_level + 1
      <3>1. n \in 2 .. Len(tree'.exprs)
        BY <2>2, <2>3
      <3>2. new[n] = new[tree'.exprs[n].m_parent] + 1
        BY <2>5, <3>1 DEF Levels
      <3>3. new[n] = new[c] + 1
        BY <2>2, <3>2
      <3>4. QED
        BY <2>3, <2>4, <2>5, <3>3
    <2>7. Nested(tree', m_nest_level')
      BY <1>5, <2>2, <2>3, <2>5, <2>6 DEF Nested, NULL
    <2>8. Takes(tree', m_last_boolop')
      BY <1>5 DEF Takes, Opened, BO_NONE, Connects
    <2>9. ~Ends(words')
      BY <1>3 DEF Ends, Leaves
    <2>10. Reading'
      BY <1>3, <1>5, <2>8, <2>9 DEF Reading
    <2>11. m_last_boolop' \in 0 .. 5 /\ m_nest_level' \in Int
      BY <1>5 DEF Opened, BO_NONE, CompilerInv
    <2>12. QED
      BY <1>3, <1>5, <2>2, <2>7, <2>10, <2>11, ReadOn
  <1>6. QED
    BY <1>4, <1>5 DEF Open

\* The step at ")".
LEMMA CloseStep ==
    ASSUME CompilerInv, Close
    PROVE  CompilerInv'
  <1> DEFINE c == tree.cur
             p == tree.exprs[c].m_parent
  <1>1. ")" \in Words /\ ")" \in Connectives \cup {")"} /\ ")" # "("
    BY DEF Words, Connectives
  <1>2. Reads(")")
    BY DEF Close
  <1>3. /\ words' \in Seq(Words) /\ Final(words') = ")" /\ status = "reading" /\ Reading
        /\ Viable(words') => /\ c # NULL /\ m_state = "ST_EXPRESSION_DONE"
                             /\ Depth(words', 1, Len(words')) = m_nest_level + -1
    BY <1>1, <1>2, NextWord
  <1>4. CASE Undefined /\ c = NULL
    BY <1>3, <1>4, TurnDown
  <1>5. CASE /\ c # NULL
             /\ tree' = pop_expression(tree)
             /\ m_nest_level' = m_nest_level - 1
             /\ UNCHANGED <<status, m_state, m_last_boolop>>
    <2>1. TreeOK(tree) /\ m_nest_level \in Int /\ m_last_boolop \in 0 .. 5
      BY DEF CompilerInv
    <2>2. /\ TreeOK(tree') /\ tree'.exprs = tree.exprs /\ tree'.cur = p
          /\ c # 1 => p # NULL /\ ~Empty(tree', p)
          /\ c = 1 => p = NULL
      BY <1>5, <2>1, Pop
    <2>3. PICK lev \in Levels(tree) : m_nest_level = lev[c]
      BY <1>5 DEF CompilerInv, Nested
    <2>4. lev \in Levels(tree')
      BY <2>2, <2>3 DEF Levels
    <2>5. c \in 1 .. Len(tree.exprs) /\ Len(tree.exprs) \in Nat
      BY <1>5, <2>1 DEF TreeOK, Tree, NULL
    <2>6. c # 1 => p \in 1 .. Len(tree.exprs)
      BY <2>1, <2>5 DEF TreeOK
    <2>7. m_nest_level' = IF p = NULL THEN -1 ELSE lev[p]
      <3>1. CASE c = 1
        BY <1>5, <2>2, <2>3, <3>1 DEF Levels
      <3>2. CASE c # 1
        <4>1. c \in 2 .. Len(tree.exprs)
          BY <2>5, <3>2
        <4>2. lev[c] = lev[p] + 1 /\ lev[p] \in Nat
          BY <2>3, <2>6, <3>2, <4>1 DEF Levels
        <4>3. QED
          BY <1>5, <2>2, <2>3, <3>2, <4>2
      <3>3. QED
        BY <3>1, <3>2
    <2>8. Nested(tree', m_nest_level')
      BY <2>2, <2>4, <2>7 DEF Nested
    <2>9. Ends(words')
      BY <1>3 DEF Ends
    <2>10. p # NULL => ~Empty(tree', p)
      BY <2>2
    <2>11. Reading'
      BY <1>3, <1>5, <2>1, <2>2, <2>9, <2>10 DEF Reading, Takes
    <2>12. QED
      BY <1>3, <1>5, <2>1, <2>2, <2>8, <2>11, ReadOn DEF CompilerInv
  <1>6. QED
    BY <1>4, <1>5 DEF Close

\* A "not" leaves the connective as it is.
LEMMA WithNotConnects ==
    ASSUME NEW op \in 0 .. 5
    PROVE  WithNot(op) \in 0 .. 5 /\ Connects(WithNot(op)) = Connects(op)
  <1>1. op = 0 \/ op = 1 \/ op = 2 \/ op = 3 \/ op = 4 \/ op = 5
    OBVIOUS
  <1>2. QED
    BY <1>1 DEF WithNot, Connects

\* The step at "and" and at "or".
LEMMA ConnectiveStep ==
    ASSUME CompilerInv, NEW w \in Words, Connective(w)
    PROVE  CompilerInv'
  <1>1. w \in Connectives /\ Reads(w) /\ w # "(" /\ w # ")"
    BY DEF Connective, Connectives
  <1>2. /\ words' \in Seq(Words) /\ Final(words') = w /\ status = "reading" /\ Reading
        /\ Viable(words') => /\ m_state = "ST_EXPRESSION_DONE"
                             /\ Depth(words', 1, Len(words')) = m_nest_level + 0
    BY <1>1, NextWord
  <1>3. CASE Throw /\ m_state = "ST_NEED_EXPRESSION"
    BY <1>2, <1>3, TurnDown
  <1>4. CASE /\ m_state = "ST_EXPRESSION_DONE"
             /\ m_last_boolop' = Boolop(w)
             /\ m_state' = "ST_NEED_EXPRESSION"
             /\ UNCHANGED <<status, m_nest_level, tree>>
    <2>1. TreeOK(tree) /\ m_nest_level \in Int /\ Nested(tree, m_nest_level)
      BY DEF CompilerInv
    <2>2. m_last_boolop' \in 0 .. 5
      BY <1>4 DEF Boolop, BO_OR, BO_AND
    <2>3. ~Ends(words')
      BY <1>1, <1>2 DEF Ends, Leaves, Connectives
    <2>4. tree.cur # NULL => ~Empty(tree, tree.cur)
      BY <1>2, <1>4 DEF Reading
    <2>5. Reading'
      BY <1>2, <1>4, <2>1, <2>2, <2>3, <2>4 DEF Reading, Takes
    <2>6. QED
      BY <1>2, <1>4, <2>1, <2>2, <2>5, ReadOn
  <1>5. QED
    BY <1>3, <1>4 DEF Connective

\* The step at "not".
LEMMA NotStep ==
    ASSUME CompilerInv, Not
    PROVE  CompilerInv'
  <1>1. Reads("not") /\ "not" \in Words
    BY DEF Not, Words
  <1>2. /\ words' \in Seq(Words) /\ Final(words') = "not" /\ status = "reading" /\ Reading
        /\ Viable(words') => Depth(words', 1, Len(words')) = m_nest_level + 0
    BY <1>1, NextWord
  <1>3. /\ m_last_boolop' = WithNot(m_last_boolop)
        /\ m_state' = "ST_NEED_EXPRESSION"
        /\ UNCHANGED <<status, m_nest_level, tree>>
    BY DEF Not
  <1>4. TreeOK(tree) /\ m_nest_level \in Int /\ Nested(tree, m_nest_level) /\ m_last_boolop \in 0 .. 5
    BY DEF CompilerInv
  <1>5. m_last_boolop' \in 0 .. 5 /\ Connects(m_last_boolop') = Connects(m_last_boolop)
    BY <1>3, <1>4, WithNotConnects
  <1>6. ~Ends(words')
    BY <1>2 DEF Ends, Leaves
  <1>7. Reading'
    BY <1>2, <1>3, <1>4, <1>5, <1>6 DEF Reading, Takes
  <1>8. QED
    BY <1>2, <1>3, <1>4, <1>5, <1>7, ReadOn

\* The step at a check.
LEMMA CheckStep ==
    ASSUME CompilerInv, NEW w \in Words, Check(w)
    PROVE  CompilerInv'
  <1> DEFINE c == tree.cur
  <1>1. w \in Leaves /\ Reads(w) /\ w # "(" /\ w \notin Connectives \cup {")"}
    BY DEF Check, Leaves, Connectives
  <1>2. /\ words' \in Seq(Words) /\ Final(words') = w /\ status = "reading" /\ Reading
        /\ Viable(words') => /\ c # NULL /\ m_state # "ST_EXPRESSION_DONE"
                             /\ Depth(words', 1, Len(words')) = m_nest_level + 0
    BY <1>1, NextWord
  <1>3. CASE (Throw /\ m_state # "ST_NEED_EXPRESSION") \/ (Undefined /\ c = NULL)
    BY <1>2, <1>3, TurnDown DEF CompilerInv
  <1>4. CASE /\ m_state = "ST_NEED_EXPRESSION" /\ c # NULL
             /\ tree' = parse_check(w)
             /\ m_last_boolop' = IF w = "in" THEN BO_NONE ELSE m_last_boolop
             /\ m_state' = "ST_EXPRESSION_DONE"
             /\ UNCHANGED <<status, m_nest_level>>
    <2>1. Takes(tree, m_last_boolop) /\ TreeOK(tree) /\ m_nest_level \in Int /\ m_last_boolop \in 0 .. 5
      BY <1>2, <1>4 DEF Reading, CompilerInv
    <2>2. /\ TreeOK(tree') /\ tree'.cur = c /\ Grew(tree, tree') /\ ~Empty(tree', c)
          /\ Len(tree'.exprs) \in {Len(tree.exprs), Len(tree.exprs) + 1}
      BY <1>4, <2>1, ParseCheck
    <2>3. c \in 1 .. Len(tree.exprs)
      BY <1>4, <2>1 DEF TreeOK, Tree, NULL
    <2>4. PICK lev \in Levels(tree) : m_nest_level = lev[c]
      BY <1>4 DEF CompilerInv, Nested
    <2>5. PICK new \in Levels(tree') : \A x \in 1 .. Len(tree.exprs) : new[x] = lev[x]
      BY <2>1, <2>2, LevelsGrow
    <2>6. Nested(tree', m_nest_level')
      BY <1>4, <2>2, <2>3, <2>4, <2>5 DEF Nested
    <2>7. m_last_boolop' \in 0 .. 5
      BY <1>4, <2>1 DEF BO_NONE
    <2>8. Ends(words')
      BY <1>1, <1>2 DEF Ends
    <2>9. Reading'
      BY <1>2, <1>4, <2>1, <2>2, <2>7, <2>8 DEF Reading, Takes
    <2>10. QED
      BY <1>2, <1>4, <2>1, <2>2, <2>6, <2>7, <2>9, ReadOn
  <1>5. QED
    BY <1>3, <1>4 DEF Check

\* The step at what is not a word of a filter, and at the end.
LEMMA LastStep ==
    ASSUME CompilerInv, Bad \/ End
    PROVE  CompilerInv'
  <1>1. CASE Bad
    <2>1. Reads("bad") /\ Throw /\ "bad" \in Words
      BY <1>1 DEF Bad, Words
    <2>2. words' \in Seq(Words) /\ ~Viable(words')
      BY <2>1, NextWord
    <2>3. QED
      BY <2>1, <2>2, TurnDown
  <1>2. CASE End
    <2>1. Reading /\ UNCHANGED <<words, m_state, m_last_boolop, m_nest_level, tree>>
      BY <1>2 DEF End, CompilerInv
    <2>2. status' \in {"accepted", "incomplete"}
      BY <1>2 DEF End
    <2>3. IsFilter(words) => Good
      BY <2>1 DEF IsFilter, Good, Reading, Ends, Final, Last
    <2>4. AcceptsFilters'
      BY <1>2, <2>1, <2>2, <2>3 DEF AcceptsFilters, End
    <2>5. QED
      BY <2>1, <2>2, <2>4 DEF CompilerInv
  <1>3. QED
    BY <1>1, <1>2

\* The compiler's steps keep its invariant.
LEMMA CompileStep ==
    ASSUME CompilerInv, Compile
    PROVE  CompilerInv'
  BY OpenStep, CloseStep, NotStep, LastStep, ConnectiveStep, CheckStep DEF Compile

\* A compiler that has read nothing.
LEMMA CompilerStart == CompilerInit => CompilerInv
  <1> SUFFICES ASSUME CompilerInit
               PROVE  CompilerInv
    OBVIOUS
  <1>1. TreeOK(tree) /\ tree.cur = 1 /\ Len(tree.exprs) = 1
    BY NewTree DEF CompilerInit
  <1> DEFINE lev == [x \in {1} |-> 0]
  <1>2. lev \in Levels(tree) /\ lev[1] = 0
    BY <1>1 DEF Levels
  <1> HIDE DEF lev
  <1>3. Nested(tree, m_nest_level)
    BY <1>1, <1>2 DEF Nested, CompilerInit, NULL
  <1>4. words = << >> /\ words \in Seq(Words) /\ Len(words) = 0 /\ 1 .. 0 = {}
    BY DEF CompilerInit
  <1>5. Depth(words, 1, Len(words)) = 0
    <2>1. \A v : Places(words, 1, Len(words), v) = {}
      BY <1>4 DEF Places
    <2>2. Cardinality({}) = 0
      BY FS_EmptySet
    <2>3. Depth(words, 1, Len(words)) = 0 - 0
      BY <2>1, <2>2 DEF Depth
    <2>4. QED
      BY <2>3
  <1>6. ~Ends(words)
    BY <1>4 DEF Ends, Final, Leaves
  <1>7. Reading
    BY <1>5, <1>6 DEF Reading, Takes, CompilerInit, BO_NONE, Connects
  <1>8. QED
    BY <1>1, <1>3, <1>4, <1>7 DEF CompilerInv, CompilerInit, AcceptsFilters, BO_NONE

---------------------------------------------------------------------------
\* The rules

Rule == [name : Names, tags : SUBSET Tags, asked : SUBSET Kinds, kinds : SUBSET Kinds, filter : Tree]

\* The rules of E that are for events of a kind; and a rule set that has the lists of
\* the kinds that a rule of E is for, with these rules in them.
For(E, k) == {w \in E : k \in rules[w].kinds}
Fits(R, E) ==
    /\ DOMAIN R = {k \in Kinds : For(E, k) # {}}
    /\ \A k \in DOMAIN R : BagToSet(R[k]) = For(E, k)

\* A rule has one name and is found by it and by its tags.
Indexed ==
    /\ rules \in Seq(Rule)
    /\ \A w \in DOMAIN rules : /\ rules[w].kinds = AppliesTo(rules[w].asked)
                               /\ rules[w].name \in DOMAIN m_filters
                               /\ m_filters[rules[w].name] = w
    /\ \A n \in DOMAIN m_filters : m_filters[n] \in DOMAIN rules /\ rules[m_filters[n]].name = n
    /\ \A g \in Tags : Tagged(g) = {w \in DOMAIN rules : g \in rules[w].tags}

\* The lists of a rule set have the rules that are on.
Lists ==
    /\ enabled \in [Rulesets -> SUBSET DOMAIN rules]
    /\ Len(m_rulesets) \in Nat /\ DOMAIN m_rulesets = 1 .. Len(m_rulesets)
    /\ \A r \in Rulesets :
          IF r < Len(m_rulesets) THEN Fits(m_rulesets[r + 1], enabled[r]) ELSE enabled[r] = {}

RulesInv == Indexed /\ Lists

\* The length of a function whose domain is the first n numbers.
LEMMA LenOf ==
    ASSUME NEW n \in Nat, NEW S, NEW f \in [1 .. n -> S]
    PROVE  Len(f) = n
  <1>1. f \in Seq(S)
    OBVIOUS
  <1>2. QED
    BY <1>1

\* No rules.
LEMMA RulesStart == Init => RulesInv
  <1> SUFFICES ASSUME Init
               PROVE  RulesInv
    OBVIOUS
  <1>1. rules = << >> /\ m_filters = << >> /\ m_filter_by_tag = << >> /\ m_rulesets = << >>
        /\ enabled = [r \in Rulesets |-> {}]
    BY DEF Init
  <1>2. DOMAIN << >> = {} /\ Len(<< >>) = 0 /\ 1 .. 0 = {}
    OBVIOUS
  <1>3. Indexed
    BY <1>1, <1>2 DEF Indexed, Tagged
  <1>4. \A r \in Rulesets : r \in Nat /\ ~(r < 0)
    BY RulesAssumption
  <1>5. Lists
    BY <1>1, <1>2, <1>4 DEF Lists
  <1>6. QED
    BY <1>3, <1>5 DEF RulesInv

\* add: the new rule is on in no rule set.
LEMMA AddStep ==
    ASSUME RulesInv, CompilerInv, NEW name \in Names, NEW kinds \in SUBSET Kinds, NEW tags \in SUBSET Tags,
           add(name, kinds, tags)
    PROVE  RulesInv'
  <1> DEFINE w == Len(rules) + 1
             rule == [name |-> name, tags |-> tags, asked |-> kinds, kinds |-> AppliesTo(kinds), filter |-> tree]
  <1>1. /\ rules \in Seq(Rule) /\ rules' = Append(rules, rule) /\ name \notin DOMAIN m_filters
        /\ m_filters' = [n \in DOMAIN m_filters \cup {name} |-> IF n = name THEN w ELSE m_filters[n]]
        /\ m_filter_by_tag' = [g \in DOMAIN m_filter_by_tag \cup tags |->
                                 IF g \in tags THEN Tagged(g) \cup {w} ELSE m_filter_by_tag[g]]
        /\ UNCHANGED <<m_rulesets, enabled>>
    BY DEF add, RulesInv, Indexed
  <1>2. /\ rule \in Rule /\ rule.name = name /\ rule.tags = tags /\ rule.asked = kinds
        /\ rule.kinds = AppliesTo(kinds)
    BY DEF Rule, AppliesTo, CompilerInv, TreeOK
  <1> HIDE DEF rule
  <1>3. /\ rules' \in Seq(Rule) /\ DOMAIN rules' = DOMAIN rules \cup {w} /\ rules'[w] = rule
        /\ \A i \in DOMAIN rules : rules'[i] = rules[i]
    BY <1>1, <1>2, Appended
  <1>4. w \notin DOMAIN rules
    BY <1>1
  <1> HIDE DEF w
  <1>5. \A i \in DOMAIN rules' : /\ rules'[i].kinds = AppliesTo(rules'[i].asked)
                                 /\ rules'[i].name \in DOMAIN m_filters'
                                 /\ m_filters'[rules'[i].name] = i
    BY <1>1, <1>2, <1>3 DEF RulesInv, Indexed
  <1>6. \A n \in DOMAIN m_filters' : m_filters'[n] \in DOMAIN rules' /\ rules'[m_filters'[n]].name = n
    BY <1>1, <1>2, <1>3 DEF RulesInv, Indexed
  <1>7. ASSUME NEW g \in Tags
        PROVE  Tagged(g)' = {i \in DOMAIN rules' : g \in rules'[i].tags}
    <2>1. Tagged(g) = {i \in DOMAIN rules : g \in rules[i].tags}
      BY DEF RulesInv, Indexed
    <2>2. Tagged(g)' = IF g \in tags THEN Tagged(g) \cup {w} ELSE Tagged(g)
      BY <1>1 DEF Tagged
    <2>3. QED
      BY <1>2, <1>3, <1>4, <2>1, <2>2
  <1>8. Indexed'
    BY <1>3, <1>5, <1>6, <1>7 DEF Indexed, AppliesTo
  <1>9. enabled \in [Rulesets -> SUBSET DOMAIN rules]
    BY DEF RulesInv, Lists
  <1>10. ASSUME NEW r \in Rulesets, r < Len(m_rulesets)
         PROVE  Fits(m_rulesets[r + 1], enabled[r])'
    <2>1. Fits(m_rulesets[r + 1], enabled[r])
      BY <1>10 DEF RulesInv, Lists
    <2>2. \A k : For(enabled[r], k)' = For(enabled[r], k)
      BY <1>1, <1>3, <1>9 DEF For
    <2>3. QED
      BY <1>1, <2>1, <2>2 DEF Fits
  <1>11. Lists'
    BY <1>1, <1>3, <1>9, <1>10 DEF RulesInv, Lists
  <1>12. QED
    BY <1>8, <1>11 DEF RulesInv

\* Adding to the lists of a rule set the rules that the loop meets.
LEMMA AddFilter ==
    ASSUME NEW R, NEW E, NEW met, Fits(R, E), \A w \in BagToSet(met) : rules[w].kinds \subseteq Kinds
    PROVE  Fits(add_filter(R, met), E \cup BagToSet(met))
  <1> DEFINE F == E \cup BagToSet(met)
             A == add_filter(R, met)
  <1>1. DOMAIN A = DOMAIN R \cup UNION {rules[w].kinds : w \in BagToSet(met)}
    BY DEF add_filter
  <1>2. DOMAIN A = {k \in Kinds : For(F, k) # {}}
    <2> HIDE DEF A
    <2>1. QED
      BY <1>1 DEF Fits, For
  <1>3. ASSUME NEW k \in DOMAIN A
        PROVE  BagToSet(A[k]) = For(F, k)
    <2>1. A[k] = Listed(R, k) (+) [w \in Applying(met, k) |-> met[w]]
      BY <1>1, <1>3 DEF add_filter
    <2>2. BagToSet(A[k]) = BagToSet(Listed(R, k)) \cup Applying(met, k)
      BY <2>1 DEF (+), BagToSet
    <2>3. BagToSet(Listed(R, k)) = For(E, k)
      <3>1. CASE k \in DOMAIN R
        BY <3>1 DEF Listed, Fits
      <3>2. CASE k \notin DOMAIN R
        <4>1. BagToSet(EmptyBag) = {}
          BY DEF EmptyBag, BagToSet, SetToBag
        <4>2. For(E, k) = {}
          BY <1>2, <1>3, <3>2 DEF Fits
        <4>3. QED
          BY <3>2, <4>1, <4>2 DEF Listed
      <3>3. QED
        BY <3>1, <3>2
    <2>4. QED
      BY <2>2, <2>3 DEF Applying, For
  <1>4. QED
    BY <1>2, <1>3 DEF Fits

\* Removing them.
LEMMA RemoveFilter ==
    ASSUME NEW R, NEW E, NEW met, Fits(R, E)
    PROVE  Fits(remove_filter(R, met), E \ BagToSet(met))
  <1> DEFINE F == E \ BagToSet(met)
             A == remove_filter(R, met)
             left == [k \in DOMAIN R |-> Without(R[k], Applying(met, k))]
             some == {x \in DOMAIN R : left[x] # EmptyBag}
  <1>1. A = [k \in some |-> left[k]]
    BY DEF remove_filter
  <1>2. ASSUME NEW k \in DOMAIN R
        PROVE  BagToSet(left[k]) = For(F, k)
    <2>1. BagToSet(left[k]) = BagToSet(R[k]) \ Applying(met, k)
      BY DEF Without, BagToSet
    <2>2. QED
      BY <2>1 DEF Applying, For, Fits
  <1>3. ASSUME NEW k \in DOMAIN R
        PROVE  left[k] = EmptyBag <=> BagToSet(left[k]) = {}
    <2>1. left[k] = [w \in BagToSet(R[k]) \ Applying(met, k) |-> R[k][w]]
      BY DEF Without
    <2>2. EmptyBag = [w \in {} |-> 1]
      BY DEF EmptyBag, SetToBag
    <2>3. QED
      BY <2>1, <2>2 DEF BagToSet
  <1> HIDE DEF left
  <1>4. DOMAIN A = some
    BY <1>1
  <1>5. some = {k \in Kinds : For(F, k) # {}}
    BY <1>2, <1>3 DEF Fits, For
  <1>6. \A k \in DOMAIN A : BagToSet(A[k]) = For(F, k)
    BY <1>1, <1>2, <1>4
  <1>7. QED
    BY <1>4, <1>5, <1>6 DEF Fits

\* A call whose loop meets the rules that the caller means, each once or more often.
LEMMA SwitchStep ==
    ASSUME RulesInv, NEW met, NEW ws \in SUBSET DOMAIN rules, NEW on \in BOOLEAN, NEW r \in Rulesets,
           BagToSet(met) = ws, Switch(met, ws, on, r)
    PROVE  RulesInv'
  <1> DEFINE n == Len(m_rulesets)
             m == IF n > r THEN n ELSE r + 1
             G == Grown(r)
             R == IF on THEN add_filter(G[r + 1], met) ELSE remove_filter(G[r + 1], met)
             E == IF on THEN enabled[r] \cup ws ELSE enabled[r] \ ws
  <1>1. /\ m_rulesets' = [G EXCEPT ![r + 1] = R] /\ enabled' = [enabled EXCEPT ![r] = E]
        /\ UNCHANGED <<rules, m_filters, m_filter_by_tag>>
    BY DEF Switch
  <1>2. /\ Indexed /\ rules \in Seq(Rule) /\ enabled \in [Rulesets -> SUBSET DOMAIN rules]
        /\ n \in Nat /\ DOMAIN m_rulesets = 1 .. n
        /\ r \in Nat /\ \A q \in Rulesets : q \in Nat
    BY RulesAssumption DEF RulesInv, Indexed, Lists
  <1>3. \A q \in Rulesets : IF q < n THEN Fits(m_rulesets[q + 1], enabled[q]) ELSE enabled[q] = {}
    BY DEF RulesInv, Lists
  <1>4. Indexed'
    BY <1>1, <1>2 DEF Indexed, Tagged
  <1>5. enabled' \in [Rulesets -> SUBSET DOMAIN rules]
    BY <1>1, <1>2
  <1>6. G = [i \in 1 .. m |-> IF i <= n THEN m_rulesets[i] ELSE Nowhere]
    BY DEF Grown
  <1> HIDE DEF n, G
  <1>7. m \in Nat /\ n <= m /\ r < m
    BY <1>2
  <1> HIDE DEF m
  <1>8. ASSUME NEW q \in Rulesets, q < m
        PROVE  q + 1 \in 1 .. m /\ Fits(G[q + 1], enabled[q])
    <2>1. q + 1 \in 1 .. m
      BY <1>2, <1>7, <1>8
    <2>2. CASE q < n
      <3>1. G[q + 1] = m_rulesets[q + 1]
        BY <1>2, <1>6, <2>1, <2>2
      <3>2. QED
        BY <1>3, <2>1, <2>2, <3>1
    <2>3. CASE ~(q < n)
      <3>1. G[q + 1] = Nowhere
        BY <1>2, <1>6, <2>1, <2>3
      <3>2. DOMAIN Nowhere = {}
        BY DEF Nowhere
      <3>3. \A k : For(enabled[q], k) = {}
        BY <1>3, <2>3 DEF For
      <3>4. QED
        BY <2>1, <3>1, <3>2, <3>3 DEF Fits
    <2>4. QED
      BY <2>2, <2>3
  <1>9. Fits(R, E)
    <2>1. Fits(G[r + 1], enabled[r])
      BY <1>7, <1>8
    <2>2. \A w \in BagToSet(met) : rules[w].kinds \subseteq Kinds
      <3>1. \A w \in DOMAIN rules : rules[w] \in Rule
        BY <1>2
      <3>2. \A w \in DOMAIN rules : rules[w].kinds \in SUBSET Kinds
        BY ONLY <3>1, SMTT(60) DEF Rule
      <3>3. QED
        BY <3>2
    <2>3. CASE on
      BY <2>1, <2>2, <2>3, AddFilter
    <2>4. CASE ~on
      BY <2>1, <2>4, RemoveFilter
    <2>5. QED
      BY <2>3, <2>4
  <1> HIDE DEF R, E
  <1>10. DOMAIN m_rulesets' = 1 .. m /\ Len(m_rulesets') = m
    <2>1. m_rulesets' \in [1 .. m -> {m_rulesets'[i] : i \in 1 .. m}]
      BY <1>1, <1>6
    <2>2. QED
      BY <1>7, <2>1, LenOf
  <1>11. ASSUME NEW q \in Rulesets
         PROVE  IF q < m THEN Fits(m_rulesets'[q + 1], enabled'[q]) ELSE enabled'[q] = {}
    <2>1. CASE q = r
      <3>1. r + 1 \in DOMAIN G
        BY <1>6, <1>7, <1>8
      <3>2. m_rulesets'[q + 1] = R /\ enabled'[q] = E
        BY <1>1, <1>2, <2>1, <3>1
      <3>3. QED
        BY <1>7, <1>9, <2>1, <3>2
    <2>2. CASE q # r
      <3>1. enabled'[q] = enabled[q]
        BY <1>1, <1>2, <2>2
      <3>2. CASE q < m
        <4>1. q + 1 # r + 1
          BY <1>2, <2>2
        <4>2. m_rulesets'[q + 1] = G[q + 1]
          BY <1>1, <1>6, <1>8, <3>2, <4>1
        <4>3. QED
          BY <1>8, <3>1, <3>2, <4>2
      <3>3. CASE ~(q < m)
        <4>1. ~(q < n)
          BY <1>2, <1>7, <3>3
        <4>2. QED
          BY <1>3, <3>1, <3>3, <4>1
      <3>4. QED
        BY <3>2, <3>3
    <2>3. QED
      BY <2>1, <2>2
  <1>12. Lists'
    BY <1>1, <1>5, <1>7, <1>10, <1>11 DEF Lists, Fits, For
  <1>13. QED
    BY <1>4, <1>12 DEF RulesInv

\* enable, by name.
LEMMA EnableStep ==
    ASSUME RulesInv, NEW names \in SUBSET Names, NEW on \in BOOLEAN, NEW r \in Rulesets, enable(names, on, r)
    PROVE  RulesInv'
  <1> DEFINE S == {m_filters[n] : n \in names \cap DOMAIN m_filters}
             ws == {w \in DOMAIN rules : rules[w].name \in names}
  <1>1. S = ws
    BY DEF RulesInv, Indexed
  <1>2. BagToSet(SetToBag(S)) = S
    BY DEF BagToSet, SetToBag
  <1>3. Switch(SetToBag(S), ws, on, r)
    BY DEF enable
  <1>4. ws \in SUBSET DOMAIN rules
    OBVIOUS
  <1> HIDE DEF S, ws
  <1>5. QED
    BY <1>1, <1>2, <1>3, <1>4, SwitchStep

\* enable_tags.
LEMMA EnableTagsStep ==
    ASSUME RulesInv, NEW tags \in SUBSET Tags, NEW on \in BOOLEAN, NEW r \in Rulesets, enable_tags(tags, on, r)
    PROVE  RulesInv'
  <1> DEFINE met == [w \in UNION {Tagged(g) : g \in tags} |-> Cardinality({g \in tags : w \in Tagged(g)})]
             ws == {w \in DOMAIN rules : rules[w].tags \cap tags # {}}
  <1>1. BagToSet(met) = UNION {Tagged(g) : g \in tags}
    BY DEF BagToSet
  <1>2. \A g \in tags : Tagged(g) = {w \in DOMAIN rules : g \in rules[w].tags}
    BY DEF RulesInv, Indexed
  <1>3. UNION {Tagged(g) : g \in tags} = ws
    BY <1>2
  <1>4. Switch(met, ws, on, r)
    BY DEF enable_tags
  <1>5. ws \in SUBSET DOMAIN rules
    OBVIOUS
  <1> HIDE DEF met, ws
  <1>6. QED
    BY <1>1, <1>3, <1>4, <1>5, SwitchStep

---------------------------------------------------------------------------
Inv == CompilerInv /\ RulesInv

\* The invariant of the compiler and of the rules is inductive.
THEOREM Invariance == Spec => []Inv
  <1>1. Init => Inv
    BY CompilerStart, RulesStart DEF Init, Inv
  <1>2. Inv /\ [Next]_vars => Inv'
    <2> SUFFICES ASSUME Inv, [Next]_vars
                 PROVE  Inv'
      OBVIOUS
    <2>1. CompilerInv /\ RulesInv
      BY DEF Inv
    <2>2. ASSUME NewCompiler
          PROVE  CompilerInv'
      <3>1. CompilerInit'
        BY <2>2 DEF NewCompiler, CompilerInit
      <3>2. QED
        BY <3>1, CompilerStart, PTL
    <2>3. ASSUME UNCHANGED compilerVars
          PROVE  CompilerInv'
      BY <2>1, <2>3 DEF compilerVars, CompilerInv, Reading, AcceptsFilters
    <2>4. ASSUME UNCHANGED <<rules, m_filters, m_filter_by_tag, m_rulesets, enabled>>
          PROVE  RulesInv'
      BY <2>1, <2>4 DEF RulesInv, Indexed, Lists, Tagged, Fits, For
    <2>5. CASE Compile /\ UNCHANGED rulesVars
      BY <2>1, <2>4, <2>5, CompileStep DEF rulesVars, Inv
    <2>6. CASE set_filter
      BY <2>2, <2>4, <2>6 DEF set_filter, Inv
    <2>7. CASE \E n \in Names, kinds \in SUBSET Kinds, tags \in SUBSET Tags : add(n, kinds, tags)
      BY <2>1, <2>2, <2>7, AddStep DEF add, Inv
    <2>8. ASSUME NEW on \in BOOLEAN, NEW r \in Rulesets, NEW names \in SUBSET Names, enable(names, on, r)
          PROVE  Inv'
      BY <2>1, <2>3, <2>8, EnableStep DEF enable, Switch, Inv
    <2>9. ASSUME NEW on \in BOOLEAN, NEW r \in Rulesets, NEW tags \in SUBSET Tags, enable_tags(tags, on, r)
          PROVE  Inv'
      BY <2>1, <2>3, <2>9, EnableTagsStep DEF enable_tags, Switch, Inv
    <2>10. CASE UNCHANGED vars
      BY <2>3, <2>4, <2>10 DEF vars, rulesVars, Inv
    <2>11. QED
      BY <2>5, <2>6, <2>7, <2>8, <2>9, <2>10 DEF Next
  <1>3. QED
    BY <1>1, <1>2, PTL DEF Spec

\* compile_ turns no filter down that is in order, and in its tree, whatever the words
\* are, every expression has one owner and its first check no connective.
THEOREM CompilerIsSound == Spec => []CompilerSound
  <1>1. Inv => CompilerSound
    BY DEF Inv, CompilerInv, CompilerSound, CompilerTypeOK, TreeOK
  <1>2. QED
    BY <1>1, Invariance, PTL

\* run and run_filters_on_evt let an event through exactly if a rule that is on, or the
\* filter of the capture, is for it and matches it, after any calls of enable and
\* enable_tags.
THEOREM RulesAreDecided == Spec => []RulesDecide
  <1>1. ASSUME RulesInv, NEW e \in Events, NEW r \in Rulesets
        PROVE  run_ruleset(e, r) <=> \E w \in enabled[r] : Means(w, e)
    <2>1. e.kind \in Kinds
      BY <1>1 DEF Events
    <2>2. enabled[r] \subseteq DOMAIN rules
      BY <1>1 DEF RulesInv, Lists
    <2>3. \A w \in enabled[r] : Means(w, e) <=> e.kind \in rules[w].kinds /\ Passes(rules[w].filter, w, e)
      BY <1>1, <2>1, <2>2 DEF RulesInv, Indexed, AppliesTo, Means
    <2>4. CASE r < Len(m_rulesets)
      <3> DEFINE R == m_rulesets[r + 1]
      <3>1. BagToSet(Listed(R, e.kind)) = For(enabled[r], e.kind)
        <4> Fits(R, enabled[r])
          BY <1>1, <2>4 DEF RulesInv, Lists
        <4> HIDE DEF R
        <4>1. CASE e.kind \in DOMAIN R
          BY <4>1 DEF Fits, Listed
        <4>2. CASE e.kind \notin DOMAIN R
          <5>1. For(enabled[r], e.kind) = {}
            BY <2>1, <4>2 DEF Fits
          <5>2. BagToSet(EmptyBag) = {}
            BY DEF EmptyBag, BagToSet, SetToBag
          <5>3. QED
            BY <4>2, <5>1, <5>2 DEF Listed
        <4>3. QED
          BY <4>1, <4>2
      <3>2. Len(m_rulesets) > r
        BY <1>1, <2>4, RulesAssumption DEF RulesInv, Lists
      <3>3. QED
        BY <2>3, <3>1, <3>2 DEF run_ruleset, For
    <2>5. CASE ~(r < Len(m_rulesets))
      <3>1. enabled[r] = {}
        BY <1>1, <2>5 DEF RulesInv, Lists
      <3>2. ~(Len(m_rulesets) > r)
        BY <1>1, <2>5, RulesAssumption DEF RulesInv, Lists
      <3>3. QED
        BY <3>1, <3>2 DEF run_ruleset
    <2>6. QED
      BY <2>4, <2>5
  <1>2. Inv => RulesDecide
    BY <1>1, RulesAssumption DEF Inv, RulesDecide, run_filters_on_evt
  <1>3. QED
    BY <1>2, Invariance, PTL

\* evttypes_for_ruleset and syscalls_for_ruleset report the kinds of the rules that are
\* on.
THEOREM KindsAreKnown == Spec => []KindsKnown
  <1>1. ASSUME RulesInv, NEW r \in Rulesets, Len(m_rulesets) > r
        PROVE  kinds_for_ruleset(r) =
                 {k \in Kinds : \E w \in enabled[r] : rules[w].asked \in {{}} \cup {K \in SUBSET Kinds : k \in K}}
    <2>1. r < Len(m_rulesets)
      BY <1>1, RulesAssumption DEF RulesInv, Lists
    <2>2. DOMAIN m_rulesets[r + 1] = {k \in Kinds : For(enabled[r], k) # {}}
      BY <1>1, <2>1 DEF RulesInv, Lists, Fits
    <2>3. enabled[r] \subseteq DOMAIN rules
      BY <1>1 DEF RulesInv, Lists
    <2>4. \A w \in enabled[r] : rules[w].asked \in SUBSET Kinds /\ rules[w].kinds = AppliesTo(rules[w].asked)
      <3>1. \A w \in DOMAIN rules : rules[w] \in Rule /\ rules[w].kinds = AppliesTo(rules[w].asked)
        BY <1>1 DEF RulesInv, Indexed
      <3>2. \A w \in DOMAIN rules : rules[w].asked \in SUBSET Kinds
        BY ONLY <3>1, SMTT(60) DEF Rule
      <3>3. QED
        BY <2>3, <3>1, <3>2
    <2>5. ASSUME NEW k \in Kinds, NEW w \in enabled[r]
          PROVE  k \in rules[w].kinds <=> rules[w].asked \in {{}} \cup {K \in SUBSET Kinds : k \in K}
      BY <2>4 DEF AppliesTo
    <2>6. QED
      BY <2>2, <2>5 DEF kinds_for_ruleset, For
  <1>2. Inv => KindsKnown
    BY <1>1 DEF Inv, KindsKnown
  <1>3. QED
    BY <1>2, Invariance, PTL
=============================================================================
