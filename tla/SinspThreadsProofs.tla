------------------------- MODULE SinspThreadsProofs -------------------------
(***************************************************************************)
(* The thread table for any threads, processes, limits, losses and orders  *)
(* of the hash table: its entries are well-formed, no count of threads     *)
(* goes below zero, and its size is kept.                                  *)
(***************************************************************************)
EXTENDS SinspThreads, FiniteSetTheorems, NaturalsInduction, WellFoundedInduction, TLAPS

\* Each leaf is tried with Zenon, then with SMT, and then with both for longer.
USE ZenonT(2), SMTT(30), ZenonT(20), SMTT(60)

\* Induction over the numbers, for a set of them.
LEMMA AllNumbers ==
    ASSUME NEW N, 0 \in N, \A n \in N \cap Nat : n + 1 \in N
    PROVE  Nat \subseteq N
  <1> SUFFICES ASSUME NEW k \in Nat, k \notin N
               PROVE  FALSE
    OBVIOUS
  <1> DEFINE S == Nat \ N
  <1>1. S \subseteq Nat /\ S # {}
    OBVIOUS
  <1>2. IsWellFoundedOn(OpToRel(<, Nat), Nat)
    BY NatLessThanWellFounded
  <1> HIDE DEF S
  <1>3. PICK n \in S : \A m \in S : <<m, n>> \notin OpToRel(<, Nat)
    BY <1>1, <1>2, WFMin
  <1>4. n \in Nat /\ \A m \in S : ~(m < n)
    BY <1>1, <1>3 DEF OpToRel
  <1>5. n # 0
    BY <1>4 DEF S
  <1>6. n - 1 \in Nat /\ n - 1 < n /\ n - 1 + 1 = n
    BY <1>4, <1>5
  <1>7. n - 1 \in N
    BY <1>4, <1>6 DEF S
  <1>8. n \in N
    BY <1>6, <1>7
  <1>9. QED
    BY <1>3, <1>4, <1>8 DEF S

---------------------------------------------------------------------------
\* The loop of the scan: G[s] has the tables that it may have come to with the
\* threads of s removed.
LEMMA LoopLeads ==
    ASSUME NEW T, NEW o, NEW S, IsFiniteSet(S), NEW G, NEW base \in G[{}],
           \A s \in SUBSET S : \A t \in s : \A U \in G[s \ {t}] :
               remove_thread(U, t, T[t].closed, o) \in G[s]
    PROVE  RemoveAll(T, base, S, o) \in G[S]
  <1> DEFINE Pick(s) == CHOOSE x \in s : TRUE
             Value(f, s) == IF s = {} THEN base
                            ELSE remove_thread(f[s \ {Pick(s)}], Pick(s), T[Pick(s)].closed, o)
             Solves(f) == f = [s \in SUBSET S |-> Value(f, s)]
             iter == CHOOSE f : Solves(f)
  <1>1. RemoveAll(T, base, S, o) = iter[S]
    BY DEF RemoveAll, FoldSet, MapThenFoldSet
  <1>2. \A s \in SUBSET S : /\ IsFiniteSet(s) /\ Cardinality(s) \in Nat
                            /\ s = {} <=> Cardinality(s) = 0
                            /\ s # {} => /\ Pick(s) \in s /\ s \ {Pick(s)} \in SUBSET S
                                         /\ Cardinality(s \ {Pick(s)}) = Cardinality(s) - 1
    <2> SUFFICES ASSUME NEW s \in SUBSET S
                 PROVE  /\ IsFiniteSet(s) /\ Cardinality(s) \in Nat
                        /\ s = {} <=> Cardinality(s) = 0
                        /\ s # {} => /\ Pick(s) \in s /\ s \ {Pick(s)} \in SUBSET S
                                     /\ Cardinality(s \ {Pick(s)}) = Cardinality(s) - 1
      OBVIOUS
    <2>1. IsFiniteSet(s)
      BY FS_Subset
    <2>2. Cardinality(s) \in Nat
      BY <2>1, FS_CardinalityType
    <2>3. s = {} <=> Cardinality(s) = 0
      BY <2>1, FS_EmptySet
    <2>4. s # {} => Pick(s) \in s
      OBVIOUS
    <2> HIDE DEF Pick
    <2>5. s # {} => Cardinality(s \ {Pick(s)}) = Cardinality(s) - 1
      BY <2>1, <2>4, FS_RemoveElement
    <2>6. QED
      BY <2>1, <2>2, <2>3, <2>4, <2>5
  <1> DEFINE Upto(f, n) == /\ f = [s \in SUBSET S |-> f[s]]
                           /\ \A s \in SUBSET S : Cardinality(s) <= n => f[s] = Value(f, s)
  <1> HIDE DEF Pick
  <1>3. \A n \in Nat : \E f : Upto(f, n)
    <2> DEFINE N == {n \in Nat : \E f : Upto(f, n)}
    <2>1. 0 \in N
      <3> DEFINE f == [s \in SUBSET S |-> base]
      <3>1. \A s \in SUBSET S : Cardinality(s) <= 0 => s = {}
        <4>1. \A s \in SUBSET S : Cardinality(s) \in Nat /\ (Cardinality(s) = 0 => s = {})
          BY <1>2
        <4>2. \A c \in Nat : c <= 0 => c = 0
          OBVIOUS
        <4>3. QED
          BY <4>1, <4>2
      <3>2. f = [s \in SUBSET S |-> f[s]]
        OBVIOUS
      <3>3. \A s \in SUBSET S : f[s] = base
        OBVIOUS
      <3> HIDE DEF f
      <3>4. Upto(f, 0)
        BY <3>1, <3>2, <3>3
      <3> HIDE DEF Upto
      <3>5. QED
        BY <3>4
    <2>2. ASSUME NEW n \in N
          PROVE  n + 1 \in N
      <3>1. n \in Nat /\ \E f : Upto(f, n)
        BY <2>2
      <3>2. PICK f : Upto(f, n)
        BY <3>1
      <3> DEFINE g == [s \in SUBSET S |-> IF Cardinality(s) = n + 1 THEN Value(f, s) ELSE f[s]]
      <3>3. \A s \in SUBSET S : Cardinality(s) <= n => g[s] = f[s]
        BY <1>2, <3>1
      <3>4. ASSUME NEW s \in SUBSET S, Cardinality(s) <= n + 1
            PROVE  g[s] = Value(g, s)
        <4>1. g[s] = Value(f, s)
          <5>1. CASE Cardinality(s) = n + 1
            BY <5>1
          <5>2. CASE Cardinality(s) # n + 1
            <6>1. Cardinality(s) <= n
              <7>1. Cardinality(s) \in Nat
                BY <1>2
              <7>2. QED
                BY ONLY <3>1, <3>4, <5>2, <7>1, SMTT(60)
            <6>2. g[s] = f[s]
              BY <3>3, <6>1
            <6> HIDE DEF g
            <6>3. f[s] = Value(f, s)
              BY <3>2, <6>1
            <6>4. QED
              BY <6>2, <6>3
          <5>3. QED
            BY <5>1, <5>2
        <4>2. s # {} => /\ s \ {Pick(s)} \in SUBSET S
                        /\ Cardinality(s \ {Pick(s)}) <= n
          <5>1. /\ Cardinality(s) \in Nat
                /\ s # {} => /\ s \ {Pick(s)} \in SUBSET S
                             /\ Cardinality(s \ {Pick(s)}) = Cardinality(s) - 1
            BY <1>2
          <5>2. Cardinality(s) - 1 <= n
            BY ONLY <3>1, <3>4, <5>1, SMTT(60)
          <5>3. QED
            BY <5>1, <5>2
        <4>3. s # {} => g[s \ {Pick(s)}] = f[s \ {Pick(s)}]
          BY <3>3, <4>2
        <4> HIDE DEF g
        <4>4. QED
          BY <4>1, <4>3
      <3>5. g = [s \in SUBSET S |-> g[s]]
        OBVIOUS
      <3> HIDE DEF g
      <3>6. Upto(g, n + 1)
        BY <3>4, <3>5
      <3> HIDE DEF Upto
      <3>7. n + 1 \in Nat
        BY <3>1
      <3>8. QED
        BY <3>6, <3>7
    <2> HIDE DEF N
    <2>3. Nat \subseteq N
      BY <2>1, <2>2, AllNumbers
    <2>4. QED
      BY <2>3 DEF N
  <1>4. Solves(iter)
    <2>1. S \in SUBSET S /\ Cardinality(S) \in Nat
      BY <1>2
    <2>2. PICK f : Upto(f, Cardinality(S))
      BY <1>3, <2>1
    <2>3. \A s \in SUBSET S : Cardinality(s) <= Cardinality(S)
      BY FS_Subset
    <2>4. Solves(f)
      BY <2>2, <2>3
    <2>5. QED
      BY <2>4
  <1> HIDE DEF iter
  <1>5. \A s \in SUBSET S : iter[s] \in G[s]
    <2> DEFINE N == {n \in Nat : \A s \in SUBSET S : Cardinality(s) = n => iter[s] \in G[s]}
    <2>1. 0 \in N
      BY <1>2, <1>4
    <2>2. ASSUME NEW n \in N
          PROVE  n + 1 \in N
      <3>1. n \in Nat /\ \A s \in SUBSET S : Cardinality(s) = n => iter[s] \in G[s]
        BY <2>2
      <3>2. ASSUME NEW s \in SUBSET S, Cardinality(s) = n + 1
            PROVE  iter[s] \in G[s]
        <4>1. /\ s # {} /\ Pick(s) \in s /\ s \ {Pick(s)} \in SUBSET S
              /\ Cardinality(s \ {Pick(s)}) = n
          BY <1>2, <3>1, <3>2
        <4>2. iter[s] = remove_thread(iter[s \ {Pick(s)}], Pick(s), T[Pick(s)].closed, o)
          BY <1>4, <4>1
        <4>3. iter[s \ {Pick(s)}] \in G[s \ {Pick(s)}]
          BY <3>1, <4>1
        <4>4. QED
          BY <4>1, <4>2, <4>3
      <3>3. QED
        BY <3>1, <3>2
    <2> HIDE DEF N
    <2>3. Nat \subseteq N
      BY <2>1, <2>2, AllNumbers
    <2>4. QED
      BY <1>2, <2>3 DEF N
  <1>6. QED
    BY <1>1, <1>5

\* What each removal keeps, the loop keeps.
LEMMA LoopKeeps ==
    ASSUME NEW T, NEW o, NEW K, NEW base \in K, NEW S, IsFiniteSet(S),
           \A U \in K : \A t \in S : remove_thread(U, t, T[t].closed, o) \in K
    PROVE  RemoveAll(T, base, S, o) \in K
  <1> DEFINE G == [s \in SUBSET S |-> K]
  <1>1. \A s \in SUBSET S : G[s] = K
    OBVIOUS
  <1>2. \A s \in SUBSET S : \A t \in s : t \in S /\ s \ {t} \in SUBSET S
    OBVIOUS
  <1>3. {} \in SUBSET S /\ S \in SUBSET S
    OBVIOUS
  <1> HIDE DEF G
  <1>4. base \in G[{}]
    BY <1>1, <1>3
  <1>5. \A s \in SUBSET S : \A t \in s : \A U \in G[s \ {t}] :
            remove_thread(U, t, T[t].closed, o) \in G[s]
    BY <1>1, <1>2
  <1>6. RemoveAll(T, base, S, o) \in G[S]
    BY <1>4, <1>5, LoopLeads
  <1>7. QED
    BY <1>1, <1>3, <1>6

---------------------------------------------------------------------------
\* Types

Tables == UNION {[D -> EntryType] : D \in SUBSET Tids}
Sized(n) == {T \in Tables : Cardinality(DOMAIN T) <= n}

Slots == [state : {"free", "born", "run", "clone", "zombie", "gone"},
          pid : Tids \cup {NoTid}, child : Tids \cup {NoTid}, parent : Tids \cup {NoTid},
          comm : Nat, renamed : BOOLEAN]

\* The process of a thread exists as long as the thread: its main thread, which has
\* the number of the process, is reaped last.
KernelOK ==
    /\ kernel \in [Tids -> Slots]
    /\ \A t \in Tids : InProc(t) => /\ kernel[t].pid \in Procs /\ InProc(kernel[t].pid)
                                    /\ t \in Procs => kernel[t].pid = t
    /\ \A t \in Tids : /\ kernel[t].state = "clone" => kernel[t].child \in Tids
                       /\ kernel[t].state = "born" => kernel[t].parent \in Tids

EventType == [kind : {"clone", "execve", "exit", "syscall"}, tid : Tids,
              ret : Tids \cup {NoTid}, pid : Tids, ptid : Tids \cup {NoTid}, thread : BOOLEAN,
              comm : Nat]
Readable == {e \in EventType : e.kind = "clone" /\ e.ret = NoTid => e.ptid \in Tids}

\* The inductive form of TypeOK: what the kernel does and says is well-formed too.
TypesInv ==
    /\ use \in Use /\ KernelOK
    /\ events \in Seq(Readable) /\ Len(events) <= MaxQueue
    /\ lost \in 0 .. use.losses
    /\ table \in Sized(use.limit + 1)
    /\ tidToRemove \in Tids \cup {NoTid} /\ scanDue \in BOOLEAN

\* A table is a function on some of the numbers.
LEMMA TableIs ==
    ASSUME NEW T
    PROVE  T \in Tables <=> /\ T = [t \in DOMAIN T |-> T[t]]
                            /\ DOMAIN T \subseteq Tids
                            /\ \A t \in DOMAIN T : T[t] \in EntryType
  <1>1. ASSUME T \in Tables
        PROVE  /\ T = [t \in DOMAIN T |-> T[t]]
               /\ DOMAIN T \subseteq Tids
               /\ \A t \in DOMAIN T : T[t] \in EntryType
    <2>1. PICK D \in SUBSET Tids : T \in [D -> EntryType]
      BY <1>1 DEF Tables
    <2>2. QED
      BY <2>1
  <1>2. ASSUME T = [t \in DOMAIN T |-> T[t]], DOMAIN T \subseteq Tids,
               \A t \in DOMAIN T : T[t] \in EntryType
        PROVE  T \in Tables
    <2>1. T \in [DOMAIN T -> EntryType]
      BY <1>2
    <2>2. QED
      BY <1>2, <2>1 DEF Tables
  <1>3. QED
    BY <1>1, <1>2

\* Sets of numbers are finite.
LEMMA SomeTids ==
    ASSUME NEW S \in SUBSET Tids
    PROVE  IsFiniteSet(S) /\ Cardinality(S) \in Nat
  BY ThreadsAssumption, FS_Subset, FS_CardinalityType

\* What the size of a table is.
LEMMA SizeOf ==
    ASSUME NEW T \in Tables
    PROVE  /\ DOMAIN T \in SUBSET Tids
           /\ IsFiniteSet(DOMAIN T) /\ Cardinality(DOMAIN T) \in Nat
  BY TableIs, SomeTids

\* A new or another entry: the table grows by one at most.
LEMMA Put ==
    ASSUME NEW T \in Tables, NEW t \in Tids, NEW r \in EntryType
    PROVE  /\ With(T, t, r) \in Tables
           /\ DOMAIN With(T, t, r) = DOMAIN T \cup {t}
           /\ With(T, t, r)[t] = r
           /\ \A u \in DOMAIN T \ {t} : With(T, t, r)[u] = T[u]
           /\ \A n \in Nat : T \in Sized(n) => With(T, t, r) \in Sized(n + 1)
  <1> DEFINE P == With(T, t, r)
  <1>1. P = [x \in DOMAIN T \cup {t} |-> IF x = t THEN r ELSE T[x]]
    BY DEF With
  <1>2. DOMAIN P = DOMAIN T \cup {t} /\ P = [x \in DOMAIN P |-> P[x]] /\ P[t] = r
    BY <1>1
  <1>3. \A u \in DOMAIN T \ {t} : P[u] = T[u]
    BY <1>1
  <1> HIDE DEF P
  <1>4. P \in Tables
    BY <1>2, <1>3, TableIs
  <1>5. ASSUME NEW n \in Nat, T \in Sized(n)
        PROVE  P \in Sized(n + 1)
    <2>1. Cardinality(DOMAIN T \cup {t}) <= Cardinality(DOMAIN T) + 1
      <3>1. IsFiniteSet(DOMAIN T) /\ Cardinality(DOMAIN T) \in Nat
        BY SizeOf
      <3>2. Cardinality(DOMAIN T \cup {t}) = IF t \in DOMAIN T THEN Cardinality(DOMAIN T)
                                             ELSE Cardinality(DOMAIN T) + 1
        BY <3>1, FS_AddElement
      <3>3. QED
        BY ONLY <3>1, <3>2, SMTT(60)
    <2>2. Cardinality(DOMAIN T) <= n
      BY <1>5 DEF Sized
    <2>3. Cardinality(DOMAIN P) \in Nat /\ Cardinality(DOMAIN T) \in Nat
      BY <1>4, SizeOf
    <2>4. Cardinality(DOMAIN P) <= n + 1
      BY ONLY <1>2, <2>1, <2>2, <2>3, n \in Nat, SMTT(60)
    <2>5. QED
      BY <1>4, <2>4 DEF Sized
  <1>6. QED
    BY <1>2, <1>3, <1>4, <1>5 DEF P

\* Another value of an entry: the table keeps its size.
LEMMA Change ==
    ASSUME NEW T \in Tables, NEW t \in DOMAIN T, NEW r \in EntryType
    PROVE  /\ [T EXCEPT ![t] = r] \in Tables
           /\ DOMAIN [T EXCEPT ![t] = r] = DOMAIN T
           /\ \A n \in Nat : T \in Sized(n) => [T EXCEPT ![t] = r] \in Sized(n)
  <1> DEFINE P == [T EXCEPT ![t] = r]
  <1>1. T = [u \in DOMAIN T |-> T[u]]
    BY TableIs
  <1>2. DOMAIN P = DOMAIN T /\ P = [x \in DOMAIN P |-> P[x]]
    BY <1>1
  <1>3. \A u \in DOMAIN T : P[u] = IF u = t THEN r ELSE T[u]
    BY <1>1
  <1> HIDE DEF P
  <1>4. P \in Tables
    BY <1>2, <1>3, TableIs
  <1>5. QED
    BY <1>2, <1>4 DEF P, Sized

\* A set as large as asked for, among the subsets of a finite one.
LEMMA SubsetOfSize ==
    ASSUME NEW M, IsFiniteSet(M), NEW n \in Nat, n <= Cardinality(M)
    PROVE  \E S \in SUBSET M : Cardinality(S) = n
  <1> DEFINE N == {k \in Nat : k <= Cardinality(M) => \E S \in SUBSET M : Cardinality(S) = k}
  <1>0. Cardinality(M) \in Nat
    BY FS_CardinalityType
  <1>1. 0 \in N
    <2>1. {} \in SUBSET M /\ Cardinality({}) = 0
      BY FS_EmptySet
    <2>2. QED
      BY <2>1
  <1>2. ASSUME NEW k \in N, k \in Nat
        PROVE  k + 1 \in N
    <2> SUFFICES ASSUME k + 1 <= Cardinality(M)
                 PROVE  \E S \in SUBSET M : Cardinality(S) = k + 1
      BY <1>2
    <2>1. k <= Cardinality(M) /\ k # Cardinality(M)
      BY ONLY <1>0, <1>2, k + 1 <= Cardinality(M), SMTT(60)
    <2>2. PICK S \in SUBSET M : Cardinality(S) = k
      BY <2>1
    <2>3. S # M
      BY <2>1, <2>2
    <2>4. PICK x \in M : x \notin S
      BY <2>3
    <2>5. IsFiniteSet(S)
      BY FS_Subset
    <2>6. S \cup {x} \in SUBSET M /\ Cardinality(S \cup {x}) = k + 1
      BY <2>2, <2>4, <2>5, FS_AddElement
    <2>7. QED
      BY <2>6
  <1>3. Nat \subseteq N
    <2> HIDE DEF N
    <2>1. QED
      BY <1>1, <1>2, AllNumbers
  <1>4. QED
    BY <1>3

---------------------------------------------------------------------------
\* What the manager makes of a table is a table, of the size it should have.

\* Of and Counted are sets of numbers.
LEMMA OfTids ==
    ASSUME NEW T \in Tables, NEW p
    PROVE  /\ Of(T, p) \in SUBSET Tids /\ Counted(T, p) \subseteq Of(T, p)
           /\ Cardinality(Of(T, p)) \in Nat /\ Cardinality(Counted(T, p)) \in Nat
  <1>1. Of(T, p) \in SUBSET Tids /\ Counted(T, p) \subseteq Of(T, p)
    BY TableIs DEF Of, Counted
  <1>2. QED
    BY <1>1, SomeTids

\* An entry that the constructor makes.
LEMMA EntryTyped ==
    ASSUME NEW p \in Tids, NEW b \in BOOLEAN, NEW n \in Nat
    PROVE  Entry(p, b, n) \in EntryType
  BY DEF Entry, EntryType

\* An entry from /proc, or a fake one.
LEMMA FoundTyped ==
    ASSUME KernelOK, use \in Use, NEW T \in Tables, NEW t \in Tids
    PROVE  Found(T, t) \in EntryType
  <1>1. Cardinality(Of(T, t)) \in Nat
    BY OfTids
  <1>2. CASE use.live /\ InProc(t)
    <2>1. /\ kernel[t].pid \in Tids /\ (kernel[t].pid # t) \in BOOLEAN /\ Alive(t) \in BOOLEAN
          /\ kernel[t].comm \in Nat
      BY <1>2 DEF KernelOK, Slots, Alive, Tids
    <2>2. Entry(kernel[t].pid, kernel[t].pid # t, kernel[t].comm) \in EntryType
      BY <2>1, EntryTyped
    <2> DEFINE E == Entry(kernel[t].pid, kernel[t].pid # t, kernel[t].comm)
    <2>3. Found(T, t) = [[E EXCEPT !.fds = @ /\ Alive(t)] EXCEPT !.nchilds = Cardinality(Of(T, t))]
      BY <1>2 DEF Found
    <2> HIDE DEF E
    <2>4. QED
      BY <1>1, <2>1, <2>2, <2>3 DEF EntryType, E
  <1>3. CASE ~(use.live /\ InProc(t))
    <2>1. Entry(t, FALSE, NoName) \in EntryType
      BY EntryTyped DEF NoName
    <2> DEFINE E == Entry(t, FALSE, NoName)
    <2>2. Found(T, t) = [[E EXCEPT !.fds = FALSE, !.cloned = "none"]
                         EXCEPT !.nchilds = Cardinality(Of(T, t))]
      BY <1>3 DEF Found
    <2> HIDE DEF E
    <2>3. QED
      BY <1>1, <2>1, <2>2 DEF EntryType, E
  <1>4. QED
    BY <1>2, <1>3

\* An entry with another count.
LEMMA Recount ==
    ASSUME NEW r \in EntryType, NEW n \in Nat
    PROVE  /\ [r EXCEPT !.nchilds = n] \in EntryType
           /\ [r EXCEPT !.nchilds = n].nchilds = n
           /\ [r EXCEPT !.nchilds = n].pid = r.pid
           /\ [r EXCEPT !.nchilds = n].thread = r.thread
  BY DEF EntryType

\* An entry whose count begins with n.
LEMMA CountOn ==
    ASSUME NEW r \in EntryType, NEW n \in Nat, NEW k \in Nat
    PROVE  [[r EXCEPT !.nchilds = n] EXCEPT !.nchilds = @ + k] = [r EXCEPT !.nchilds = n + k]
  BY DEF EntryType

\* The size of a union.
LEMMA Disjoint ==
    ASSUME NEW A, IsFiniteSet(A), NEW B, IsFiniteSet(B), A \cap B = {}
    PROVE  IsFiniteSet(A \cup B) /\ Cardinality(A \cup B) = Cardinality(A) + Cardinality(B)
  <1>1. Cardinality(A) \in Nat /\ Cardinality(B) \in Nat /\ Cardinality(A \cap B) = 0
    BY FS_CardinalityType, FS_EmptySet
  <1>2. /\ IsFiniteSet(A \cup B)
        /\ Cardinality(A \cup B) = Cardinality(A) + Cardinality(B) - Cardinality(A \cap B)
    BY FS_Union
  <1>3. QED
    BY ONLY <1>1, <1>2, SMTT(60)

\* The processes of entries that have none.
Missing(T) == {T[t].pid : t \in {u \in DOMAIN T : T[u].thread}} \ DOMAIN T
\* The counts of the entries that recreate_child_dependencies makes start here.
Start(T, o, p) == IF o.seen THEN 0 ELSE Cardinality(Of(T, p))

\* R has the threads of each process of T counted anew, and those that had no entry
\* made, if there is room.
Recreated(T, o, R) ==
    /\ R \in Tables
    /\ DOMAIN T \subseteq DOMAIN R /\ DOMAIN R \subseteq DOMAIN T \cup Missing(T)
    /\ \A t \in DOMAIN T : R[t] = [T[t] EXCEPT !.nchilds = Cardinality(Counted(R, t))]
    /\ \A p \in DOMAIN R \ DOMAIN T :
          R[p] = [Found(T, p) EXCEPT !.nchilds = Start(T, o, p) + Cardinality(Counted(R, p))]
    /\ use.limit > Cardinality(Tids) => DOMAIN R = DOMAIN T \cup Missing(T)
    /\ T \in Sized(use.limit + 1) => R \in Sized(use.limit + 1)

\* recreate_child_dependencies.
LEMMA Recreate ==
    ASSUME KernelOK, use \in Use, NEW T \in Tables, NEW o \in Oracle
    PROVE  Recreated(T, o, recreate_child_dependencies(T, o))
  <1> DEFINE R == recreate_child_dependencies(T, o)
  <1> DEFINE C == Cardinality(DOMAIN T)
             L == use.limit
             M == Missing(T)
             room == IF Full(T) THEN 0 ELSE L - C
             asked == IF Cardinality(M) < room THEN Cardinality(M) ELSE room
             made == CHOOSE S \in SUBSET M : Cardinality(S) = asked
             before == [t \in DOMAIN T \cup made |->
                          IF t \in DOMAIN T THEN [T[t] EXCEPT !.nchilds = 0]
                          ELSE [Found(T, t) EXCEPT !.nchilds = IF o.seen THEN 0 ELSE @]]
  <1>1. R = [p \in DOMAIN before |->
               [before[p] EXCEPT !.nchilds = @ + Cardinality(Counted(before, p))]]
    BY DEF recreate_child_dependencies, Missing
  <1> HIDE DEF R
  <1>2. C \in Nat /\ L \in Nat /\ DOMAIN T \subseteq Tids /\ \A t \in DOMAIN T : T[t] \in EntryType
    BY SizeOf, TableIs DEF Use
  <1>3. M \in SUBSET Tids /\ M \cap DOMAIN T = {}
    BY <1>2 DEF Missing, EntryType
  <1>4. IsFiniteSet(M) /\ Cardinality(M) \in Nat
    BY <1>3, SomeTids
  <1>5. Full(T) <=> C >= L
    BY DEF Full
  <1> HIDE DEF C, L, M
  <1>6. asked \in Nat /\ asked <= Cardinality(M) /\ (C <= L + 1 => C + asked <= L + 1)
        /\ (L > C + Cardinality(M) => asked = Cardinality(M))
    BY ONLY <1>2, <1>4, <1>5, SMTT(60)
  <1> HIDE DEF asked
  <1>7. \E S \in SUBSET M : Cardinality(S) = asked
    BY <1>4, <1>6, SubsetOfSize
  <1>8. made \in SUBSET M /\ Cardinality(made) = asked
    BY <1>7
  <1> HIDE DEF made
  <1>9. IsFiniteSet(made) /\ made \subseteq Tids /\ made \cap DOMAIN T = {}
    BY <1>3, <1>8, SomeTids
  <1>10. \A t \in made : /\ Found(T, t) \in EntryType
                         /\ Found(T, t).nchilds = Cardinality(Of(T, t))
    <2> SUFFICES ASSUME NEW t \in made
                 PROVE  Found(T, t) \in EntryType /\ Found(T, t).nchilds = Cardinality(Of(T, t))
      OBVIOUS
    <2>1. Found(T, t) \in EntryType
      BY <1>9, FoundTyped
    <2>2. Found(T, t).nchilds = Cardinality(Of(T, t))
      BY DEF Found, Entry
    <2>3. QED
      BY <2>1, <2>2
  <1> DEFINE first(t) == IF t \in DOMAIN T THEN 0 ELSE Start(T, o, t)
             entry(t) == IF t \in DOMAIN T THEN T[t] ELSE Found(T, t)
  <1>11. \A t \in DOMAIN T \cup made : entry(t) \in EntryType
    BY <1>2, <1>10
  <1>12. \A t \in DOMAIN T \cup made : first(t) \in Nat
    BY OfTids DEF Start
  <1>13. DOMAIN before = DOMAIN T \cup made
         /\ \A t \in DOMAIN T \cup made : before[t] = [entry(t) EXCEPT !.nchilds = first(t)]
    <2>1. DOMAIN before = DOMAIN T \cup made
      OBVIOUS
    <2>2. ASSUME NEW t \in DOMAIN T \cup made
          PROVE  before[t] = [entry(t) EXCEPT !.nchilds = first(t)]
      <3>1. CASE t \in DOMAIN T
        BY <3>1
      <3>2. CASE t \notin DOMAIN T
        BY <3>2, <1>10 DEF Start
      <3>3. QED
        BY <3>1, <3>2
    <2>3. QED
      BY <2>1, <2>2
  <1> HIDE DEF before, first, entry
  <1>14. ASSUME NEW t \in DOMAIN T \cup made
         PROVE  /\ before[t] \in EntryType /\ before[t].nchilds = first(t)
                /\ before[t].pid = entry(t).pid /\ before[t].thread = entry(t).thread
    <2>1. entry(t) \in EntryType /\ first(t) \in Nat /\ before[t] = [entry(t) EXCEPT !.nchilds = first(t)]
      BY <1>11, <1>12, <1>13
    <2>2. QED
      BY <2>1, Recount
  <1>15. before \in Tables
    <2>1. before = [t \in DOMAIN before |-> before[t]]
      BY DEF before
    <2>2. QED
      BY <1>2, <1>9, <1>13, <1>14, <2>1, TableIs
  <1>16. \A t : Cardinality(Counted(before, t)) \in Nat
    BY <1>15, OfTids
  <1>17. /\ DOMAIN R = DOMAIN T \cup made /\ R = [t \in DOMAIN R |-> R[t]]
         /\ \A t \in DOMAIN T \cup made :
               R[t] = [before[t] EXCEPT !.nchilds = @ + Cardinality(Counted(before, t))]
    BY <1>1, <1>13
  <1>18. \A t \in DOMAIN T \cup made :
            R[t] = [entry(t) EXCEPT !.nchilds = first(t) + Cardinality(Counted(before, t))]
    <2> SUFFICES ASSUME NEW t \in DOMAIN T \cup made
                 PROVE  R[t] = [entry(t) EXCEPT !.nchilds = first(t) + Cardinality(Counted(before, t))]
      OBVIOUS
    <2>1. entry(t) \in EntryType /\ first(t) \in Nat /\ Cardinality(Counted(before, t)) \in Nat
      BY <1>11, <1>12, <1>16
    <2>2. /\ before[t] = [entry(t) EXCEPT !.nchilds = first(t)]
          /\ R[t] = [before[t] EXCEPT !.nchilds = @ + Cardinality(Counted(before, t))]
      BY <1>13, <1>17
    <2> DEFINE k == Cardinality(Counted(before, t))
    <2> HIDE DEF k
    <2>3. [[entry(t) EXCEPT !.nchilds = first(t)] EXCEPT !.nchilds = @ + k]
              = [entry(t) EXCEPT !.nchilds = first(t) + k]
      <3>1. k \in Nat
        BY <2>1 DEF k
      <3>2. QED
        BY <2>1, <3>1, CountOn
    <2>4. QED
      BY ONLY <2>2, <2>3, Zenon DEF k
  <1>19. \A t \in DOMAIN T \cup made :
            R[t] \in EntryType /\ R[t].pid = before[t].pid /\ R[t].thread = before[t].thread
    <2> SUFFICES ASSUME NEW t \in DOMAIN T \cup made
                 PROVE  R[t] \in EntryType /\ R[t].pid = before[t].pid /\ R[t].thread = before[t].thread
      OBVIOUS
    <2>1. entry(t) \in EntryType /\ first(t) \in Nat /\ Cardinality(Counted(before, t)) \in Nat
      BY <1>11, <1>12, <1>16
    <2> DEFINE n == first(t) + Cardinality(Counted(before, t))
    <2>2. n \in Nat
      BY ONLY <2>1, SMTT(60)
    <2>3. R[t] = [entry(t) EXCEPT !.nchilds = n]
      BY <1>18
    <2> HIDE DEF n
    <2>4. R[t] \in EntryType /\ R[t].pid = entry(t).pid /\ R[t].thread = entry(t).thread
      BY <2>1, <2>2, <2>3, Recount
    <2>5. QED
      BY <1>14, <2>4
  <1>20. R \in Tables
    BY <1>2, <1>9, <1>17, <1>19, TableIs
  <1>21. \A t : Counted(R, t) = Counted(before, t)
    BY <1>13, <1>17, <1>19 DEF Counted, Of
  <1>22. \A t \in DOMAIN T : R[t] = [T[t] EXCEPT !.nchilds = Cardinality(Counted(R, t))]
    BY <1>16, <1>18, <1>21 DEF entry, first
  <1>23. \A p \in made :
            R[p] = [Found(T, p) EXCEPT !.nchilds = Start(T, o, p) + Cardinality(Counted(R, p))]
    BY <1>9, <1>18, <1>21 DEF entry, first
  <1>24. Cardinality(DOMAIN R) = C + asked
    BY <1>8, <1>9, <1>17, SizeOf, Disjoint DEF C
  <1>25. ASSUME T \in Sized(use.limit + 1)
         PROVE  R \in Sized(use.limit + 1)
    <2>1. C <= L + 1
      BY <1>25 DEF Sized, C, L
    <2>2. Cardinality(DOMAIN R) <= L + 1
      BY <1>6, <1>24, <2>1
    <2>3. QED
      BY <1>20, <2>2 DEF Sized, L
  <1>26. ASSUME use.limit > Cardinality(Tids)
         PROVE  made = M
    <2>1. DOMAIN T \cup M \in SUBSET Tids /\ IsFiniteSet(DOMAIN T)
      BY <1>2, <1>3, SomeTids
    <2>2. Cardinality(DOMAIN T \cup M) = C + Cardinality(M)
      BY <1>3, <1>4, <2>1, Disjoint DEF C
    <2>3. Cardinality(DOMAIN T \cup M) <= Cardinality(Tids) /\ Cardinality(Tids) \in Nat
      BY <2>1, ThreadsAssumption, FS_Subset, FS_CardinalityType
    <2>4. L > C + Cardinality(M)
      <3>1. L > Cardinality(Tids)
        BY <1>26 DEF L
      <3>2. QED
        BY ONLY <1>2, <1>4, <2>2, <2>3, <3>1, SMTT(60)
    <2>5. asked = Cardinality(M)
      BY <1>6, <2>4
    <2>6. QED
      BY <1>4, <1>8, <2>5, FS_Subset
  <1>27. QED
    BY <1>8, <1>9, <1>17, <1>20, <1>22, <1>23, <1>25, <1>26 DEF M, R, Recreated

---------------------------------------------------------------------------
\* The fields that events set.
LEMMA FieldTyped ==
    ASSUME NEW r \in EntryType, NEW b \in BOOLEAN
    PROVE  /\ [r EXCEPT !.idle = b] \in EntryType
           /\ [r EXCEPT !.closed = b] \in EntryType
  BY DEF EntryType

\* A table with room has less entries than the limit.
LEMMA Room ==
    ASSUME use \in Use, NEW T \in Tables, ~Full(T)
    PROVE  use.limit - 1 \in Nat /\ use.limit - 1 + 1 = use.limit /\ T \in Sized(use.limit - 1)
  <1>1. Cardinality(DOMAIN T) \in Nat /\ use.limit \in Nat
    BY SizeOf DEF Use
  <1>2. ~(Cardinality(DOMAIN T) >= use.limit)
    BY DEF Full
  <1>3. use.limit - 1 \in Nat /\ use.limit - 1 + 1 = use.limit /\ Cardinality(DOMAIN T) <= use.limit - 1
    BY ONLY <1>1, <1>2, SMTT(60)
  <1>4. QED
    BY <1>3 DEF Sized

\* A larger size.
LEMMA Larger ==
    ASSUME NEW m \in Nat, NEW n \in Nat, m <= n, NEW T \in Sized(m)
    PROVE  T \in Sized(n)
  <1>1. T \in Tables /\ Cardinality(DOMAIN T) <= m
    BY DEF Sized
  <1>2. Cardinality(DOMAIN T) \in Nat
    BY <1>1, SizeOf
  <1>3. Cardinality(DOMAIN T) <= n
    BY ONLY <1>1, <1>2, m \in Nat, n \in Nat, m <= n, SMTT(60)
  <1>4. QED
    BY <1>1, <1>3 DEF Sized

\* get_main_thread adds at most the entry that it was asked for.
LEMMA MainTyped ==
    ASSUME KernelOK, use \in Use, NEW T \in Tables, NEW p \in Tids
    PROVE  /\ get_main_thread(T, p) \in Tables
           /\ ~Full(T) => get_main_thread(T, p) \in Sized(use.limit)
           /\ T \in Sized(use.limit + 1) => get_main_thread(T, p) \in Sized(use.limit + 1)
  <1> DEFINE L == use.limit
             W == With(T, p, Found(T, p))
             R == get_main_thread(T, p)
  <1>1. L \in Nat /\ L + 1 \in Nat /\ L <= L + 1 /\ (L - 1 \in Nat => L - 1 <= L)
    BY DEF Use
  <1>2. Found(T, p) \in EntryType
    BY FoundTyped
  <1>3. W \in Tables /\ \A n \in Nat : T \in Sized(n) => W \in Sized(n + 1)
    BY <1>2, Put
  <1>4. R = IF p \in DOMAIN T \/ Full(T) THEN T ELSE W
    BY DEF get_main_thread
  <1>5. ~Full(T) => L - 1 \in Nat /\ L - 1 + 1 = L /\ T \in Sized(L - 1)
    BY Room
  <1> HIDE DEF L, W, R
  <1>6. R \in Tables
    BY <1>3, <1>4
  <1>7. ASSUME ~Full(T)
        PROVE  R \in Sized(L)
    <2>1. W \in Sized(L)
      BY <1>3, <1>5, <1>7
    <2>2. T \in Sized(L)
      BY <1>1, <1>5, <1>7, Larger
    <2>3. QED
      BY <1>4, <2>1, <2>2
  <1>8. ASSUME T \in Sized(L + 1)
        PROVE  R \in Sized(L + 1)
    <2>1. CASE Full(T)
      BY <1>4, <1>8, <2>1
    <2>2. CASE ~Full(T)
      <3>1. R \in Sized(L)
        BY <1>7, <2>2
      <3>2. QED
        BY <1>1, <3>1, Larger
    <2>3. QED
      BY <2>1, <2>2
  <1>9. QED
    BY <1>6, <1>7, <1>8 DEF L, R

\* The main thread of a new thread counts it.
LEMMA IncrementTyped ==
    ASSUME KernelOK, use \in Use, NEW T \in Tables, NEW r \in EntryType
    PROVE  /\ increment_mainthread_childcount(T, r) \in Tables
           /\ ~Full(T) => increment_mainthread_childcount(T, r) \in Sized(use.limit)
  <1> DEFINE U == get_main_thread(T, r.pid)
             n == U[r.pid].nchilds + 1
             V == [U EXCEPT ![r.pid] = [U[r.pid] EXCEPT !.nchilds = n]]
  <1>1. increment_mainthread_childcount(T, r)
            = IF r.thread THEN IF r.pid \in DOMAIN U THEN V ELSE U ELSE T
    BY DEF increment_mainthread_childcount
  <1>2. r.pid \in Tids /\ use.limit \in Nat
    BY DEF EntryType, Use
  <1>3. U \in Tables /\ (~Full(T) => U \in Sized(use.limit))
    BY <1>2, MainTyped
  <1>4. ~Full(T) => T \in Sized(use.limit)
    <2>1. ~Full(T) => use.limit - 1 \in Nat /\ use.limit - 1 <= use.limit /\ T \in Sized(use.limit - 1)
      BY <1>2, Room
    <2>2. QED
      BY <1>2, <2>1, Larger
  <1> HIDE DEF U
  <1>5. ASSUME r.pid \in DOMAIN U
        PROVE  V \in Tables /\ (U \in Sized(use.limit) => V \in Sized(use.limit))
    <2>1. U[r.pid] \in EntryType
      BY <1>3, <1>5, TableIs
    <2>2. n \in Nat
      BY <2>1 DEF EntryType
    <2> HIDE DEF n
    <2>3. [U[r.pid] EXCEPT !.nchilds = n] \in EntryType
      BY <2>1, <2>2, Recount
    <2>4. QED
      BY <1>2, <1>3, <1>5, <2>3, Change
  <1> HIDE DEF V, n
  <1>6. QED
    BY <1>1, <1>3, <1>4, <1>5

Good == Sized(use.limit + 1)

\* Another value of a field.
LEMMA ChangeGood ==
    ASSUME use \in Use, NEW T \in Good, NEW t \in DOMAIN T, NEW r \in EntryType
    PROVE  [T EXCEPT ![t] = r] \in Good
  <1>1. T \in Tables /\ use.limit + 1 \in Nat
    BY DEF Good, Sized, Use
  <1>2. QED
    BY <1>1, Change DEF Good

\* The parts of a good table.
LEMMA GoodIs ==
    ASSUME NEW T \in Good
    PROVE  /\ T \in Tables /\ DOMAIN T \subseteq Tids
           /\ \A t \in DOMAIN T : T[t] \in EntryType /\ T[t].pid \in Tids /\ T[t].nchilds \in Nat
  <1>1. T \in Tables
    BY DEF Good, Sized
  <1>2. QED
    BY <1>1, TableIs DEF EntryType

\* add_thread exceeds the limit by one entry at most.
LEMMA AddTyped ==
    ASSUME KernelOK, use \in Use, NEW T \in Good, NEW t \in Tids, NEW r \in EntryType
    PROVE  add_thread(T, t, r) \in Good
  <1>1. CASE Full(T)
    BY <1>1 DEF add_thread
  <1>2. CASE ~Full(T)
    <2> DEFINE U == increment_mainthread_childcount(T, r)
    <2>1. U \in Tables /\ U \in Sized(use.limit) /\ use.limit \in Nat
      BY <1>2, GoodIs, IncrementTyped DEF Use
    <2>2. add_thread(T, t, r) = With(U, t, r)
      BY <1>2 DEF add_thread
    <2> HIDE DEF U
    <2>3. \A n \in Nat : U \in Sized(n) => With(U, t, r) \in Sized(n + 1)
      BY <2>1, Put
    <2>4. QED
      BY <2>1, <2>2, <2>3 DEF Good
  <1>3. QED
    BY <1>1, <1>2

\* get_main_thread and get_thread.
LEMMA GetTyped ==
    ASSUME KernelOK, use \in Use, NEW T \in Good, NEW t \in Tids
    PROVE  /\ get_main_thread(T, t) \in Good
           /\ \A query \in BOOLEAN : get_thread(T, t, query) \in Good
  <1>1. T \in Tables
    BY GoodIs
  <1>2. get_main_thread(T, t) \in Good
    BY <1>1, MainTyped DEF Good
  <1>3. Found(T, t) \in EntryType
    BY <1>1, FoundTyped
  <1>4. add_thread(T, t, Found(T, t)) \in Good
    BY <1>3, AddTyped
  <1>5. QED
    BY <1>2, <1>4 DEF get_thread

\* An entry is erased.
LEMMA EraseTyped ==
    ASSUME use \in Use, NEW T \in Good, NEW t
    PROVE  Erase(T, t) \in Good
  <1> DEFINE U == Erase(T, t)
  <1>1. U = [u \in DOMAIN T \ {t} |-> T[u]]
    BY DEF Erase
  <1>2. DOMAIN U = DOMAIN T \ {t} /\ U = [u \in DOMAIN U |-> U[u]] /\ \A u \in DOMAIN U : U[u] = T[u]
    BY <1>1
  <1> HIDE DEF U
  <1>3. T \in Tables /\ DOMAIN T \subseteq Tids /\ \A u \in DOMAIN T : T[u] \in EntryType
    BY GoodIs
  <1>4. U \in Tables
    BY <1>2, <1>3, TableIs
  <1>5. Cardinality(DOMAIN U) <= Cardinality(DOMAIN T)
    BY <1>2, <1>3, SizeOf, FS_Subset
  <1>6. /\ Cardinality(DOMAIN U) \in Nat /\ Cardinality(DOMAIN T) \in Nat
        /\ use.limit + 1 \in Nat /\ Cardinality(DOMAIN T) <= use.limit + 1
    BY <1>3, <1>4, SizeOf DEF Good, Sized, Use
  <1>7. Cardinality(DOMAIN U) <= use.limit + 1
    BY ONLY <1>5, <1>6, SMTT(60)
  <1>8. QED
    BY <1>4, <1>7 DEF Good, Sized, U

\* The main thread of a removed thread counts it no more.
LEMMA ReleasedTyped ==
    ASSUME use \in Use, NEW T \in Good, NEW r \in EntryType
    PROVE  Released(T, r) \in Good /\ DOMAIN Released(T, r) = DOMAIN T
  <1>1. CASE r.thread /\ r.pid \in DOMAIN T /\ T[r.pid].nchilds > 0
    <2> DEFINE n == T[r.pid].nchilds - 1
    <2>1. T \in Tables /\ T[r.pid] \in EntryType /\ T[r.pid].nchilds \in Nat
      BY <1>1, GoodIs
    <2>2. n \in Nat
      BY ONLY <1>1, <2>1, SMTT(60)
    <2>3. Released(T, r) = [T EXCEPT ![r.pid] = [T[r.pid] EXCEPT !.nchilds = n]]
      BY <1>1 DEF Released
    <2> HIDE DEF n
    <2>4. [T[r.pid] EXCEPT !.nchilds = n] \in EntryType
      BY <2>1, <2>2, Recount
    <2> DEFINE x == [T[r.pid] EXCEPT !.nchilds = n]
    <2> HIDE DEF x
    <2>5. [T EXCEPT ![r.pid] = x] \in Good /\ DOMAIN [T EXCEPT ![r.pid] = x] = DOMAIN T
      <3>1. x \in EntryType
        BY <2>4 DEF x
      <3>2. QED
        BY <1>1, <2>1, <3>1, ChangeGood
    <2>6. QED
      BY <2>3, <2>5 DEF x
  <1>2. CASE ~(r.thread /\ r.pid \in DOMAIN T /\ T[r.pid].nchilds > 0)
    BY <1>2 DEF Released
  <1>3. QED
    BY <1>1, <1>2

\* remove_thread, with what it makes if it has to.
LEMMA RemoveTyped ==
    ASSUME KernelOK, use \in Use, NEW T \in Good, NEW t, NEW force, NEW o \in Oracle
    PROVE  remove_thread(T, t, force, o) \in Good
  <1>1. CASE t \notin DOMAIN T \/ (T[t].nchilds # 0 /\ ~force)
    BY <1>1 DEF remove_thread
  <1>2. CASE ~(t \notin DOMAIN T \/ (T[t].nchilds # 0 /\ ~force))
    <2> DEFINE U == Erase(Released(T, T[t]), t)
    <2>1. T[t] \in EntryType
      BY <1>2, GoodIs
    <2>2. U \in Good
      BY <2>1, ReleasedTyped, EraseTyped
    <2>3. remove_thread(T, t, force, o) = IF T[t].nchilds # 0 THEN recreate_child_dependencies(U, o) ELSE U
      BY <1>2 DEF remove_thread
    <2> HIDE DEF U
    <2>4. recreate_child_dependencies(U, o) \in Good
      BY <2>2, GoodIs, Recreate DEF Good, Recreated
    <2>5. QED
      BY <2>2, <2>3, <2>4
  <1>3. QED
    BY <1>1, <1>2

\* The periodic scan.
LEMMA ScanTyped ==
    ASSUME KernelOK, use \in Use, NEW T \in Good, NEW o \in Oracle
    PROVE  remove_inactive_threads(T, o) \in Good
  <1> DEFINE S == Inactive(T)
             first == IF o.mainsFirst THEN S \cap Procs ELSE S \cap Threads
             A == RemoveAll(T, T, first, o)
             B == RemoveAll(T, A, S \ first, o)
  <1>1. S \in SUBSET Tids
    BY GoodIs DEF Inactive
  <1>2. IsFiniteSet(first) /\ IsFiniteSet(S \ first)
    BY <1>1, SomeTids
  <1> HIDE DEF S, first
  <1>3. \A U \in Good : \A t : remove_thread(U, t, T[t].closed, o) \in Good
    BY RemoveTyped
  <1>4. A \in Good
    BY <1>2, <1>3, LoopKeeps
  <1> HIDE DEF A
  <1>5. B \in Good
    BY <1>2, <1>3, <1>4, LoopKeeps
  <1>6. RemoveEach(T, S, o) = B
    BY DEF RemoveEach, A, first
  <1> HIDE DEF B
  <1>7. recreate_child_dependencies(B, o) \in Good
    BY <1>5, GoodIs, Recreate DEF Good, Recreated
  <1>8. QED
    BY <1>6, <1>7 DEF remove_inactive_threads, S

\* What an event does to the entry of its thread.
LEMMA SetTyped ==
    ASSUME use \in Use, NEW T \in Good, NEW t \in DOMAIN T, NEW b \in BOOLEAN
    PROVE  /\ [T EXCEPT ![t].idle = b] \in Good
           /\ [T EXCEPT ![t].closed = b] \in Good
  <1>1. T[t] \in EntryType
    BY GoodIs
  <1> DEFINE i == [T[t] EXCEPT !.idle = b]
             c == [T[t] EXCEPT !.closed = b]
  <1>2. i \in EntryType /\ c \in EntryType
    BY <1>1, FieldTyped
  <1>3. /\ [T EXCEPT ![t].idle = b] = [T EXCEPT ![t] = i]
        /\ [T EXCEPT ![t].closed = b] = [T EXCEPT ![t] = c]
    OBVIOUS
  <1> HIDE DEF i, c
  <1>4. QED
    BY <1>2, <1>3, ChangeGood

\* reset.
LEMMA ResetTyped ==
    ASSUME KernelOK, use \in Use, NEW T \in Good, NEW e \in Readable
    PROVE  reset(T, e) \in Good
  <1> DEFINE U == get_thread(T, e.tid, e.kind # "clone")
  <1>1. e.tid \in Tids
    BY DEF Readable, EventType
  <1>2. U \in Good
    BY <1>1, GetTyped
  <1>3. reset(T, e) = IF e.tid \in DOMAIN U THEN [U EXCEPT ![e.tid].idle = FALSE] ELSE U
    BY DEF reset
  <1> HIDE DEF U
  <1>4. ASSUME e.tid \in DOMAIN U
        PROVE  [U EXCEPT ![e.tid].idle = FALSE] \in Good
    BY <1>2, <1>4, SetTyped
  <1>5. QED
    BY <1>2, <1>3, <1>4

\* A parent known by number is looked up again.
LEMMA ValidatedTyped ==
    ASSUME KernelOK, use \in Use, NEW T \in Good, NEW e \in Readable, NEW p \in Tids,
           NEW o \in Oracle
    PROVE  Validated(T, e, p, o) \in Good
  <1> DEFINE U == get_thread(remove_thread(T, p, TRUE, o), p, TRUE)
             r == [U[p] EXCEPT !.comm = IF U[p].comm = NoName THEN e.comm ELSE U[p].comm]
  <1>1. U \in Good
    BY RemoveTyped, GetTyped
  <1>2. Validated(T, e, p, o) = IF T[p].comm # NoName THEN T
                                ELSE IF p \in DOMAIN U THEN [U EXCEPT ![p] = r] ELSE U
    BY DEF Validated
  <1> HIDE DEF U
  <1>3. ASSUME p \in DOMAIN U
        PROVE  [U EXCEPT ![p] = r] \in Good
    <2>1. U[p] \in EntryType /\ e.comm \in Nat
      BY <1>1, <1>3, GoodIs DEF Readable, EventType
    <2>2. r \in EntryType
      BY <2>1 DEF EntryType
    <2> HIDE DEF r
    <2>3. QED
      BY <1>1, <1>3, <2>2, ChangeGood
  <1> HIDE DEF r
  <1>4. QED
    BY <1>1, <1>2, <1>3

\* The entry of a cloned thread.
LEMMA ClonedTyped ==
    ASSUME NEW T, NEW e \in Readable, NEW c \in Tids, NEW p
    PROVE  Cloned(T, e, c, p) \in EntryType
  <1> DEFINE m == IF T[p].thread THEN T[p].pid ELSE p
             b == ~e.thread /\ m \in DOMAIN T /\ T[m].fds
             i == e.ret = NoTid
             q == IF e.thread THEN e.pid ELSE c
             E == Entry(q, e.thread, e.comm)
  <1>1. q \in Tids /\ e.thread \in BOOLEAN /\ e.comm \in Nat /\ b \in BOOLEAN /\ i \in BOOLEAN
    BY DEF Readable, EventType
  <1>2. Cloned(T, e, c, p) = [E EXCEPT !.inverted = i, !.cloned = "new", !.fds = b]
    BY DEF Cloned
  <1> HIDE DEF b, i, q
  <1>3. E \in EntryType
    BY <1>1, EntryTyped
  <1> HIDE DEF E
  <1>4. QED
    BY <1>1, <1>2, <1>3 DEF EntryType

\* A clone is added.
LEMMA AddCloneTyped ==
    ASSUME KernelOK, use \in Use, NEW T \in Good, NEW e \in Readable,
           NEW c \in Tids, NEW p \in Tids, NEW o \in Oracle
    PROVE  AddClone(T, e, c, p, o) \in Good
  <1> DEFINE U == get_thread(T, p, TRUE)
             collision == c \in DOMAIN U \/ U[p].comm = NoName
             V == Validated(remove_thread(U, c, TRUE, o), e, p, o)
             W == IF e.thread THEN V ELSE get_main_thread(V, V[p].pid)
             added == add_thread(W, c, Cloned(W, e, c, p))
  <1>1. U \in Good
    BY GetTyped
  <1>2. V \in Good
    BY <1>1, RemoveTyped, ValidatedTyped
  <1>3. AddClone(T, e, c, p, o) = IF p \notin DOMAIN U \/ Known(U, c) THEN U
                                  ELSE IF p \notin DOMAIN V THEN V
                                  ELSE IF collision THEN Used(added, e.tid) ELSE added
    BY DEF AddClone
  <1>4. ASSUME p \in DOMAIN V
        PROVE  added \in Good
    <2> HIDE DEF V
    <2>1. V[p].pid \in Tids
      BY <1>2, <1>4, GoodIs
    <2>2. W \in Good
      BY <1>2, <2>1, GetTyped
    <2> HIDE DEF W
    <2>3. Cloned(W, e, c, p) \in EntryType
      BY ClonedTyped
    <2>4. QED
      BY <2>2, <2>3, AddTyped
  <1>5. ASSUME p \in DOMAIN V
        PROVE  Used(added, e.tid) \in Good
    <2>1. added \in Good
      BY <1>4, <1>5
    <2> HIDE DEF added
    <2>2. QED
      BY <2>1, SetTyped DEF Used
  <1> HIDE DEF U, V, added, collision
  <1>6. QED
    BY <1>1, <1>2, <1>3, <1>4, <1>5

\* Each parser.
LEMMA ProcessTyped ==
    ASSUME KernelOK, use \in Use, NEW T \in Good, NEW e \in Readable, NEW o \in Oracle
    PROVE  process_event(T, e, o) \in Good
  <1>0. /\ e.tid \in Tids /\ e.pid \in Tids /\ e.comm \in Nat
        /\ e.ret # NoTid => e.ret \in Tids
        /\ e.kind = "clone" /\ e.ret = NoTid => e.ptid \in Tids
        /\ e.kind \in {"clone", "execve", "exit", "syscall"}
    BY DEF Readable, EventType
  <1>1. CASE e.kind = "clone"
    <2> DEFINE U == Unstale(T, e, o)
               parent == IF e.thread THEN e.pid ELSE e.ptid
    <2>1. U \in Good
      BY RemoveTyped DEF Unstale
    <2>2. parse_clone_exit(T, e, o) =
             IF e.ret # NoTid
             THEN IF use.container THEN T ELSE AddClone(T, e, e.ret, e.tid, o)
             ELSE IF e.tid \in DOMAIN U THEN U ELSE AddClone(U, e, e.tid, parent, o)
      BY DEF parse_clone_exit
    <2> HIDE DEF U
    <2>3. ASSUME e.ret # NoTid
          PROVE  AddClone(T, e, e.ret, e.tid, o) \in Good
      BY <1>0, <2>3, AddCloneTyped
    <2>4. ASSUME e.ret = NoTid
          PROVE  AddClone(U, e, e.tid, parent, o) \in Good
      <3>1. parent \in Tids
        BY <1>0, <1>1, <2>4
      <3>2. QED
        BY <1>0, <2>1, <3>1, AddCloneTyped
    <2>5. process_event(T, e, o) = parse_clone_exit(T, e, o)
      BY <1>1 DEF process_event
    <2>6. QED
      BY <2>1, <2>2, <2>3, <2>4, <2>5
  <1>2. CASE e.kind = "execve"
    <2>1. process_event(T, e, o) = parse_execve_exit(T, e)
      BY <1>2 DEF process_event
    <2>2. CASE e.tid \in DOMAIN T
      <3> DEFINE r == [T[e.tid] EXCEPT !.pid = e.pid, !.thread = FALSE, !.closed = FALSE, !.comm = e.comm]
      <3>1. T[e.tid] \in EntryType
        BY <2>2, GoodIs
      <3>2. r \in EntryType
        BY <1>0, <3>1 DEF EntryType
      <3>3. parse_execve_exit(T, e) = [T EXCEPT ![e.tid] = r]
        BY <2>2 DEF parse_execve_exit
      <3> HIDE DEF r
      <3>4. [T EXCEPT ![e.tid] = r] \in Good
        BY <2>2, <3>2, ChangeGood
      <3>5. QED
        BY <2>1, <3>3, <3>4
    <2>3. CASE e.tid \notin DOMAIN T
      BY <2>1, <2>3 DEF parse_execve_exit
    <2>4. QED
      BY <2>2, <2>3
  <1>3. CASE e.kind = "exit"
    <2>1. process_event(T, e, o) = parse_thread_exit(T, e)
      BY <1>3 DEF process_event
    <2>2. CASE e.tid \in DOMAIN T
      <3>1. parse_thread_exit(T, e) = [T EXCEPT ![e.tid].closed = TRUE]
        BY <2>2 DEF parse_thread_exit
      <3>2. [T EXCEPT ![e.tid].closed = TRUE] \in Good
        BY <2>2, SetTyped
      <3>3. QED
        BY <2>1, <3>1, <3>2
    <2>3. CASE e.tid \notin DOMAIN T
      BY <2>1, <2>3 DEF parse_thread_exit
    <2>4. QED
      BY <2>2, <2>3
  <1>4. CASE e.kind = "syscall"
    <2>1. process_event(T, e, o) = get_fd_table(T, e)
      BY <1>4 DEF process_event
    <2>2. e.tid \in DOMAIN T => T[e.tid].pid \in Tids
      BY GoodIs
    <2>3. QED
      BY <2>1, <2>2, GetTyped DEF get_fd_table
  <1>5. QED
    BY <1>0, <1>1, <1>2, <1>3, <1>4

---------------------------------------------------------------------------
\* A step of the kernel leaves the inspector alone; an event may come.
LEMMA EmitTyped ==
    ASSUME TypesInv, NEW e \in Readable, Emit(e)
    PROVE  /\ events' \in Seq(Readable) /\ Len(events') <= MaxQueue
           /\ lost' \in 0 .. use.losses
  <1>0. use.losses \in Nat /\ lost \in 0 .. use.losses
    BY DEF TypesInv, Use
  <1>1. CASE /\ Len(events) < MaxQueue
             /\ events' = Append(events, e) /\ UNCHANGED lost
    <2>1. events \in Seq(Readable) /\ MaxQueue \in Nat
      BY ThreadsAssumption DEF TypesInv
    <2>2. events' \in Seq(Readable) /\ Len(events') = Len(events) + 1 /\ Len(events) \in Nat
      BY <1>1, <2>1
    <2>3. QED
      BY <1>0, <1>1, <2>1, <2>2
  <1>2. CASE /\ lost < use.losses
             /\ lost' = lost + 1 /\ UNCHANGED events
    BY <1>0, <1>2 DEF TypesInv
  <1>3. QED
    BY <1>1, <1>2 DEF Emit

\* An event that a thread of a process makes.
LEMMA EventTyped ==
    ASSUME KernelOK, NEW t \in Tids, InProc(t), NEW k \in {"clone", "execve", "exit", "syscall"}
    PROVE  Event(k, t) \in EventType
  <1>1. kernel[t].pid \in Tids
    BY DEF KernelOK, Tids
  <1>2. QED
    BY <1>1 DEF Event, EventType, NoName

\* The kernel in another state, thread by thread: what KernelOK asks of each.
LEMMA KernelStep ==
    ASSUME kernel' \in [Tids -> Slots],
           NEW Next1, Next1 \in SUBSET Tids,
           \A t \in Tids : InProc(t)' <=> t \in Next1,
           \A t \in Next1 : /\ kernel'[t].pid \in Procs /\ kernel'[t].pid \in Next1
                            /\ t \in Procs => kernel'[t].pid = t,
           \A t \in Tids : /\ kernel'[t].state = "clone" => kernel'[t].child \in Tids
                           /\ kernel'[t].state = "born" => kernel'[t].parent \in Tids
    PROVE  KernelOK'
  BY DEF KernelOK, Tids

\* The states a thread of a process is in.
LEMMA InProcIs ==
    ASSUME NEW t
    PROVE  /\ InProc(t) <=> kernel[t].state \in {"born", "run", "clone", "zombie"}
           /\ InProc(t)' <=> kernel'[t].state \in {"born", "run", "clone", "zombie"}
  BY DEF InProc, Alive

\* clone() begins.
LEMMA CloneTyped ==
    ASSUME KernelOK, NEW p \in Tids, NEW c \in Tids, Clone(p, c)
    PROVE  KernelOK'
  <1> DEFINE q == IF c \in Threads THEN kernel[p].pid ELSE c
             P == [kernel[p] EXCEPT !.state = "clone", !.child = c]
             C == [Slot("born") EXCEPT !.pid = q, !.parent = p, !.comm = kernel[p].comm]
  <1>1. /\ kernel \in [Tids -> Slots] /\ kernel[p] \in Slots /\ p # c
        /\ kernel[p].state = "run" /\ kernel[c].state = "free"
    BY DEF KernelOK, Clone
  <1>2. kernel' = [[kernel EXCEPT ![p] = P] EXCEPT ![c] = C]
    <2>1. kernel' = [kernel EXCEPT ![p].state = "clone", ![p].child = c, ![c] = C]
      BY DEF Clone
    <2>2. [kernel EXCEPT ![p].state = "clone", ![p].child = c] = [kernel EXCEPT ![p] = P]
      BY <1>1
    <2>3. QED
      BY <2>1, <2>2
  <1>3. InProc(p) /\ kernel[p].pid \in Procs /\ InProc(kernel[p].pid)
    BY <1>1, InProcIs DEF KernelOK
  <1>4. q \in Procs /\ (c \in Procs => q = c) /\ (q = c \/ InProc(q))
    BY <1>3, ThreadsAssumption DEF Tids
  <1>5. P \in Slots /\ P.state = "clone" /\ P.child = c /\ P.pid = kernel[p].pid
    BY <1>1 DEF Slots
  <1>6. C \in Slots /\ C.state = "born" /\ C.pid = q /\ C.parent = p
    BY <1>1, <1>4 DEF Slots, Slot, Tids
  <1> HIDE DEF P, C, q
  <1>7. /\ kernel' \in [Tids -> Slots] /\ kernel'[p] = P /\ kernel'[c] = C
        /\ \A t \in Tids \ {p, c} : kernel'[t] = kernel[t]
    BY <1>1, <1>2, <1>5, <1>6
  <1> DEFINE N == {t \in Tids : InProc(t)} \cup {c}
  <1>8. \A t \in Tids : InProc(t)' <=> t \in N
    BY <1>1, <1>3, <1>5, <1>6, <1>7, InProcIs
  <1>9. \A t \in N : /\ kernel'[t].pid \in Procs /\ kernel'[t].pid \in N
                     /\ t \in Procs => kernel'[t].pid = t
    <2> SUFFICES ASSUME NEW t \in N
                 PROVE  /\ kernel'[t].pid \in Procs /\ kernel'[t].pid \in N
                        /\ t \in Procs => kernel'[t].pid = t
      OBVIOUS
    <2>1. CASE t = c
      BY <1>4, <1>6, <1>7, <2>1 DEF Tids
    <2>2. CASE t # c
      BY <1>5, <1>7, <2>2 DEF KernelOK, Tids
    <2>3. QED
      BY <2>1, <2>2
  <1>10. \A t \in Tids : /\ kernel'[t].state = "clone" => kernel'[t].child \in Tids
                         /\ kernel'[t].state = "born" => kernel'[t].parent \in Tids
    BY <1>5, <1>6, <1>7 DEF KernelOK
  <1> HIDE DEF N
  <1>11. N \in SUBSET Tids
    BY DEF N
  <1>12. QED
    BY <1>7, <1>8, <1>9, <1>10, <1>11, KernelStep

\* A thread goes on or ends, in its process.
LEMMA StateTyped ==
    ASSUME KernelOK, NEW t \in Tids, InProc(t), NEW x \in Slots,
           x.state \in {"run", "zombie"}, x.pid = kernel[t].pid,
           kernel' = [kernel EXCEPT ![t] = x]
    PROVE  KernelOK'
  <1>1. kernel \in [Tids -> Slots]
    BY DEF KernelOK
  <1>2. kernel' \in [Tids -> Slots] /\ kernel'[t] = x /\ \A u \in Tids \ {t} : kernel'[u] = kernel[u]
    BY <1>1
  <1> DEFINE N == {u \in Tids : InProc(u)}
  <1>3. \A u \in Tids : InProc(u)' <=> u \in N
    BY <1>2, InProcIs
  <1>4. \A u \in N : /\ kernel'[u].pid \in Procs /\ kernel'[u].pid \in N
                     /\ u \in Procs => kernel'[u].pid = u
    BY <1>2 DEF KernelOK, Tids
  <1>5. \A u \in Tids : /\ kernel'[u].state = "clone" => kernel'[u].child \in Tids
                        /\ kernel'[u].state = "born" => kernel'[u].parent \in Tids
    BY <1>2 DEF KernelOK
  <1>6. N \in SUBSET Tids
    OBVIOUS
  <1> HIDE DEF N
  <1>7. QED
    BY <1>2, <1>3, <1>4, <1>5, <1>6, KernelStep

\* A number is gone, and nobody is left in the process of that number.
LEMMA GoneTyped ==
    ASSUME KernelOK, NEW t \in Tids,
           kernel' \in [Tids -> Slots], ~InProc(t)',
           \A u \in Tids \ {t} : /\ kernel'[u].pid = kernel[u].pid /\ (InProc(u)' <=> InProc(u))
                                 /\ kernel'[u] = kernel[u] \/ kernel'[u].state = "run",
           \A u \in Tids \ {t} : InProc(u) => kernel[u].pid # t
    PROVE  KernelOK'
  <1> DEFINE N == {u \in Tids \ {t} : InProc(u)}
  <1>1. \A u \in Tids : InProc(u)' <=> u \in N
    OBVIOUS
  <1>2. \A u \in N : /\ kernel'[u].pid \in Procs /\ kernel'[u].pid \in N
                     /\ u \in Procs => kernel'[u].pid = u
    BY DEF KernelOK, Tids
  <1>3. \A u \in Tids : /\ kernel'[u].state = "clone" => kernel'[u].child \in Tids
                        /\ kernel'[u].state = "born" => kernel'[u].parent \in Tids
    BY InProcIs DEF KernelOK
  <1>4. N \in SUBSET Tids
    OBVIOUS
  <1> HIDE DEF N
  <1>5. QED
    BY <1>1, <1>2, <1>3, <1>4, KernelStep

\* What the threads do keeps the kernel and the queue well-formed.
LEMMA ThreadTyped ==
    ASSUME TypesInv, NEW t \in Tids,
           CloneParent(t) \/ CloneChild(t) \/ Syscall(t) \/ Exit(t)
    PROVE  /\ KernelOK'
           /\ events' \in Seq(Readable) /\ Len(events') <= MaxQueue
           /\ lost' \in 0 .. use.losses
  <1>0. /\ KernelOK /\ use \in Use /\ kernel \in [Tids -> Slots] /\ kernel[t] \in Slots
        /\ \A u \in Tids : kernel[u].state \in {"run", "clone", "born", "zombie"} => InProc(u)
    BY InProcIs DEF TypesInv, KernelOK
  <1>1. CASE CloneParent(t)
    <2> DEFINE c == kernel[t].child
               n == kernel[t].comm
               e == [Event("clone", t) EXCEPT !.ret = c, !.thread = c \in Threads, !.comm = n]
               x == [kernel[t] EXCEPT !.state = "run", !.child = NoTid]
    <2>1. kernel[t].state = "clone" /\ c \in Tids /\ InProc(t)
      BY <1>0, <1>1 DEF CloneParent, KernelOK
    <2>2. Event("clone", t) \in EventType
      BY <1>0, <2>1, EventTyped
    <2>3. c # NoTid /\ (c \in Threads) \in BOOLEAN /\ n \in Nat
      BY <1>0, <2>1, ThreadsAssumption DEF Slots
    <2>4. e \in EventType /\ e.ret = c
      <3> HIDE DEF c, n
      <3>1. ASSUME NEW b \in BOOLEAN
            PROVE  /\ [Event("clone", t) EXCEPT !.ret = c, !.thread = b, !.comm = n] \in EventType
                   /\ [Event("clone", t) EXCEPT !.ret = c, !.thread = b, !.comm = n].ret = c
        BY <2>1, <2>2, <2>3 DEF EventType
      <3>2. QED
        BY <2>3, <3>1
    <2>5. e \in Readable
      BY <2>3, <2>4 DEF Readable
    <2>6. Emit(e)
      BY <1>1 DEF CloneParent
    <2>7. kernel' = [kernel EXCEPT ![t] = x]
      BY <1>0, <1>1 DEF CloneParent
    <2>8. x \in Slots /\ x.state = "run" /\ x.pid = kernel[t].pid
      BY <1>0 DEF Slots
    <2> HIDE DEF e, x, c
    <2>9. KernelOK'
      BY <1>0, <2>1, <2>7, <2>8, StateTyped
    <2>10. QED
      BY <2>5, <2>6, <2>9, EmitTyped
  <1>2. CASE CloneChild(t)
    <2> DEFINE p == kernel[t].parent
               parent == IF Alive(p) THEN p ELSE Root
               n == kernel[t].comm
               e == [Event("clone", t) EXCEPT !.ptid = parent, !.thread = t \in Threads, !.comm = n]
               x == [kernel[t] EXCEPT !.state = "run", !.parent = NoTid]
    <2>1. kernel[t].state = "born" /\ InProc(t) /\ p \in Tids
      BY <1>0, <1>2 DEF CloneChild, KernelOK
    <2>2. Event("clone", t) \in EventType
      BY <1>0, <2>1, EventTyped
    <2>3. parent \in Tids /\ (t \in Threads) \in BOOLEAN /\ n \in Nat
      BY <1>0, <2>1, ThreadsAssumption DEF Slots, Tids
    <2>4. Emit(e)
      BY <1>2 DEF CloneChild
    <2>5. kernel' = [kernel EXCEPT ![t] = x]
      BY <1>0, <1>2 DEF CloneChild
    <2> HIDE DEF parent, n
    <2>6. e \in EventType /\ e.ptid = parent
      BY <2>2, <2>3 DEF EventType
    <2>7. e \in Readable
      BY <2>3, <2>6 DEF Readable
    <2>8. x \in Slots /\ x.state = "run" /\ x.pid = kernel[t].pid
      BY <1>0 DEF Slots
    <2> HIDE DEF e, x
    <2>9. KernelOK'
      BY <1>0, <2>1, <2>5, <2>8, StateTyped
    <2>10. QED
      BY <2>4, <2>7, <2>9, EmitTyped
  <1>3. CASE Syscall(t)
    <2>1. Emit(Event("syscall", t)) /\ InProc(t) /\ kernel' = kernel
      BY <1>0, <1>3 DEF Syscall
    <2>2. Event("syscall", t) \in Readable
      BY <1>0, <2>1, EventTyped DEF Readable, Event
    <2>3. KernelOK'
      BY <1>0, <2>1 DEF KernelOK, InProc, Alive
    <2>4. QED
      BY <2>1, <2>2, <2>3, EmitTyped
  <1>4. CASE Exit(t)
    <2> DEFINE x == [kernel[t] EXCEPT !.state = "zombie"]
    <2>1. Emit(Event("exit", t)) /\ InProc(t)
      BY <1>0, <1>4 DEF Exit
    <2>2. Event("exit", t) \in Readable
      BY <1>0, <2>1, EventTyped DEF Readable, Event
    <2>3. kernel' = [kernel EXCEPT ![t] = x]
      BY <1>0, <1>4 DEF Exit
    <2>4. x \in Slots /\ x.state = "zombie" /\ x.pid = kernel[t].pid
      BY <1>0 DEF Slots
    <2> HIDE DEF x
    <2>5. KernelOK'
      BY <1>0, <2>1, <2>3, <2>4, StateTyped
    <2>6. QED
      BY <2>1, <2>2, <2>5, EmitTyped
  <1>5. QED
    BY <1>1, <1>2, <1>3, <1>4

\* A thread takes another name.
LEMMA RenameTyped ==
    ASSUME KernelOK, NEW t \in Tids, NEW n \in Nat, Rename(t, n)
    PROVE  KernelOK'
  <1> DEFINE x == [kernel[t] EXCEPT !.comm = n, !.renamed = TRUE]
  <1>1. kernel \in [Tids -> Slots] /\ kernel[t].state = "run" /\ InProc(t)
    BY InProcIs DEF KernelOK, Rename
  <1>2. kernel' = [kernel EXCEPT ![t] = x]
    BY <1>1 DEF Rename
  <1>3. x \in Slots /\ x.state = "run" /\ x.pid = kernel[t].pid
    BY <1>1 DEF Slots
  <1> HIDE DEF x
  <1>4. QED
    BY <1>1, <1>2, <1>3, StateTyped

\* execve: the number of the thread that called it is gone, or the same.
LEMMA ExecTyped ==
    ASSUME TypesInv, NEW t \in Tids, NEW n \in Nat, Exec(t, n)
    PROVE  /\ KernelOK'
           /\ events' \in Seq(Readable) /\ Len(events') <= MaxQueue
           /\ lost' \in 0 .. use.losses
  <1> DEFINE p == kernel[t].pid
             e == [Event("execve", p) EXCEPT !.comm = n]
             x == Runs(p, n)
             g == Slot("gone")
  <1>1. KernelOK /\ kernel \in [Tids -> Slots] /\ kernel[t].state = "run" /\ InProc(t)
    BY InProcIs DEF TypesInv, KernelOK, Exec
  <1>2. p \in Procs /\ p \in Tids /\ InProc(p) /\ kernel[p].pid = p
    BY <1>1 DEF KernelOK, Tids
  <1>3. /\ \A u \in Group(p) \ {t} : kernel[u].state = "zombie" /\ u = p
        /\ Emit(e)
        /\ kernel' = [u \in Tids |-> IF u = p THEN x ELSE IF u = t THEN g ELSE kernel[u]]
    BY DEF Exec
  <1> HIDE DEF p
  <1>4. e \in Readable
    <2>1. Event("execve", p) \in EventType
      BY <1>1, <1>2, EventTyped
    <2>2. e \in EventType
      BY <2>1 DEF EventType
    <2>3. e.kind = "execve"
      BY DEF Event
    <2>4. QED
      BY <2>2, <2>3 DEF Readable
  <1>5. x \in Slots /\ x.state = "run" /\ x.pid = p
    BY <1>2 DEF Runs, Slot, Slots
  <1>6. g \in Slots /\ g.state = "gone"
    BY DEF Slots, Slot, NoName
  <1> HIDE DEF e, x, g
  <1>7. CASE t = p
    <2>1. kernel' = [kernel EXCEPT ![p] = x]
      BY <1>1, <1>3, <1>7
    <2>2. KernelOK'
      BY <1>1, <1>2, <1>5, <2>1, StateTyped
    <2>3. QED
      BY <1>3, <1>4, <2>2, EmitTyped
  <1>8. CASE t # p
    <2>1. kernel[p].state = "zombie"
      BY <1>2, <1>3, <1>8 DEF Group
    <2>2. /\ kernel' \in [Tids -> Slots] /\ kernel'[t] = g /\ kernel'[p] = x
          /\ \A u \in Tids \ {t, p} : kernel'[u] = kernel[u]
      BY <1>1, <1>2, <1>3, <1>5, <1>6, <1>8
    <2>3. ~InProc(t)'
      BY <1>6, <2>2, InProcIs
    <2>4. \A u \in Tids \ {t} : /\ kernel'[u].pid = kernel[u].pid /\ (InProc(u)' <=> InProc(u))
                                /\ kernel'[u] = kernel[u] \/ kernel'[u].state = "run"
      BY <1>2, <1>5, <2>1, <2>2, InProcIs
    <2>5. \A u \in Tids \ {t} : InProc(u) => kernel[u].pid # t
      BY <1>1, <1>8 DEF KernelOK, p
    <2>6. KernelOK'
      BY <1>1, <2>2, <2>3, <2>4, <2>5, GoneTyped
    <2>7. QED
      BY <1>3, <1>4, <2>6, EmitTyped
  <1>9. QED
    BY <1>7, <1>8

\* A zombie is reaped.
LEMMA ReapTyped ==
    ASSUME KernelOK, NEW t \in Tids, Reap(t)
    PROVE  KernelOK'
  <1> DEFINE g == Slot("gone")
  <1>1. /\ kernel \in [Tids -> Slots] /\ kernel' = [kernel EXCEPT ![t] = g]
        /\ Group(t) \subseteq {t}
    BY DEF KernelOK, Reap
  <1>2. g \in Slots /\ g.state = "gone"
    BY DEF Slots, Slot, NoName
  <1> HIDE DEF g
  <1>3. /\ kernel' \in [Tids -> Slots] /\ kernel'[t] = g
        /\ \A u \in Tids \ {t} : kernel'[u] = kernel[u]
    BY <1>1, <1>2
  <1>4. ~InProc(t)'
    BY <1>2, <1>3, InProcIs
  <1>5. \A u \in Tids \ {t} : /\ kernel'[u].pid = kernel[u].pid /\ (InProc(u)' <=> InProc(u))
                              /\ kernel'[u] = kernel[u] \/ kernel'[u].state = "run"
    BY <1>3, InProcIs
  <1>6. \A u \in Tids \ {t} : InProc(u) => kernel[u].pid # t
    BY <1>1 DEF Group
  <1>7. QED
    BY <1>3, <1>4, <1>5, <1>6, GoneTyped

\* Time passes.
LEMMA TickTyped ==
    ASSUME TypesInv, NEW long \in BOOLEAN, Tick(long)
    PROVE  KernelOK' /\ table' \in Good /\ scanDue' \in BOOLEAN
  <1>1. /\ KernelOK /\ use \in Use /\ table \in Good /\ scanDue \in BOOLEAN
        /\ kernel \in [Tids -> Slots]
    BY DEF TypesInv, KernelOK, Good
  <1>2. KernelOK'
    <2>1. Slot("free") \in Slots /\ Slot("free").state = "free"
      BY DEF Slots, Slot, NoName
    <2>2. kernel' = [t \in Tids |-> IF kernel[t].state = "gone" /\ use.reuse THEN Slot("free") ELSE kernel[t]]
      BY DEF Tick
    <2>3. kernel' \in [Tids -> Slots]
      BY <1>1, <2>1, <2>2
    <2> DEFINE N == {t \in Tids : InProc(t)}
    <2>4. \A t \in Tids : /\ InProc(t)' <=> t \in N
                          /\ kernel'[t] = kernel[t] \/ kernel'[t].state = "free"
      BY <2>1, <2>2, InProcIs
    <2>5. \A t \in N : kernel'[t] = kernel[t]
      BY <2>4, InProcIs
    <2>6. \A t \in N : /\ kernel'[t].pid \in Procs /\ kernel'[t].pid \in N
                       /\ t \in Procs => kernel'[t].pid = t
      BY <1>1, <2>5 DEF KernelOK, Tids
    <2>7. \A t \in Tids : /\ kernel'[t].state = "clone" => kernel'[t].child \in Tids
                          /\ kernel'[t].state = "born" => kernel'[t].parent \in Tids
      BY <1>1, <2>4 DEF KernelOK
    <2>8. N \in SUBSET Tids
      OBVIOUS
    <2> HIDE DEF N
    <2>9. QED
      BY <2>3, <2>4, <2>6, <2>7, <2>8, KernelStep
  <1>3. table' \in Good
    <2> DEFINE r(t) == [table[t] EXCEPT !.cloned = IF @ = "new" THEN "old" ELSE @, !.idle = @ \/ long]
    <2>1. table' = [t \in DOMAIN table |-> r(t)]
      BY DEF Tick
    <2>2. \A t \in DOMAIN table : table[t] \in EntryType
      BY <1>1, GoodIs
    <2>3. \A t \in DOMAIN table : r(t) \in EntryType
      <3>1. ASSUME NEW x \in EntryType, NEW c \in {"none", "proc", "new", "old"}, NEW b \in BOOLEAN
            PROVE  [x EXCEPT !.cloned = c, !.idle = b] \in EntryType
        BY DEF EntryType
      <3>2. ASSUME NEW x \in EntryType
            PROVE  /\ (IF x.cloned = "new" THEN "old" ELSE x.cloned) \in {"none", "proc", "new", "old"}
                   /\ (x.idle \/ long) \in BOOLEAN
        BY DEF EntryType
      <3>3. QED
        BY <2>2, <3>1, <3>2
    <2> HIDE DEF r
    <2>4. /\ DOMAIN table' = DOMAIN table /\ table' = [t \in DOMAIN table' |-> table'[t]]
          /\ \A t \in DOMAIN table' : table'[t] \in EntryType
      BY <2>1, <2>3
    <2>5. table' \in Tables
      BY <1>1, <2>4, GoodIs, TableIs
    <2>6. QED
      BY <1>1, <2>4, <2>5 DEF Good, Sized
  <1>4. QED
    BY <1>1, <1>2, <1>3 DEF Tick

\* sinsp::next.
LEMMA NextTyped ==
    ASSUME TypesInv, NEW o \in Oracle, next(o)
    PROVE  /\ table' \in Good
           /\ events' \in Seq(Readable) /\ Len(events') <= MaxQueue
           /\ tidToRemove' \in Tids \cup {NoTid} /\ scanDue' \in BOOLEAN
  <1> DEFINE e == Head(events)
             S == remove_thread(table, tidToRemove, FALSE, o)
             R == remove_inactive_threads(S, o)
             T == reset(R, e)
  <1>1. /\ KernelOK /\ use \in Use /\ table \in Good
        /\ events \in Seq(Readable) /\ Len(events) <= MaxQueue /\ events # <<>>
    BY DEF TypesInv, Good, next
  <1>2. /\ e \in Readable /\ Tail(events) \in Seq(Readable)
        /\ Len(Tail(events)) <= MaxQueue
    <2>1. e \in Readable /\ Tail(events) \in Seq(Readable) /\ Len(events) \in Nat
      BY <1>1
    <2>2. Len(Tail(events)) = Len(events) - 1
      BY <1>1
    <2>3. MaxQueue \in Nat
      BY ThreadsAssumption
    <2>4. QED
      BY <1>1, <2>1, <2>2, <2>3
  <1>3. S \in Good
    BY <1>1, RemoveTyped
  <1>4. /\ table' = process_event(T, e, o)
        /\ tidToRemove' = IF e.kind = "exit" /\ e.tid \in DOMAIN T THEN e.tid ELSE NoTid
        /\ events' = Tail(events) /\ scanDue' = FALSE
    BY DEF next
  <1> HIDE DEF e, S
  <1>5. R \in Good
    BY <1>1, <1>3, ScanTyped
  <1> HIDE DEF R
  <1>6. T \in Good
    BY <1>1, <1>2, <1>5, ResetTyped
  <1> HIDE DEF T
  <1>7. table' \in Good
    BY <1>1, <1>2, <1>4, <1>6, ProcessTyped
  <1>8. e.tid \in Tids
    BY <1>2 DEF Readable, EventType
  <1>9. QED
    BY <1>2, <1>4, <1>7, <1>8

\* Every step keeps the types.
LEMMA TypesStep ==
    ASSUME TypesInv, [Next]_vars
    PROVE  TypesInv'
  <1> USE DEF Good
  <1>0. use' = use => (Sized(use.limit + 1))' = Sized(use.limit + 1)
    BY DEF Sized, Tables, EntryType, Tids
  <1>1. ASSUME NEW p \in Tids, NEW c \in Tids, Clone(p, c)
        PROVE  TypesInv'
    <2>1. KernelOK'
      BY <1>1, CloneTyped DEF TypesInv
    <2>2. UNCHANGED <<use, events, lost, inspectorVars>>
      BY <1>1 DEF Clone
    <2>3. QED
      BY <1>0, <2>1, <2>2 DEF TypesInv, inspectorVars
  <1>2. ASSUME NEW t \in Tids, CloneParent(t) \/ CloneChild(t) \/ Syscall(t) \/ Exit(t)
        PROVE  TypesInv'
    <2>1. /\ KernelOK'
          /\ events' \in Seq(Readable) /\ Len(events') <= MaxQueue
          /\ lost' \in 0 .. use.losses
      BY <1>2, ThreadTyped
    <2>2. UNCHANGED <<use, inspectorVars>>
      BY <1>2 DEF CloneParent, CloneChild, Syscall, Exit
    <2>3. QED
      BY <1>0, <2>1, <2>2 DEF TypesInv, inspectorVars
  <1>n. \A n \in use.names : n \in Nat
    BY DEF TypesInv, Use
  <1>r. ASSUME NEW t \in Tids, NEW n \in use.names, Rename(t, n)
        PROVE  TypesInv'
    <2>1. KernelOK'
      BY <1>n, <1>r, RenameTyped DEF TypesInv
    <2>2. UNCHANGED <<use, events, lost, inspectorVars>>
      BY <1>r DEF Rename
    <2>3. QED
      BY <1>0, <2>1, <2>2 DEF TypesInv, inspectorVars
  <1>3. ASSUME NEW t \in Tids, NEW n \in use.names, Exec(t, n)
        PROVE  TypesInv'
    <2>1. /\ KernelOK'
          /\ events' \in Seq(Readable) /\ Len(events') <= MaxQueue
          /\ lost' \in 0 .. use.losses
      BY <1>n, <1>3, ExecTyped
    <2>2. UNCHANGED <<use, inspectorVars>>
      BY <1>3 DEF Exec
    <2>3. QED
      BY <1>0, <2>1, <2>2 DEF TypesInv, inspectorVars
  <1>4. ASSUME NEW t \in Tids, Reap(t)
        PROVE  TypesInv'
    <2>1. KernelOK'
      BY <1>4, ReapTyped DEF TypesInv
    <2>2. UNCHANGED <<use, events, lost, inspectorVars>>
      BY <1>4 DEF Reap
    <2>3. QED
      BY <1>0, <2>1, <2>2 DEF TypesInv, inspectorVars
  <1>5. ASSUME NEW long \in BOOLEAN, Tick(long)
        PROVE  TypesInv'
    <2>1. KernelOK' /\ table' \in Good /\ scanDue' \in BOOLEAN
      BY <1>5, TickTyped
    <2>2. UNCHANGED <<use, events, lost, tidToRemove>>
      BY <1>5 DEF Tick
    <2>3. QED
      BY <1>0, <2>1, <2>2 DEF TypesInv
  <1>6. ASSUME NEW o \in Oracle, next(o)
        PROVE  TypesInv'
    <2>1. /\ table' \in Good
          /\ events' \in Seq(Readable) /\ Len(events') <= MaxQueue
          /\ tidToRemove' \in Tids \cup {NoTid} /\ scanDue' \in BOOLEAN
      BY <1>6, NextTyped
    <2>2. UNCHANGED <<use, kernel, lost>>
      BY <1>6 DEF next
    <2>3. KernelOK'
      BY <2>2 DEF TypesInv, KernelOK, InProc, Alive
    <2>4. QED
      BY <1>0, <2>1, <2>2, <2>3 DEF TypesInv
  <1>7. CASE UNCHANGED vars
    BY <1>0, <1>7 DEF TypesInv, vars, KernelOK, InProc, Alive
  <1>8. QED
    BY <1>1, <1>2, <1>r, <1>3, <1>4, <1>5, <1>6, <1>7 DEF Next, Kernel

\* The capture begins with well-formed state.
LEMMA TypesStart ==
    ASSUME Init
    PROVE  TypesInv
  <1>1. use \in Use /\ use.limit \in Nat /\ use.losses \in Nat
    BY ThreadsAssumption DEF Init, Use
  <1>2. Root \in Procs /\ Root \in Tids
    BY ThreadsAssumption DEF Tids
  <1>3. kernel = [t \in Tids |-> IF t = Root THEN Runs(t, RootName) ELSE Slot("free")]
    BY DEF Init
  <1>4. /\ Slot("free") \in Slots /\ Slot("free").state = "free"
        /\ Runs(Root, RootName) \in Slots /\ Runs(Root, RootName).state = "run" /\ Runs(Root, RootName).pid = Root
    BY <1>2, ThreadsAssumption DEF Slots, Slot, Runs, NoName
  <1>5. kernel \in [Tids -> Slots] /\ kernel[Root] = Runs(Root, RootName)
        /\ \A t \in Tids \ {Root} : kernel[t] = Slot("free")
    BY <1>2, <1>3, <1>4
  <1>6. \A t \in Tids : InProc(t) <=> t = Root
    BY <1>2, <1>4, <1>5, InProcIs
  <1>7. KernelOK
    BY <1>2, <1>4, <1>5, <1>6 DEF KernelOK
  <1>8. table \in Tables /\ DOMAIN table = {Root}
    <2>1. Entry(Root, FALSE, RootName) \in EntryType
      BY <1>2, EntryTyped, ThreadsAssumption
    <2>2. table = [t \in {Root} |-> Entry(Root, FALSE, RootName)]
      BY DEF Init
    <2>3. DOMAIN table = {Root} /\ table = [t \in DOMAIN table |-> table[t]] /\ table[Root] \in EntryType
      BY <2>1, <2>2
    <2>4. QED
      BY <1>2, <2>3, TableIs
  <1>9. table \in Sized(use.limit + 1)
    <2>1. Cardinality(DOMAIN table) = 1
      BY <1>8, FS_Singleton
    <2>2. 1 <= use.limit + 1
      BY <1>1
    <2>3. QED
      BY <1>8, <2>1, <2>2 DEF Sized
  <1>10. events \in Seq(Readable) /\ Len(events) <= MaxQueue /\ lost \in 0 .. use.losses
    <2>1. MaxQueue \in Nat /\ events = <<>> /\ lost = 0
      BY ThreadsAssumption DEF Init
    <2>2. QED
      BY <1>1, <2>1
  <1>11. QED
    BY <1>1, <1>7, <1>9, <1>10 DEF TypesInv, Init

\* Types hold: in particular m_nchilds is a number in every state, however events are
\* lost and numbers used again, and the table has never more entries than
\* m_max_thread_table_size and one.
THEOREM TypesHold == Spec => []TypeOK
  <1>1. Init => TypesInv
    BY TypesStart
  <1>2. TypesInv /\ [Next]_vars => TypesInv'
    BY TypesStep
  <1>3. TypesInv => TypeOK
    <2> SUFFICES ASSUME TypesInv
                 PROVE  TypeOK
      OBVIOUS
    <2>1. table \in Good
      BY DEF TypesInv, Good
    <2>2. Cardinality(DOMAIN table) <= use.limit + 1
      BY <2>1 DEF Good, Sized
    <2>3. DOMAIN table \subseteq Tids /\ \A t \in DOMAIN table : table[t] \in EntryType
      BY <2>1, GoodIs
    <2>4. QED
      BY <2>2, <2>3 DEF TypesInv, TypeOK
  <1>4. QED
    BY <1>1, <1>2, <1>3, PTL DEF Spec
=============================================================================
