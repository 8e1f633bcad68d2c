--------------------------- MODULE SinspFdsProofs ---------------------------
(***************************************************************************)
(* The table of file descriptors for any number of threads, descriptors,   *)
(* files and calls, in three parts.  What the operations and the parsers   *)
(* do to what the table says of the files; what every step keeps of it,    *)
(* when no event is lost and no descriptor is copied (no entry stays       *)
(* wrong, no read is taken for one of another file) and when events are    *)
(* (a process with one thread heals); and that, whatever is lost, the      *)
(* cache and the removals put off name entries that exist, and the size    *)
(* of the table is kept.                                                   *)
(***************************************************************************)
EXTENDS SinspFds, FiniteSetTheorems, TLAPS

\* Each leaf is tried with Zenon, then with SMT, and then with both for longer.
USE ZenonT(2), SMTT(30), ZenonT(20), SMTT(60)

---------------------------------------------------------------------------
\* What the operations do

Numbers(F) == DOMAIN F.m_table

AnyFd == Fds \cup {CANCELED_FD_NUMBER}
Info == [file : Files, closing : BOOLEAN, canceled : BOOLEAN]

\* A table of descriptors.
Typed(F) ==
    /\ DOMAIN F = {"m_table", "cached"}
    /\ Numbers(F) \subseteq AnyFd
    /\ F.m_table = [x \in Numbers(F) |-> F.m_table[x]]
    /\ \A x \in Numbers(F) : F.m_table[x] \in Info

\* Two tables that say the same of the files.
SameFiles(F, G) ==
    /\ Numbers(G) = Numbers(F)
    /\ \A x \in Numbers(F) : G.m_table[x].file = F.m_table[x].file

\* G says the same as F of all numbers but fd, of which it says file, or nothing.
GivenFile(F, G, fd, file) ==
    /\ \A x \in Fds \ {fd} : /\ x \in Numbers(G) <=> x \in Numbers(F)
                             /\ x \in Numbers(F) => G.m_table[x].file = F.m_table[x].file
    /\ fd \in Numbers(G) => G.m_table[fd].file = file

\* There is room for every descriptor in the table, always.
Roomy ==
    \A F : \A fd \in Fds : Typed(F) /\ fd \notin Numbers(F) => Cardinality(Numbers(F)) < use.limit

\* Min finds the lowest number that is free.
MinProper == \A S : S \subseteq Nat /\ S # {} => Min(S) \in S

---------------------------------------------------------------------------
\* The operations of the table

\* The number of the canceled close is not one of a descriptor.
LEMMA Fdss == CANCELED_FD_NUMBER \notin Fds /\ None \notin Fds
  BY FdsAssumption

\* Nor is it the one that stands for none.
LEMMA CanceledNotNone == CANCELED_FD_NUMBER # None
  BY DEF CANCELED_FD_NUMBER, None

\* find moves the cache only.
LEMMA FindFiles ==
    ASSUME NEW F, NEW fd, Typed(F)
    PROVE  Typed(find(F, fd)) /\ SameFiles(F, find(F, fd)) /\ find(F, fd).m_table = F.m_table
  BY DEF Typed, SameFiles, find, Has, Numbers

\* Mark changes a flag of an entry.
LEMMA MarkFiles ==
    ASSUME NEW F, NEW fd, NEW flag, NEW b \in BOOLEAN, Typed(F), fd \in Numbers(F)
    PROVE  /\ Typed(Mark(F, fd, flag, b)) /\ SameFiles(F, Mark(F, fd, flag, b))
           /\ flag = "canceled" => Mark(F, fd, flag, b).m_table[fd].canceled = b
  <1> DEFINE i == F.m_table[fd]
             j == IF flag = "closing" THEN [i EXCEPT !.closing = b] ELSE [i EXCEPT !.canceled = b]
             G == Mark(F, fd, flag, b)
  <1>1. i \in Info
    BY DEF Typed
  <1>2. j \in Info /\ j.file = i.file /\ (flag = "canceled" => j.canceled = b)
    BY <1>1 DEF Info
  <1>3. DOMAIN G = {"m_table", "cached"} /\ G.m_table = [F.m_table EXCEPT ![fd] = j]
    BY DEF Mark, Typed, Numbers
  <1>4. Numbers(G) = Numbers(F)
    BY <1>3 DEF Numbers
  <1> HIDE DEF G, j, i
  <1>5. \A x \in Numbers(F) : G.m_table[x] = IF x = fd THEN j ELSE F.m_table[x]
    BY <1>3 DEF Numbers
  <1>6. Typed(G)
    BY <1>2, <1>3, <1>4, <1>5 DEF Typed, Numbers
  <1>7. SameFiles(F, G)
    BY <1>2, <1>4, <1>5 DEF SameFiles, i
  <1>8. QED
    BY <1>2, <1>5, <1>6, <1>7 DEF G

\* What Put adds.
LEMMA PutNumbers ==
    ASSUME NEW F, NEW fd, NEW info, DOMAIN F = {"m_table", "cached"}
    PROVE  /\ DOMAIN Put(F, fd, info) = {"m_table", "cached"}
           /\ Put(F, fd, info).cached = F.cached
           /\ Numbers(Put(F, fd, info)) = Numbers(F) \cup {fd}
  BY DEF Put, Numbers

\* Put gives a number its entry.
LEMMA PutFiles ==
    ASSUME NEW F, NEW fd \in AnyFd, NEW info \in Info, Typed(F)
    PROVE  /\ Typed(Put(F, fd, info))
           /\ Numbers(Put(F, fd, info)) = Numbers(F) \cup {fd}
           /\ \A x \in Numbers(F) \cup {fd} :
                 Put(F, fd, info).m_table[x] = IF x = fd THEN info ELSE F.m_table[x]
  <1> DEFINE G == Put(F, fd, info)
  <1>1. DOMAIN G = {"m_table", "cached"} /\ Numbers(G) = Numbers(F) \cup {fd}
    BY PutNumbers DEF Typed
  <1>2. G.m_table = [x \in Numbers(F) \cup {fd} |-> IF x = fd THEN info ELSE F.m_table[x]]
    BY DEF Put, Typed, Numbers
  <1> HIDE DEF G
  <1>3. \A x \in Numbers(G) : G.m_table[x] \in Info
    BY <1>1, <1>2 DEF Typed
  <1>4. Typed(G)
    BY <1>1, <1>2, <1>3 DEF Typed
  <1>5. QED
    BY <1>1, <1>2, <1>4 DEF G

\* add gives a descriptor its entry, if it has one already or there is room; the one
\* that it replaces may be kept under the number of the canceled close.
LEMMA AddFiles ==
    ASSUME NEW F, NEW fd \in Fds, NEW info \in Info, Typed(F)
    PROVE  /\ Typed(add(F, fd, info))
           /\ GivenFile(F, add(F, fd, info), fd, info.file)
           /\ fd \in Numbers(F) \/ Cardinality(Numbers(F)) < use.limit => fd \in Numbers(add(F, fd, info))
           /\ Numbers(F) \subseteq Numbers(add(F, fd, info))
  <1> DEFINE G == add(F, fd, info)
             new == [info EXCEPT !.closing = FALSE, !.canceled = TRUE]
             C == Put(F, CANCELED_FD_NUMBER, F.m_table[fd])
  <1>0. fd # CANCELED_FD_NUMBER /\ fd \in AnyFd /\ CANCELED_FD_NUMBER \in AnyFd
        /\ CANCELED_FD_NUMBER \notin Fds
    BY Fdss DEF AnyFd
  <1>1. new \in Info /\ new.file = info.file
    BY DEF Info
  <1>2. CASE fd \notin Numbers(F)
    <2>1. CASE Cardinality(Numbers(F)) < use.limit
      <3> DEFINE P == Put(F, fd, info)
      <3>1. G = [P EXCEPT !.cached = None]
        BY <1>2, <2>1 DEF add, Has, Numbers
      <3>2. Typed(P) /\ Numbers(P) = Numbers(F) \cup {fd}
            /\ \A x \in Numbers(F) \cup {fd} : P.m_table[x] = IF x = fd THEN info ELSE F.m_table[x]
        BY <1>0, PutFiles
      <3> HIDE DEF P, G
      <3>3. Typed(G) /\ G.m_table = P.m_table /\ Numbers(G) = Numbers(P)
        BY <3>1, <3>2 DEF Typed, Numbers
      <3>4. GivenFile(F, G, fd, info.file) /\ fd \in Numbers(G) /\ Numbers(F) \subseteq Numbers(G)
        BY <3>2, <3>3 DEF GivenFile
      <3>5. QED
        BY <3>3, <3>4 DEF G
    <2>2. CASE ~(Cardinality(Numbers(F)) < use.limit)
      <3>1. G = F
        BY <1>2, <2>2 DEF add, Has, Numbers
      <3>2. QED
        BY <1>2, <2>2, <3>1 DEF GivenFile
    <2>3. QED
      BY <2>1, <2>2
  <1>3. CASE fd \in Numbers(F)
    <2>0. F.m_table[fd] \in Info
      BY <1>3 DEF Typed
    <2>1. CASE F.m_table[fd].closing
      <3>1. G = Put(C, fd, new)
        BY <1>3, <2>1 DEF add, Has, Numbers
      <3>2. /\ Typed(C) /\ Numbers(C) = Numbers(F) \cup {CANCELED_FD_NUMBER}
            /\ \A x \in Numbers(F) : x # CANCELED_FD_NUMBER => C.m_table[x] = F.m_table[x]
        BY <1>0, <2>0, PutFiles
      <3> HIDE DEF C, new, G
      <3>a. fd \in AnyFd /\ new \in Info /\ Typed(C)
        BY <1>0, <1>1, <3>2
      <3>3. /\ Typed(G) /\ Numbers(G) = Numbers(C) \cup {fd}
            /\ \A x \in Numbers(C) \cup {fd} : G.m_table[x] = IF x = fd THEN new ELSE C.m_table[x]
        BY <3>a, <3>1, PutFiles
      <3>4. GivenFile(F, G, fd, info.file) /\ fd \in Numbers(G) /\ Numbers(F) \subseteq Numbers(G)
        BY <1>0, <1>1, <3>2, <3>3 DEF GivenFile
      <3>5. QED
        BY <3>3, <3>4 DEF G
    <2>2. CASE ~F.m_table[fd].closing
      <3>1. G = Put(F, fd, info)
        BY <1>3, <2>2 DEF add, Has, Numbers
      <3> HIDE DEF G
      <3>2. /\ Typed(G) /\ Numbers(G) = Numbers(F) \cup {fd}
            /\ \A x \in Numbers(F) \cup {fd} : G.m_table[x] = IF x = fd THEN info ELSE F.m_table[x]
        BY <1>0, <3>1, PutFiles
      <3>3. GivenFile(F, G, fd, info.file) /\ fd \in Numbers(G) /\ Numbers(F) \subseteq Numbers(G)
        BY <3>2 DEF GivenFile
      <3>4. QED
        BY <3>2, <3>3 DEF G
    <2>3. QED
      BY <2>1, <2>2
  <1>4. QED
    BY <1>2, <1>3

\* erase takes the entries away.
LEMMA EraseFiles ==
    ASSUME NEW F, NEW fds, Typed(F)
    PROVE  /\ Typed(erase(F, fds)) /\ Numbers(erase(F, fds)) = Numbers(F) \ fds
           /\ \A x \in Numbers(F) \ fds : erase(F, fds).m_table[x] = F.m_table[x]
  <1> DEFINE G == erase(F, fds)
  <1>1. DOMAIN G = {"m_table", "cached"} /\ G.m_table = [x \in Numbers(F) \ fds |-> F.m_table[x]]
    BY DEF erase, Typed, Numbers
  <1>2. Numbers(G) = Numbers(F) \ fds
    BY <1>1 DEF Numbers
  <1> HIDE DEF G
  <1>3. Typed(G)
    BY <1>1, <1>2 DEF Typed
  <1>4. QED
    BY <1>1, <1>2, <1>3 DEF G

---------------------------------------------------------------------------
\* The state that the parsers work on

StateTyped(S) ==
    /\ DOMAIN S = {"fdt", "toRemove", "last", "info"}
    /\ DOMAIN S.last = {"type", "fd", "data"}
    /\ Typed(S.fdt)
    /\ S.info = None \/ S.info \in Numbers(S.fdt)
    /\ S.last.fd \in Fds \cup {None}
    /\ S.last.data.type = "openat" => S.last.data.file \in Files

\* The descriptors the table knows, and the file of one.
Known(S) == (Fds \cap Numbers(S.fdt)) \ S.toRemove
Says(S, fd) == S.fdt.m_table[fd].file

\* An event that changes nothing of this, and one that gives a number a file.
SameKnown(S, T) ==
    /\ Known(T) = Known(S)
    /\ \A x \in Known(S) : Says(T, x) = Says(S, x)
GivenKnown(S, T, fd, file) ==
    /\ \A x \in Fds \ {fd} : /\ x \in Known(T) <=> x \in Known(S)
                             /\ x \in Known(S) => Says(T, x) = Says(S, x)
    /\ fd \in Known(T) => Says(T, fd) = file

\* The removals that were put off were of entries that do not count any more.
LEMMA RemoveFiles ==
    ASSUME NEW S, StateTyped(S), S.info = None
    PROVE  /\ StateTyped(remove_fds(S)) /\ SameKnown(S, remove_fds(S))
           /\ remove_fds(S).toRemove = {} /\ remove_fds(S).last = S.last
           /\ remove_fds(S).info = None
           /\ Known(S) = Fds \cap Numbers(remove_fds(S).fdt)
  <1> DEFINE F == erase(S.fdt, S.toRemove)
             R == remove_fds(S)
  <1>1. R = [S EXCEPT !.fdt = F, !.toRemove = {}]
    BY DEF remove_fds
  <1>2. /\ Typed(F) /\ Numbers(F) = Numbers(S.fdt) \ S.toRemove
        /\ \A x \in Numbers(F) : F.m_table[x] = S.fdt.m_table[x]
    BY EraseFiles DEF StateTyped
  <1> HIDE DEF F, R
  <1>3. R.fdt = F /\ R.toRemove = {} /\ R.last = S.last /\ R.info = None
        /\ DOMAIN R = {"fdt", "toRemove", "last", "info"}
    BY <1>1 DEF StateTyped
  <1>4. StateTyped(R)
    BY <1>2, <1>3 DEF StateTyped
  <1>5. Known(R) = Fds \cap Numbers(F) /\ Known(S) = Fds \cap Numbers(F)
    BY <1>2, <1>3 DEF Known
  <1>6. SameKnown(S, R)
    BY <1>2, <1>3, <1>5 DEF SameKnown, Says
  <1>7. QED
    BY <1>3, <1>4, <1>5, <1>6 DEF R

\* get_fd looks an entry up.
LEMMA GetFiles ==
    ASSUME NEW S, NEW fd, StateTyped(S)
    PROVE  /\ StateTyped(get_fd(S, fd)) /\ SameFiles(S.fdt, get_fd(S, fd).fdt)
           /\ get_fd(S, fd).fdt.m_table = S.fdt.m_table
           /\ get_fd(S, fd).toRemove = S.toRemove /\ get_fd(S, fd).last = S.last
           /\ get_fd(S, fd).info = IF fd \in Numbers(S.fdt) THEN fd ELSE None
  <1> DEFINE F == find(S.fdt, fd)
             G == get_fd(S, fd)
  <1>1. Typed(F) /\ SameFiles(S.fdt, F) /\ F.m_table = S.fdt.m_table
    BY FindFiles DEF StateTyped
  <1>2. G = [S EXCEPT !.fdt = F, !.info = IF fd \in Numbers(S.fdt) THEN fd ELSE None]
    BY DEF get_fd, Has, Numbers
  <1> HIDE DEF F, G
  <1>3. /\ G.fdt = F /\ G.toRemove = S.toRemove /\ G.last = S.last
        /\ G.info = IF fd \in Numbers(S.fdt) THEN fd ELSE None
        /\ DOMAIN G = {"fdt", "toRemove", "last", "info"}
    BY <1>2 DEF StateTyped
  <1>4. StateTyped(G)
    BY <1>1, <1>3 DEF StateTyped, SameFiles
  <1>5. QED
    BY <1>1, <1>3, <1>4 DEF G

\* A table that says the same.
LEMMA WithFiles ==
    ASSUME NEW S, NEW F, StateTyped(S), Typed(F), SameFiles(S.fdt, F)
    PROVE  LET T == [S EXCEPT !.fdt = F]
           IN  /\ StateTyped(T) /\ SameKnown(S, T) /\ T.fdt = F
               /\ T.toRemove = S.toRemove /\ T.last = S.last /\ T.info = S.info
  <1> DEFINE T == [S EXCEPT !.fdt = F]
  <1>1. /\ T.fdt = F /\ T.toRemove = S.toRemove /\ T.last = S.last /\ T.info = S.info
        /\ DOMAIN T = {"fdt", "toRemove", "last", "info"}
    BY DEF StateTyped
  <1> HIDE DEF T
  <1>2. StateTyped(T)
    BY <1>1 DEF StateTyped, SameFiles
  <1>3. SameKnown(S, T)
    BY <1>1 DEF SameKnown, Known, Says, SameFiles
  <1>4. QED
    BY <1>1, <1>2, <1>3 DEF T

\* The events of a call as the parsers see them.
EventTyped(e) ==
    /\ e.op \in Ops
    /\ e.fd \in Fds \cup {None} /\ e.ret \in Fds \cup {None}
    /\ e.op = "openat" => e.file \in Files
    /\ e.op = "accept" /\ e.ret # None => e.file \in Files

\* What m_lastevent_fd is after the enter event, and m_lastevent_data.
FdOf(e) == IF e.op \in UsesFd THEN e.fd ELSE None
DataOf(e) == [id |-> e.id, type |-> Type(e.op), file |-> e.file]

\* Only openat has the type of openat.
LEMMA TypeOpenat ==
    ASSUME NEW op \in Ops, Type(op) = "openat"
    PROVE  op = "openat"
  BY DEF Type, Ops

\* The enter event says nothing of files, and is noted.
LEMMA EnterFiles ==
    ASSUME NEW S, NEW e, StateTyped(S), S.info = None, EventTyped(e)
    PROVE  LET T == NextEnter(S, e)
           IN  /\ StateTyped(T) /\ SameKnown(S, T)
               /\ T.last.type = Type(e.op) /\ T.last.fd = FdOf(e)
               /\ T.last.data = IF e.op \in {"openat", "fcntl"} THEN DataOf(e) ELSE S.last.data
  <1> DEFINE R == remove_fds(S)
             Q == [R EXCEPT !.last.type = Type(e.op), !.last.fd = FdOf(e)]
             P == get_fd(Q, FdOf(e))
             T == NextEnter(S, e)
  <1>1. StateTyped(R) /\ SameKnown(S, R) /\ R.toRemove = {} /\ R.last = S.last /\ R.info = None
    BY RemoveFiles
  <1>2. FdOf(e) \in Fds \cup {None}
    BY DEF EventTyped, FdOf
  <1>3. T = ParseEnter(P, e)
    BY DEF NextEnter, ResetEnter, FdOf
  <1> HIDE DEF R, T
  <1>4. /\ DOMAIN Q = {"fdt", "toRemove", "last", "info"} /\ DOMAIN Q.last = {"type", "fd", "data"}
        /\ Q.fdt = R.fdt /\ Q.toRemove = {} /\ Q.info = None
        /\ Q.last.type = Type(e.op) /\ Q.last.fd = FdOf(e) /\ Q.last.data = S.last.data
    BY <1>1 DEF StateTyped
  <1> HIDE DEF Q
  <1>5. StateTyped(Q) /\ SameKnown(S, Q)
    BY <1>1, <1>2, <1>4 DEF StateTyped, SameKnown, Known, Says
  <1>6. /\ StateTyped(P) /\ SameFiles(Q.fdt, P.fdt) /\ P.toRemove = {} /\ P.last = Q.last
        /\ P.info = None \/ P.info \in Numbers(P.fdt)
    BY <1>4, <1>5, GetFiles DEF StateTyped
  <1> HIDE DEF P
  <1>7. SameKnown(S, P)
    BY <1>4, <1>5, <1>6 DEF SameKnown, SameFiles, Known, Says
  <1>8. CASE e.op \in {"openat", "fcntl"}
    <2>1. T = [P EXCEPT !.last.data = DataOf(e)]
      BY <1>3, <1>8 DEF ParseEnter, store_event, DataOf
    <2>2. /\ DOMAIN T = {"fdt", "toRemove", "last", "info"} /\ DOMAIN T.last = {"type", "fd", "data"}
          /\ T.fdt = P.fdt /\ T.toRemove = P.toRemove /\ T.info = P.info
          /\ T.last.type = Type(e.op) /\ T.last.fd = FdOf(e) /\ T.last.data = DataOf(e)
      BY <1>4, <1>6, <2>1 DEF StateTyped
    <2>3. DataOf(e).type = "openat" => DataOf(e).file \in Files
      BY TypeOpenat DEF DataOf, EventTyped
    <2>4. StateTyped(T)
      BY <1>2, <1>6, <2>2, <2>3 DEF StateTyped
    <2>5. SameKnown(S, T)
      BY <1>7, <2>2 DEF SameKnown, Known, Says
    <2>6. QED
      BY <1>8, <2>2, <2>4, <2>5 DEF T
  <1>9. CASE e.op = "close" /\ P.info # None
    <2> DEFINE F == Mark(P.fdt, P.info, "closing", TRUE)
    <2>1. T = [P EXCEPT !.fdt = F]
      BY <1>3, <1>9 DEF ParseEnter, parse_close_enter
    <2>2. Typed(F) /\ SameFiles(P.fdt, F)
      BY <1>6, <1>9, MarkFiles DEF StateTyped
    <2> HIDE DEF F
    <2>3. StateTyped(T) /\ SameKnown(P, T) /\ T.last = P.last
      BY <1>6, <2>1, <2>2, WithFiles
    <2>4. QED
      BY <1>4, <1>6, <1>7, <1>9, <2>3 DEF T, SameKnown
  <1>10. CASE e.op \notin {"openat", "fcntl", "close"} \/ (e.op = "close" /\ P.info = None)
    <2>1. T = P
      BY <1>3, <1>10 DEF ParseEnter, parse_close_enter
    <2>2. QED
      BY <1>4, <1>6, <1>7, <1>10, <2>1 DEF T
  <1>11. QED
    BY <1>8, <1>9, <1>10

\* The exit event finds the descriptor of the call, if the last event was its enter
\* event, and takes back a canceled close.
LEMMA ResetFiles ==
    ASSUME NEW R, NEW e, StateTyped(R), R.info = None, R.toRemove = {}
    PROVE  LET P == ResetExit(R, e)
           IN  /\ StateTyped(P) /\ SameFiles(R.fdt, P.fdt)
               /\ P.toRemove \subseteq {CANCELED_FD_NUMBER} /\ P.last = R.last
               /\ P.info = IF Valid(R, e) /\ e.op \in UsesFd /\ R.last.fd \in Numbers(R.fdt)
                           THEN R.last.fd ELSE None
               /\ P.info # None => ~P.fdt.m_table[P.info].canceled
  <1> DEFINE P == ResetExit(R, e)
             G == get_fd(R, R.last.fd)
  <1>0. SameFiles(R.fdt, R.fdt)
    BY DEF SameFiles
  <1>1. CASE ~(Valid(R, e) /\ e.op \in UsesFd)
    <2>1. P = R
      BY <1>1 DEF ResetExit
    <2>2. QED
      BY <1>0, <1>1, <2>1
  <1>2. CASE Valid(R, e) /\ e.op \in UsesFd
    <2>1. P = Uncancel(G)
      BY <1>2 DEF ResetExit
    <2>2. /\ StateTyped(G) /\ SameFiles(R.fdt, G.fdt)
          /\ G.toRemove = {} /\ G.last = R.last
          /\ G.info = IF R.last.fd \in Numbers(R.fdt) THEN R.last.fd ELSE None
      BY GetFiles
    <2> HIDE DEF G, P
    <2>3. CASE ~(G.info # None /\ G.fdt.m_table[G.info].canceled)
      <3>1. P = G
        BY <2>1, <2>3 DEF Uncancel
      <3>2. QED
        BY <1>2, <2>2, <2>3, <3>1 DEF P
    <2>4. CASE G.info # None /\ G.fdt.m_table[G.info].canceled
      <3> DEFINE M == Mark(G.fdt, G.info, "canceled", FALSE)
                 F == find(M, CANCELED_FD_NUMBER)
                 Q == [G EXCEPT !.fdt = F]
      <3>1. P = erase_fd(Q, CANCELED_FD_NUMBER)
        BY <2>1, <2>4 DEF Uncancel
      <3>2. G.info \in Numbers(G.fdt) /\ Typed(G.fdt)
        BY <2>2, <2>4 DEF StateTyped
      <3>3. Typed(M) /\ SameFiles(G.fdt, M) /\ ~M.m_table[G.info].canceled
        BY <3>2, MarkFiles, ZenonT(60)
      <3> HIDE DEF M
      <3>4. Typed(F) /\ SameFiles(G.fdt, F) /\ ~F.m_table[G.info].canceled
        BY <3>3, FindFiles DEF SameFiles
      <3> HIDE DEF F
      <3>5. StateTyped(Q) /\ Q.fdt = F /\ Q.toRemove = {} /\ Q.last = G.last /\ Q.info = G.info
        BY <2>2, <3>4, WithFiles
      <3> HIDE DEF Q
      <3>6. /\ DOMAIN P = DOMAIN Q /\ P.fdt = Q.fdt /\ P.last = Q.last /\ P.info = Q.info
            /\ P.toRemove \subseteq {CANCELED_FD_NUMBER}
        BY <3>1, <3>5 DEF erase_fd, StateTyped
      <3>7. StateTyped(P)
        BY <3>5, <3>6 DEF StateTyped
      <3>8. SameFiles(R.fdt, P.fdt)
        BY <2>2, <3>4, <3>5, <3>6 DEF SameFiles
      <3>9. QED
        BY <1>2, <2>2, <3>4, <3>5, <3>6, <3>7, <3>8 DEF P
    <2>5. QED
      BY <2>3, <2>4
  <1>3. QED
    BY <1>1, <1>2

\* add_fd
LEMMA AddFdFiles ==
    ASSUME NEW P, NEW fd \in Fds, NEW info \in Info, StateTyped(P), use \in Uses
    PROVE  LET T == add_fd(P, fd, info)
           IN  /\ StateTyped(T) /\ T.toRemove = P.toRemove
               /\ GivenFile(P.fdt, T.fdt, fd, info.file)
               /\ Roomy => fd \in Numbers(T.fdt)
  <1> DEFINE F == add(P.fdt, fd, info)
             T == add_fd(P, fd, info)
  <1>1. T = [P EXCEPT !.fdt = F, !.last.fd = fd, !.info = IF fd \in Numbers(F) THEN fd ELSE None]
    BY DEF add_fd, Has, Numbers
  <1>2. /\ Typed(F) /\ GivenFile(P.fdt, F, fd, info.file)
        /\ fd \in Numbers(P.fdt) \/ Cardinality(Numbers(P.fdt)) < use.limit => fd \in Numbers(F)
    BY AddFiles DEF StateTyped
  <1>3. Roomy => fd \in Numbers(F)
    BY <1>2 DEF StateTyped, Roomy
  <1> HIDE DEF F, T
  <1>4. /\ DOMAIN T = {"fdt", "toRemove", "last", "info"} /\ DOMAIN T.last = {"type", "fd", "data"}
        /\ T.fdt = F /\ T.toRemove = P.toRemove /\ T.last.fd = fd /\ T.last.data = P.last.data
        /\ T.info = IF fd \in Numbers(F) THEN fd ELSE None
    BY <1>1 DEF StateTyped
  <1>5. StateTyped(T)
    BY <1>2, <1>4 DEF StateTyped
  <1>6. QED
    BY <1>2, <1>3, <1>4, <1>5 DEF T

\* Copy gives the new number the file of the entry that the event is about.
LEMMA CopyFiles ==
    ASSUME NEW P, NEW e, StateTyped(P), P.info # None, e.ret \in Fds, use \in Uses
    PROVE  LET T == Copy(P, e)
           IN  /\ StateTyped(T) /\ T.toRemove = P.toRemove
               /\ GivenFile(P.fdt, T.fdt, e.ret, P.fdt.m_table[P.info].file)
               /\ Roomy => e.ret \in Numbers(T.fdt)
  <1> DEFINE closing == Has(P.fdt, e.ret) /\ P.fdt.m_table[e.ret].closing
             E == Mark(P.fdt, P.info, "closing", FALSE)
             F == Mark(E, P.info, "canceled", TRUE)
             U == IF closing THEN [P EXCEPT !.fdt = F] ELSE P
             T == Copy(P, e)
  <1>1. T = add_fd(U, e.ret, U.fdt.m_table[P.info])
    BY DEF Copy
  <1>2. P.info \in Numbers(P.fdt) /\ Typed(P.fdt)
    BY DEF StateTyped
  <1>3. Typed(E) /\ SameFiles(P.fdt, E)
    BY <1>2, MarkFiles
  <1> HIDE DEF E, T, closing
  <1>4. Typed(F) /\ SameFiles(P.fdt, F)
    <2>1. P.info \in Numbers(E)
      BY <1>2, <1>3 DEF SameFiles
    <2>2. Typed(F) /\ SameFiles(E, F)
      BY <1>3, <2>1, MarkFiles
    <2>3. QED
      BY <1>3, <2>2 DEF SameFiles
  <1> HIDE DEF F
  <1>5. StateTyped(U) /\ SameFiles(P.fdt, U.fdt) /\ U.toRemove = P.toRemove
    <2>1. SameFiles(P.fdt, P.fdt)
      BY DEF SameFiles
    <2>2. QED
      BY <1>4, <2>1, WithFiles
  <1> HIDE DEF U
  <1>6. U.fdt.m_table[P.info] \in Info /\ U.fdt.m_table[P.info].file = P.fdt.m_table[P.info].file
    BY <1>2, <1>5 DEF StateTyped, Typed, SameFiles
  <1>7. /\ StateTyped(T) /\ T.toRemove = U.toRemove
        /\ GivenFile(U.fdt, T.fdt, e.ret, U.fdt.m_table[P.info].file)
        /\ Roomy => e.ret \in Numbers(T.fdt)
    BY <1>1, <1>5, <1>6, AddFdFiles
  <1>8. GivenFile(P.fdt, T.fdt, e.ret, P.fdt.m_table[P.info].file)
    BY <1>5, <1>6, <1>7 DEF GivenFile, SameFiles
  <1>9. QED
    BY <1>5, <1>7, <1>8 DEF T

\* The exit event of a close: the entry is to be removed, unless the close failed.
LEMMA CloseFiles ==
    ASSUME NEW P, NEW e, StateTyped(P), P.info # None => P.info = P.last.fd,
           P.info # None => ~P.fdt.m_table[P.info].canceled
    PROVE  LET T == parse_close_exit(P, e)
           IN  /\ StateTyped(T) /\ SameFiles(P.fdt, T.fdt)
               /\ T.toRemove = IF P.info # None /\ e.ret # None
                               THEN P.toRemove \cup {P.last.fd} ELSE P.toRemove
  <1> DEFINE T == parse_close_exit(P, e)
  <1>0. SameFiles(P.fdt, P.fdt)
    BY DEF SameFiles
  <1>1. CASE P.info = None
    BY <1>0, <1>1 DEF parse_close_exit
  <1>2. CASE P.info # None /\ e.ret = None
    <2> DEFINE F == Mark(P.fdt, P.info, "closing", FALSE)
    <2>1. T = [P EXCEPT !.fdt = F]
      BY <1>2 DEF parse_close_exit
    <2>2. Typed(F) /\ SameFiles(P.fdt, F)
      BY <1>2, MarkFiles DEF StateTyped
    <2> HIDE DEF F, T
    <2>3. StateTyped(T) /\ T.fdt = F /\ T.toRemove = P.toRemove
      BY <2>1, <2>2, WithFiles
    <2>4. QED
      BY <1>2, <2>2, <2>3 DEF T
  <1>3. CASE P.info # None /\ e.ret # None
    <2>1. T = erase_fd(P, P.last.fd)
      BY <1>3 DEF parse_close_exit
    <2>2. P.last.fd \in Numbers(P.fdt)
      BY <1>3 DEF StateTyped
    <2>3. T = [P EXCEPT !.toRemove = @ \cup {P.last.fd}]
      BY <2>1, <2>2 DEF erase_fd, Has, Numbers
    <2> HIDE DEF T
    <2>4. /\ DOMAIN T = DOMAIN P /\ T.fdt = P.fdt /\ T.last = P.last /\ T.info = P.info
          /\ T.toRemove = P.toRemove \cup {P.last.fd}
      BY <2>3 DEF StateTyped
    <2>5. StateTyped(T)
      BY <2>4 DEF StateTyped
    <2>6. QED
      BY <1>0, <1>3, <2>4, <2>5 DEF T
  <1>4. QED
    BY <1>1, <1>2, <1>3

\* From tables to what is known, for a state R without removals that are put off.
LEMMA KnownSame ==
    ASSUME NEW S, NEW R, NEW T, SameKnown(S, R), Known(S) = Fds \cap Numbers(R.fdt),
           SameFiles(R.fdt, T.fdt), T.toRemove \cap Fds = {}
    PROVE  SameKnown(S, T)
  BY DEF SameKnown, SameFiles, Known, Says

\* The same when a number is given a file.
LEMMA KnownGiven ==
    ASSUME NEW S, NEW R, NEW T, NEW fd \in Fds, NEW file, SameKnown(S, R),
           Known(S) = Fds \cap Numbers(R.fdt), GivenFile(R.fdt, T.fdt, fd, file),
           T.toRemove \cap Fds = {}
    PROVE  GivenKnown(S, T, fd, file) /\ (fd \in Numbers(T.fdt) => fd \in Known(T))
  BY DEF SameKnown, GivenKnown, GivenFile, Known, Says

\* Whether an exit event finds the descriptor of its call, and how it begins.
Found(S, e) == Valid(S, e) /\ e.op \in UsesFd /\ S.last.fd \in Known(S)
Begun(S, e) == ResetExit(remove_fds(S), e)

\* Up to the parser an exit event says nothing of files.
LEMMA ExitBegins ==
    ASSUME NEW S, NEW e, StateTyped(S), S.info = None
    PROVE  LET P == Begun(S, e)
           IN  /\ StateTyped(P) /\ SameKnown(S, P)
               /\ P.toRemove \subseteq {CANCELED_FD_NUMBER} /\ P.last = S.last
               /\ Known(S) = Fds \cap Numbers(P.fdt)
               /\ P.info = IF Found(S, e) THEN S.last.fd ELSE None
               /\ P.info # None => ~P.fdt.m_table[P.info].canceled
  <1> DEFINE R == remove_fds(S)
             P == ResetExit(R, e)
  <1>1. /\ StateTyped(R) /\ SameKnown(S, R) /\ R.toRemove = {} /\ R.last = S.last
        /\ R.info = None /\ Known(S) = Fds \cap Numbers(R.fdt)
    BY RemoveFiles
  <1> HIDE DEF R
  <1>2. /\ StateTyped(P) /\ SameFiles(R.fdt, P.fdt)
        /\ P.toRemove \subseteq {CANCELED_FD_NUMBER} /\ P.last = R.last
        /\ P.info = IF Valid(R, e) /\ e.op \in UsesFd /\ R.last.fd \in Numbers(R.fdt)
                    THEN R.last.fd ELSE None
        /\ P.info # None => ~P.fdt.m_table[P.info].canceled
    BY <1>1, ResetFiles
  <1> HIDE DEF P
  <1>3. Valid(R, e) <=> Valid(S, e)
    BY <1>1 DEF Valid
  <1>4. R.last.fd \in Numbers(R.fdt) <=> S.last.fd \in Known(S)
    BY <1>1, Fdss, CanceledNotNone DEF StateTyped, Typed, AnyFd
  <1>5. P.toRemove \cap Fds = {}
    BY <1>2, Fdss
  <1>6. SameKnown(S, P)
    BY <1>1, <1>2, <1>5, KnownSame
  <1>7. Known(S) = Fds \cap Numbers(P.fdt)
    BY <1>1, <1>2 DEF SameFiles
  <1>8. QED
    BY <1>1, <1>2, <1>3, <1>4, <1>6, <1>7 DEF P, R, Begun, Found

\* The exit event of an openat with the data of its enter event.
LEMMA OpenExitFiles ==
    ASSUME NEW S, NEW e, StateTyped(S), S.info = None, EventTyped(e), use \in Uses, e.op = "openat"
    PROVE  LET T == NextExit(S, e)
           IN  /\ StateTyped(T)
               /\ IF retrieve_enter_event(S, e) /\ e.ret # None
                  THEN /\ GivenKnown(S, T, e.ret, S.last.data.file)
                       /\ Roomy => e.ret \in Known(T)
                  ELSE SameKnown(S, T)
  <1> DEFINE P == Begun(S, e)
             T == NextExit(S, e)
  <1>1. T = parse_open_openat_creat_exit(P, e)
    BY DEF NextExit, ParseExit, Begun, Type
  <1>2. /\ StateTyped(P) /\ SameKnown(S, P) /\ P.toRemove \subseteq {CANCELED_FD_NUMBER}
        /\ P.last = S.last /\ Known(S) = Fds \cap Numbers(P.fdt)
    BY ExitBegins
  <1>3. retrieve_enter_event(P, e) <=> retrieve_enter_event(S, e)
    BY <1>2 DEF retrieve_enter_event, Valid
  <1> HIDE DEF P, T
  <1>4. CASE ~(retrieve_enter_event(S, e) /\ e.ret # None)
    <2>1. T = P
      BY <1>1, <1>3, <1>4 DEF parse_open_openat_creat_exit
    <2>2. QED
      BY <1>2, <1>4, <2>1 DEF T
  <1>5. CASE retrieve_enter_event(S, e) /\ e.ret # None
    <2> DEFINE i == New(S.last.data.file)
    <2>1. T = add_fd(P, e.ret, i) /\ e.ret \in Fds
      BY <1>1, <1>2, <1>3, <1>5 DEF parse_open_openat_creat_exit, EventTyped
    <2>2. S.last.data.file \in Files
      BY <1>5 DEF retrieve_enter_event, StateTyped, Type
    <2>3. i \in Info /\ i.file = S.last.data.file
      BY <2>2 DEF New, Info
    <2> HIDE DEF i
    <2>4. /\ StateTyped(T) /\ T.toRemove = P.toRemove
          /\ GivenFile(P.fdt, T.fdt, e.ret, S.last.data.file)
          /\ Roomy => e.ret \in Numbers(T.fdt)
      BY <1>2, <2>1, <2>3, AddFdFiles
    <2>5. T.toRemove \cap Fds = {}
      BY <1>2, <2>4, Fdss
    <2>6. GivenKnown(S, T, e.ret, S.last.data.file) /\ (e.ret \in Numbers(T.fdt) => e.ret \in Known(T))
      BY <1>2, <2>1, <2>4, <2>5, KnownGiven
    <2>7. QED
      BY <1>5, <2>4, <2>6 DEF T
  <1>6. QED
    BY <1>4, <1>5

\* accept, whose exit event tells the file, unless the parser does not know it.
LEMMA AcceptExitFiles ==
    ASSUME NEW S, NEW e, StateTyped(S), S.info = None, EventTyped(e), use \in Uses, e.op = "accept"
    PROVE  LET T == NextExit(S, e)
           IN  /\ StateTyped(T)
               /\ IF e.ret # None /\ e.file \notin Unknown
                  THEN /\ GivenKnown(S, T, e.ret, e.file)
                       /\ Roomy => e.ret \in Known(T)
                  ELSE SameKnown(S, T)
  <1> DEFINE P == Begun(S, e)
             T == NextExit(S, e)
  <1>1. T = parse_accept_exit(P, e)
    BY DEF NextExit, ParseExit, Begun, Type
  <1>2. /\ StateTyped(P) /\ SameKnown(S, P) /\ P.toRemove \subseteq {CANCELED_FD_NUMBER}
        /\ P.last = S.last /\ Known(S) = Fds \cap Numbers(P.fdt)
    BY ExitBegins
  <1> HIDE DEF P, T
  <1>3. CASE e.ret = None
    BY <1>1, <1>2, <1>3 DEF parse_accept_exit, T
  <1>a. CASE e.ret # None /\ e.file \in Unknown
    <2>1. T = [P EXCEPT !.last.fd = e.ret] /\ e.ret \in Fds
      BY <1>1, <1>a DEF parse_accept_exit, EventTyped
    <2>2. /\ DOMAIN T = DOMAIN P /\ T.fdt = P.fdt /\ T.toRemove = P.toRemove /\ T.info = P.info
          /\ T.last = [P.last EXCEPT !.fd = e.ret]
      BY <1>2, <2>1 DEF StateTyped
    <2>3. DOMAIN T.last = {"type", "fd", "data"} /\ T.last.fd = e.ret /\ T.last.data = P.last.data
      BY <1>2, <2>2 DEF StateTyped
    <2>4. StateTyped(T) /\ SameKnown(S, T)
      BY <1>2, <2>1, <2>2, <2>3 DEF StateTyped, SameKnown, Known, Says
    <2>5. QED
      BY <1>a, <2>4 DEF T
  <1>4. CASE e.ret # None /\ e.file \notin Unknown
    <2>1. T = add_fd(P, e.ret, New(e.file)) /\ e.ret \in Fds /\ e.file \in Files
      BY <1>1, <1>4 DEF parse_accept_exit, EventTyped
    <2>2. New(e.file) \in Info /\ New(e.file).file = e.file
      BY <2>1 DEF New, Info
    <2>3. /\ StateTyped(T) /\ T.toRemove = P.toRemove
          /\ GivenFile(P.fdt, T.fdt, e.ret, e.file)
          /\ Roomy => e.ret \in Numbers(T.fdt)
      BY <1>2, <2>1, <2>2, AddFdFiles
    <2>4. T.toRemove \cap Fds = {}
      BY <1>2, <2>3, Fdss
    <2>5. GivenKnown(S, T, e.ret, e.file) /\ (e.ret \in Numbers(T.fdt) => e.ret \in Known(T))
      BY <1>2, <2>1, <2>3, <2>4, KnownGiven
    <2>6. QED
      BY <1>4, <2>3, <2>5 DEF T
  <1>5. QED
    BY <1>3, <1>a, <1>4

\* close: the entry that its enter event named does not count any more.
LEMMA CloseExitFiles ==
    ASSUME NEW S, NEW e, StateTyped(S), S.info = None, EventTyped(e), e.op = "close"
    PROVE  LET T == NextExit(S, e)
           IN  /\ StateTyped(T)
               /\ IF Found(S, e) /\ e.ret # None
                  THEN /\ \A file : GivenKnown(S, T, S.last.fd, file)
                       /\ S.last.fd \notin Known(T)
                  ELSE SameKnown(S, T)
  <1> DEFINE P == Begun(S, e)
             T == NextExit(S, e)
  <1>1. T = parse_close_exit(P, e)
    BY DEF NextExit, ParseExit, Begun, Type
  <1>2. /\ StateTyped(P) /\ SameKnown(S, P) /\ P.toRemove \subseteq {CANCELED_FD_NUMBER}
        /\ P.last = S.last /\ Known(S) = Fds \cap Numbers(P.fdt)
        /\ P.info = IF Found(S, e) THEN S.last.fd ELSE None
        /\ P.info # None => ~P.fdt.m_table[P.info].canceled
    BY ExitBegins
  <1>3. P.info # None <=> Found(S, e)
    BY <1>2, Fdss DEF Found, Known
  <1> HIDE DEF P, T
  <1>4. /\ StateTyped(T) /\ SameFiles(P.fdt, T.fdt)
        /\ T.toRemove = IF P.info # None /\ e.ret # None
                        THEN P.toRemove \cup {P.last.fd} ELSE P.toRemove
    BY <1>1, <1>2, CloseFiles
  <1>5. CASE ~(Found(S, e) /\ e.ret # None)
    <2>1. T.toRemove \cap Fds = {}
      BY <1>2, <1>3, <1>4, <1>5, Fdss
    <2>2. SameKnown(S, T)
      BY <1>2, <1>4, <2>1, KnownSame
    <2>3. QED
      BY <1>4, <1>5, <2>2 DEF T
  <1>6. CASE Found(S, e) /\ e.ret # None
    <2>1. /\ \A x \in Fds : x \in T.toRemove <=> x = S.last.fd
          /\ S.last.fd \in Fds
      BY <1>2, <1>3, <1>4, <1>6, Fdss DEF Found, Known
    <2>2. /\ S.last.fd \notin Known(T)
          /\ \A x \in Fds \ {S.last.fd} : x \in Known(T) <=> x \in Known(S)
      BY <1>2, <1>4, <2>1 DEF Known, SameFiles
    <2>3. \A x \in Known(S) : Says(T, x) = Says(S, x)
      BY <1>2, <1>4 DEF SameKnown, SameFiles, Says, Known
    <2>4. QED
      BY <1>4, <1>6, <2>2, <2>3 DEF T, GivenKnown
  <1>7. QED
    BY <1>5, <1>6

\* dup, dup2 and the fcntls, those of them that are taken for a copy.
TakenForCopy(S, e) ==
    /\ Found(S, e) /\ e.ret # None
    /\ Type(e.op) = "fcntl" => retrieve_enter_event(S, e)

\* Their exit event gives the new number the file of the old one.
LEMMA CopyExitFiles ==
    ASSUME NEW S, NEW e, StateTyped(S), S.info = None, EventTyped(e), use \in Uses,
           e.op \in {"dup", "dup2", "fcntl", "getfl"}
    PROVE  LET T == NextExit(S, e)
           IN  /\ StateTyped(T)
               /\ IF TakenForCopy(S, e)
                  THEN /\ GivenKnown(S, T, e.ret, Says(S, S.last.fd))
                       /\ Roomy => e.ret \in Known(T)
                  ELSE SameKnown(S, T)
  <1> DEFINE P == Begun(S, e)
             T == NextExit(S, e)
             F == find(P.fdt, e.ret)
             Q == IF Type(e.op) = "fcntl" THEN P ELSE [P EXCEPT !.fdt = F]
  <1>1. T = IF Type(e.op) = "fcntl" THEN parse_fcntl_exit(P, e) ELSE parse_dup_exit(P, e)
    BY DEF NextExit, ParseExit, Begun, Type
  <1>2. /\ StateTyped(P) /\ SameKnown(S, P) /\ P.toRemove \subseteq {CANCELED_FD_NUMBER}
        /\ P.last = S.last /\ Known(S) = Fds \cap Numbers(P.fdt)
        /\ P.info = IF Found(S, e) THEN S.last.fd ELSE None
    BY ExitBegins
  <1>3. P.info # None <=> Found(S, e)
    BY <1>2, Fdss DEF Found, Known
  <1>4. retrieve_enter_event(P, e) <=> retrieve_enter_event(S, e)
    BY <1>2 DEF retrieve_enter_event, Valid
  <1> HIDE DEF P, T
  <1>5. CASE ~TakenForCopy(S, e)
    <2>1. T = P
      BY <1>1, <1>3, <1>4, <1>5 DEF parse_fcntl_exit, parse_dup_exit, TakenForCopy
    <2>2. QED
      BY <1>2, <1>5, <2>1 DEF T
  <1>6. CASE TakenForCopy(S, e)
    <2>1. T = Copy(Q, e) /\ e.ret \in Fds
      BY <1>1, <1>3, <1>4, <1>6 DEF parse_fcntl_exit, parse_dup_exit, TakenForCopy, EventTyped
    <2>2. Typed(F) /\ SameFiles(P.fdt, F) /\ SameFiles(P.fdt, P.fdt)
      BY <1>2, FindFiles DEF StateTyped, SameFiles
    <2> HIDE DEF F
    <2>3. /\ StateTyped(Q) /\ SameFiles(P.fdt, Q.fdt) /\ Q.toRemove = P.toRemove /\ Q.info = P.info
      BY <1>2, <2>2, WithFiles
    <2> HIDE DEF Q
    <2>4. /\ StateTyped(T) /\ T.toRemove = Q.toRemove
          /\ GivenFile(Q.fdt, T.fdt, e.ret, Q.fdt.m_table[Q.info].file)
          /\ Roomy => e.ret \in Numbers(T.fdt)
      BY <1>3, <1>6, <2>1, <2>3, CopyFiles DEF TakenForCopy
    <2>5. Q.fdt.m_table[Q.info].file = Says(S, S.last.fd)
      BY <1>2, <1>6, <2>3 DEF TakenForCopy, Found, SameKnown, SameFiles, Says, Known
    <2>6. GivenFile(P.fdt, T.fdt, e.ret, Says(S, S.last.fd)) /\ T.toRemove \cap Fds = {}
      BY <1>2, <2>3, <2>4, <2>5, Fdss DEF GivenFile, SameFiles
    <2>7. /\ GivenKnown(S, T, e.ret, Says(S, S.last.fd))
          /\ e.ret \in Numbers(T.fdt) => e.ret \in Known(T)
      BY <1>2, <2>1, <2>6, KnownGiven
    <2>8. QED
      BY <1>6, <2>4, <2>7 DEF T
  <1>7. QED
    BY <1>5, <1>6

\* read, and what it is taken for.
LEMMA ReadExitFiles ==
    ASSUME NEW S, NEW e, StateTyped(S), S.info = None, e.op = "read"
    PROVE  LET T == NextExit(S, e)
           IN  /\ StateTyped(T) /\ SameKnown(S, T)
               /\ T.info = IF Found(S, e) THEN S.last.fd ELSE None
  <1>1. NextExit(S, e) = Begun(S, e)
    BY DEF NextExit, ParseExit, Begun, Type
  <1>2. QED
    BY <1>1, ExitBegins

---------------------------------------------------------------------------
\* The kernel

\* A system call in progress.
CallTyped(c) ==
    /\ DOMAIN c = DOMAIN Idle
    /\ c.stage \in {"idle", "entered", "done"}
    /\ c.stage = "idle" => c = Idle
    /\ c.stage # "idle" =>
          /\ c.op \in use.ops \cap Ops
          /\ c.fd \in Fds \cup {None} /\ (c.fd = None <=> c.op \notin UsesFd)
          /\ c.ret \in Fds \cup {None}
          /\ c.op = "dup2" => c.to \in Fds \ {c.fd}
          /\ c.op \in {"openat", "accept"} => c.file \in Files
    /\ c.stage = "entered" => c.ret = None

KernelTyped ==
    /\ use \in Uses
    /\ files \in [Fds -> Files \cup {None}]
    /\ DOMAIN call = Threads /\ call = [t \in Threads |-> call[t]]
    /\ \A t \in Threads : CallTyped(call[t])

\* What a call does to the kernel's table, and what it returns.
Took(c, file, ret) ==
    \/ /\ c.op \in {"openat", "accept"} /\ ret \in Fds /\ files[ret] = None
       /\ file = c.file /\ files' = [files EXCEPT ![ret] = file]
    \/ /\ c.op \in {"dup", "dup2", "fcntl"} /\ ret \in Fds \ {c.fd} /\ files[c.fd] # None
       /\ file = files[c.fd] /\ files' = [files EXCEPT ![ret] = file]
    \/ /\ c.op = "close" /\ ret = c.fd /\ ret \in Fds /\ files[ret] # None
       /\ file = files[c.fd] /\ files' = [files EXCEPT ![ret] = None]
    \/ /\ files' = files /\ (ret = None \/ c.op = "getfl")
       /\ file = IF c.fd # None /\ files[c.fd] # None THEN files[c.fd] ELSE c.file
       /\ c.op = "close" => files[c.fd] = None

\* A call that takes effect does one of these.
LEMMA EffectCases ==
    ASSUME MinProper, KernelTyped, NEW t \in Threads, Effect(t)
    PROVE  /\ call[t].stage = "entered"
           /\ UNCHANGED <<use, calls, lost, inspectorVars, parsed, sure>>
           /\ \E ret \in Fds \cup {None} : \E file :
                 /\ call' = [call EXCEPT ![t] = Done(call[t], file, ret)]
                 /\ Took(call[t], file, ret)
  <1> DEFINE c == call[t]
             free == {fd \in Fds : files[fd] = None}
             made == IF c.op = "dup2" THEN c.to ELSE Min(free)
             open == c.fd # None /\ files[c.fd] # None
             named == IF open THEN files[c.fd] ELSE c.file
             Ended(file, ret) == call' = [call EXCEPT ![t] = Done(c, file, ret)]
  <1>1. c.stage = "entered" /\ UNCHANGED <<use, calls, lost, inspectorVars, parsed, sure>>
    BY DEF Effect
  <1>2. /\ c.fd \in Fds \cup {None} /\ (c.fd = None <=> c.op \notin UsesFd)
        /\ c.op = "dup2" => c.to \in Fds \ {c.fd}
        /\ c.op \in Ops
    BY <1>1 DEF KernelTyped, CallTyped
  <1>3. free # {} => Min(free) \in free
    <2>1. free \subseteq Nat
      BY FdsAssumption
    <2>2. QED
      BY <2>1 DEF MinProper
  <1>4. \/ /\ c.op \in {"openat", "accept"} /\ free # {}
           /\ files' = [files EXCEPT ![made] = c.file] /\ Ended(c.file, made)
        \/ /\ c.op \in {"dup", "dup2", "fcntl"} /\ open
           /\ c.op = "dup2" \/ free # {}
           /\ files' = [files EXCEPT ![made] = files[c.fd]] /\ Ended(files[c.fd], made)
        \/ /\ c.op = "close" /\ open
           /\ files' = [files EXCEPT ![c.fd] = None] /\ Ended(named, c.fd)
        \/ /\ c.op = "getfl" /\ open
           /\ \E value \in Fds : Ended(named, value)
           /\ UNCHANGED files
        \/ /\ c.op # "close" \/ ~open
           /\ Ended(named, None) /\ UNCHANGED files
    BY DEF Effect
  <1> HIDE DEF c, free, Ended
  <1>5. CASE /\ c.op \in {"openat", "accept"} /\ free # {}
             /\ files' = [files EXCEPT ![made] = c.file] /\ Ended(c.file, made)
    <2>1. made \in Fds /\ files[made] = None
      BY <1>3, <1>5 DEF free
    <2>2. Took(c, c.file, made)
      BY <1>5, <2>1 DEF Took
    <2>3. QED
      BY <1>1, <1>5, <2>1, <2>2 DEF Ended, c
  <1>6. CASE /\ c.op \in {"dup", "dup2", "fcntl"} /\ open
             /\ c.op = "dup2" \/ free # {}
             /\ files' = [files EXCEPT ![made] = files[c.fd]] /\ Ended(files[c.fd], made)
    <2>1. made \in Fds \ {c.fd} /\ files[c.fd] # None
      BY <1>2, <1>3, <1>6 DEF free
    <2>2. Took(c, files[c.fd], made)
      BY <1>6, <2>1 DEF Took
    <2>3. QED
      BY <1>1, <1>6, <2>1, <2>2 DEF Ended, c
  <1>7. CASE /\ c.op = "close" /\ open
             /\ files' = [files EXCEPT ![c.fd] = None] /\ Ended(named, c.fd)
    <2>1. Took(c, named, c.fd)
      BY <1>2, <1>7 DEF Took
    <2>2. QED
      BY <1>1, <1>2, <1>7, <2>1 DEF Ended, c
  <1>8. CASE /\ c.op = "getfl" /\ open
             /\ \E value \in Fds : Ended(named, value)
             /\ UNCHANGED files
    <2>1. PICK value \in Fds : Ended(named, value)
      BY <1>8
    <2>2. Took(c, named, value)
      BY <1>8 DEF Took
    <2>3. QED
      BY <1>1, <2>1, <2>2 DEF Ended, c
  <1>9. CASE /\ c.op # "close" \/ ~open
             /\ Ended(named, None) /\ UNCHANGED files
    <2>1. Took(c, named, None)
      BY <1>2, <1>9 DEF Took, UsesFd
    <2>2. QED
      BY <1>1, <1>9, <2>1 DEF Ended, c
  <1>10. QED
    BY <1>4, <1>5, <1>6, <1>7, <1>8, <1>9

\* The call that Enter begins.
Entered(op, fd, to, file) ==
    [stage |-> "entered", id |-> calls + 1, op |-> op, fd |-> fd, to |-> to,
     file |-> file, ret |-> None, seen |-> TRUE]

\* It is a call, and its events are events.
LEMMA EnteredTyped ==
    ASSUME NEW t \in Threads, NEW op \in Ops, NEW fd \in Fds \cup {None}, NEW to \in Fds \cup {None},
           NEW file \in Files \cup {None}, Enter(t, op, fd, to, file)
    PROVE  LET c == Entered(op, fd, to, file)
           IN  /\ CallTyped(c) /\ CallTyped([c EXCEPT !.seen = FALSE]) /\ EventTyped(c)
               /\ t \in use.threads /\ call[t] = Idle
               /\ Sound(t, c) /\ calls' = calls + 1 /\ UNCHANGED <<use, files, parsed>>
               /\ \/ /\ call' = [call EXCEPT ![t] = c]
                     /\ Becomes(t, NextEnter(State(t), c)) /\ UNCHANGED <<lost, sure>>
                  \/ /\ call' = [call EXCEPT ![t] = [c EXCEPT !.seen = FALSE]]
                     /\ Lose /\ UNCHANGED inspectorVars
  <1> DEFINE c == Entered(op, fd, to, file)
  <1>1. /\ t \in use.threads /\ call[t] = Idle /\ op \in use.ops
        /\ fd = None <=> op \notin UsesFd
        /\ IF op = "dup2" THEN to \in Fds \ {fd} /\ files[to] # None ELSE to = None
        /\ file = None <=> op \notin {"openat", "accept"}
        /\ Sound(t, c) /\ calls' = calls + 1 /\ UNCHANGED <<use, files, parsed>>
        /\ \/ /\ call' = [call EXCEPT ![t] = c]
              /\ Becomes(t, NextEnter(State(t), c)) /\ UNCHANGED <<lost, sure>>
           \/ /\ call' = [call EXCEPT ![t] = [c EXCEPT !.seen = FALSE]]
              /\ Lose /\ UNCHANGED inspectorVars
    BY DEF Enter, Entered
  <1>2. /\ c.stage = "entered" /\ c.op = op /\ c.fd = fd /\ c.to = to /\ c.file = file /\ c.ret = None
        /\ DOMAIN c = DOMAIN Idle
    BY DEF Entered, Idle
  <1>3. LET d == [c EXCEPT !.seen = FALSE]
        IN  /\ d.stage = "entered" /\ d.op = op /\ d.fd = fd /\ d.to = to /\ d.file = file
            /\ d.ret = None /\ DOMAIN d = DOMAIN Idle
    BY DEF Entered, Idle
  <1> HIDE DEF c
  <1>4. CallTyped(c)
    BY <1>1, <1>2 DEF CallTyped
  <1>5. CallTyped([c EXCEPT !.seen = FALSE])
    BY <1>1, <1>3 DEF CallTyped
  <1>6. EventTyped(c)
    BY <1>1, <1>2 DEF EventTyped
  <1>7. QED
    BY <1>1, <1>4, <1>5, <1>6 DEF c

\* A call that took effect is still the call.
LEMMA DoneTyped ==
    ASSUME NEW c, NEW file, NEW ret \in Fds \cup {None}, CallTyped(c), c.stage = "entered",
           Took(c, file, ret)
    PROVE  LET d == Done(c, file, ret)
           IN  /\ CallTyped(d)
               /\ d.stage = "done" /\ d.op = c.op /\ d.fd = c.fd /\ d.to = c.to
               /\ d.file = file /\ d.ret = ret /\ d.seen = c.seen
  <1> DEFINE d == Done(c, file, ret)
  <1>1. /\ d.stage = "done" /\ d.op = c.op /\ d.fd = c.fd /\ d.to = c.to
        /\ d.file = file /\ d.ret = ret /\ d.seen = c.seen /\ DOMAIN d = DOMAIN Idle
    BY DEF Done, CallTyped, Idle
  <1>2. c.op \in {"openat", "accept"} => file \in Files
    BY DEF Took, CallTyped, UsesFd
  <1> HIDE DEF d
  <1>3. CallTyped(d)
    BY <1>1, <1>2 DEF CallTyped
  <1>4. QED
    BY <1>1, <1>3 DEF d

\* A call that returns is an event.
LEMMA ReturnTyped ==
    ASSUME NEW c, CallTyped(c), c.stage = "done"
    PROVE  EventTyped(c)
  BY DEF CallTyped, EventTyped

\* No call is one.
LEMMA IdleTyped == CallTyped(Idle)
  BY DEF CallTyped, Idle

\* One thread's call changes.
LEMMA CallChanges ==
    ASSUME KernelTyped, NEW t \in Threads, NEW c, CallTyped(c), call' = [call EXCEPT ![t] = c],
           use' = use, files' \in [Fds -> Files \cup {None}]
    PROVE  KernelTyped' /\ \A u \in Threads : call'[u] = IF u = t THEN c ELSE call[u]
  <1>1. \A u \in Threads : call'[u] = IF u = t THEN c ELSE call[u]
    BY DEF KernelTyped
  <1>2. DOMAIN call' = Threads /\ call' = [u \in Threads |-> call'[u]]
    BY DEF KernelTyped
  <1>3. \A u \in Threads : CallTyped(call[u])'
    BY <1>1 DEF KernelTyped, CallTyped
  <1>4. QED
    BY <1>1, <1>2, <1>3 DEF KernelTyped

\* The kernel's table after a call.
LEMMA TookFiles ==
    ASSUME KernelTyped, NEW t \in Threads, call[t].stage = "entered",
           NEW ret \in Fds \cup {None}, NEW file, Took(call[t], file, ret)
    PROVE  /\ files' \in [Fds -> Files \cup {None}]
           /\ \A fd \in Fds \ {ret} : files'[fd] = files[fd]
  <1>1. /\ files \in [Fds -> Files \cup {None}]
        /\ call[t].op \in {"openat", "accept"} => call[t].file \in Files
        /\ call[t].op \in UsesFd => call[t].fd \in Fds
    BY DEF KernelTyped, CallTyped
  <1>2. \/ files' = files
        \/ ret \in Fds /\ \E x \in Files \cup {None} : files' = [files EXCEPT ![ret] = x]
    BY <1>1 DEF Took, UsesFd
  <1>3. QED
    BY <1>1, <1>2

---------------------------------------------------------------------------
\* The types

LastTyped(l) ==
    /\ DOMAIN l = {"type", "fd", "data"}
    /\ l.fd \in Fds \cup {None}
    /\ l.data.type = "openat" => l.data.file \in Files

InspectorTyped ==
    /\ Typed(fdt)
    /\ last = [t \in Threads |-> last[t]]
    /\ \A t \in Threads : LastTyped(last[t])

\* An event begins with the table and the last event of its thread.
LEMMA BeginsTyped ==
    ASSUME InspectorTyped, NEW t \in Threads
    PROVE  /\ StateTyped(State(t)) /\ State(t).info = None /\ State(t).last = last[t]
           /\ State(t).fdt = fdt /\ State(t).toRemove = toRemove
  BY DEF InspectorTyped, LastTyped, StateTyped, State

\* What it leaves behind.
LEMMA BecomesTyped ==
    ASSUME InspectorTyped, NEW t \in Threads, NEW S, StateTyped(S), Becomes(t, S)
    PROVE  /\ InspectorTyped' /\ fdt' = S.fdt /\ toRemove' = S.toRemove
           /\ \A u \in Threads : last'[u] = IF u = t THEN S.last ELSE last[u]
  <1>1. /\ fdt' = S.fdt /\ toRemove' = S.toRemove
        /\ \A u \in Threads : last'[u] = IF u = t THEN S.last ELSE last[u]
        /\ last' = [u \in Threads |-> last'[u]]
    BY DEF Becomes, InspectorTyped
  <1>2. LastTyped(S.last) /\ Typed(S.fdt)
    BY DEF StateTyped, LastTyped
  <1>3. Typed(fdt)' /\ \A u \in Threads : LastTyped(last'[u])
    BY <1>1, <1>2 DEF InspectorTyped, Typed, Numbers
  <1>4. QED
    BY <1>1, <1>3 DEF InspectorTyped, LastTyped

\* The cleanup after an exit event.
LEMMA CleanupTyped ==
    ASSUME NEW S, StateTyped(S)
    PROVE  LET T == event_cleanup(S)
           IN  /\ StateTyped(T) /\ T.fdt = S.fdt /\ T.toRemove = S.toRemove
               /\ T.last.data = NoEvent
  <1> DEFINE T == event_cleanup(S)
  <1>1. /\ DOMAIN T = {"fdt", "toRemove", "last", "info"} /\ DOMAIN T.last = {"type", "fd", "data"}
        /\ T.fdt = S.fdt /\ T.toRemove = S.toRemove /\ T.info = S.info
        /\ T.last.fd = S.last.fd /\ T.last.data = NoEvent
    BY DEF event_cleanup, StateTyped
  <1>2. NoEvent.type # "openat"
    BY DEF NoEvent
  <1> HIDE DEF T
  <1>3. StateTyped(T)
    BY <1>1, <1>2 DEF StateTyped
  <1>4. QED
    BY <1>1, <1>3 DEF T

\* The exit event of any call.
LEMMA ExitTyped ==
    ASSUME NEW S, NEW e, StateTyped(S), S.info = None, EventTyped(e), use \in Uses
    PROVE  StateTyped(NextExit(S, e))
  <1>1. \/ e.op = "openat" \/ e.op = "accept" \/ e.op = "close" \/ e.op = "read"
        \/ e.op \in {"dup", "dup2", "fcntl", "getfl"}
    BY DEF EventTyped, Ops
  <1>2. QED
    BY <1>1, OpenExitFiles, AcceptExitFiles, CloseExitFiles, ReadExitFiles, CopyExitFiles

FileOf(fd) == fdt.m_table[fd].file

\* An event after which the table says the same of all files, and one after which it
\* says file of fd, or nothing.
SameEntries ==
    Entries' = Entries /\ \A x \in Entries : fdt'.m_table[x].file = FileOf(x)
EntryGiven(fd, file) ==
    /\ \A x \in Fds \ {fd} : /\ x \in Entries' <=> x \in Entries
                             /\ x \in Entries => fdt'.m_table[x].file = FileOf(x)
    /\ fd \in Entries' => fdt'.m_table[fd].file = file

\* What the parsers begin with.
LEMMA EntriesKnown ==
    ASSUME InspectorTyped, NEW t \in Threads
    PROVE  /\ Entries = Known(State(t)) /\ Entries \subseteq Fds
           /\ \A x : Says(State(t), x) = FileOf(x)
  <1>1. State(t).fdt = fdt /\ State(t).toRemove = toRemove
    BY BeginsTyped
  <1>2. Numbers(fdt) \subseteq Fds \cup {CANCELED_FD_NUMBER}
    BY DEF InspectorTyped, Typed, AnyFd
  <1>3. QED
    BY <1>1, <1>2, Fdss DEF Entries, Known, Numbers, Says, FileOf

\* What they leave behind.
LEMMA EntriesBecome ==
    ASSUME InspectorTyped, NEW t \in Threads, NEW S, StateTyped(S), Becomes(t, S)
    PROVE  Entries' = Known(S) /\ \A x : fdt'.m_table[x].file = Says(S, x)
  <1>1. fdt' = S.fdt /\ toRemove' = S.toRemove
    BY BecomesTyped
  <1>2. Numbers(S.fdt) \subseteq Fds \cup {CANCELED_FD_NUMBER}
    BY DEF StateTyped, Typed, AnyFd
  <1>3. QED
    BY <1>1, <1>2, Fdss DEF Entries, Known, Numbers, Says, FileOf

\* An event that says nothing of files.
LEMMA SameBecomes ==
    ASSUME InspectorTyped, NEW t \in Threads, NEW S, StateTyped(S), Becomes(t, S),
           SameKnown(State(t), S)
    PROVE  SameEntries
  BY EntriesKnown, EntriesBecome DEF SameKnown, SameEntries

\* An event that gives a number a file.
LEMMA GivenBecomes ==
    ASSUME InspectorTyped, NEW t \in Threads, NEW S, StateTyped(S), Becomes(t, S),
           NEW fd, NEW file, GivenKnown(State(t), S, fd, file)
    PROVE  EntryGiven(fd, file)
  BY EntriesKnown, EntriesBecome DEF GivenKnown, EntryGiven

\* Every step keeps the types.
LEMMA TypedStep ==
    ASSUME MinProper, KernelTyped, InspectorTyped, [Next]_vars
    PROVE  KernelTyped' /\ InspectorTyped'
  <1>0. UNCHANGED inspectorVars => InspectorTyped'
    BY DEF inspectorVars, InspectorTyped, Typed, Numbers, LastTyped
  <1>1. ASSUME NEW t \in Threads, NEW op \in Ops, NEW fd \in Fds \cup {None},
               NEW to \in Fds \cup {None}, NEW file \in Files \cup {None}, Enter(t, op, fd, to, file)
        PROVE  KernelTyped' /\ InspectorTyped'
    <2> DEFINE c == Entered(op, fd, to, file)
    <2>1. /\ CallTyped(c) /\ CallTyped([c EXCEPT !.seen = FALSE]) /\ EventTyped(c)
          /\ t \in use.threads /\ call[t] = Idle
          /\ Sound(t, c) /\ calls' = calls + 1 /\ UNCHANGED <<use, files, parsed>>
          /\ \/ /\ call' = [call EXCEPT ![t] = c]
                /\ Becomes(t, NextEnter(State(t), c)) /\ UNCHANGED <<lost, sure>>
             \/ /\ call' = [call EXCEPT ![t] = [c EXCEPT !.seen = FALSE]]
                /\ Lose /\ UNCHANGED inspectorVars
      BY <1>1, EnteredTyped, ZenonT(60)
    <2> HIDE DEF c
    <2>2. files' \in [Fds -> Files \cup {None}]
      BY <2>1 DEF KernelTyped
    <2>3. KernelTyped'
      BY <2>1, <2>2, CallChanges, ZenonT(60)
    <2>4. StateTyped(NextEnter(State(t), c))
      BY <2>1, BeginsTyped, EnterFiles
    <2>5. InspectorTyped'
      BY <1>0, <2>1, <2>4, BecomesTyped
    <2>6. QED
      BY <2>3, <2>5
  <1>2. ASSUME NEW t \in Threads, Effect(t)
        PROVE  KernelTyped' /\ InspectorTyped'
    <2>1. /\ call[t].stage = "entered" /\ use' = use /\ UNCHANGED inspectorVars
      BY <1>2, EffectCases
    <2>a. PICK ret \in Fds \cup {None} : \E file :
                 /\ call' = [call EXCEPT ![t] = Done(call[t], file, ret)]
                 /\ Took(call[t], file, ret)
      BY <1>2, EffectCases
    <2>2. PICK file :
                 /\ call' = [call EXCEPT ![t] = Done(call[t], file, ret)]
                 /\ Took(call[t], file, ret)
      BY <2>a
    <2>3. CallTyped(Done(call[t], file, ret))
      BY <2>1, <2>2, DoneTyped DEF KernelTyped
    <2>4. KernelTyped'
      BY <2>1, <2>2, <2>3, TookFiles, CallChanges, ZenonT(60)
    <2>5. QED
      BY <1>0, <2>1, <2>4
  <1>3. ASSUME NEW t \in Threads, Return(t)
        PROVE  KernelTyped' /\ InspectorTyped'
    <2> DEFINE S == NextExit(State(t), call[t])
    <2>1. /\ call[t].stage = "done" /\ call' = [call EXCEPT ![t] = Idle] /\ UNCHANGED <<use, files>>
          /\ Becomes(t, event_cleanup(S)) \/ UNCHANGED inspectorVars
      BY <1>3 DEF Return
    <2>2. EventTyped(call[t]) /\ use \in Uses
      BY <2>1, ReturnTyped DEF KernelTyped
    <2>3. StateTyped(S)
      BY <2>2, BeginsTyped, ExitTyped
    <2> HIDE DEF S
    <2>4. InspectorTyped'
      BY <1>0, <2>1, <2>3, CleanupTyped, BecomesTyped
    <2>5. files' \in [Fds -> Files \cup {None}]
      BY <2>1 DEF KernelTyped
    <2>6. KernelTyped'
      BY <2>1, <2>5, IdleTyped, CallChanges, ZenonT(60)
    <2>7. QED
      BY <2>4, <2>6
  <1>4. CASE UNCHANGED vars
    BY <1>0, <1>4 DEF vars, kernelVars, KernelTyped, CallTyped
  <1>5. QED
    BY <1>1, <1>2, <1>3, <1>4 DEF Next

\* The first state.
LEMMA TypedInit ==
    ASSUME Init
    PROVE  KernelTyped /\ InspectorTyped
  <1>1. KernelTyped
    BY IdleTyped DEF Init, KernelTyped
  <1>2. Typed(fdt)
    BY DEF Init, Typed, Numbers
  <1>3. \A t \in Threads : LastTyped(last[t])
    BY DEF Init, LastTyped, NoEvent
  <1>4. QED
    BY <1>1, <1>2, <1>3 DEF Init, InspectorTyped

---------------------------------------------------------------------------
\* No event is lost: the threads and their calls

\* A call whose exit event is to come: its enter event is the last event of the thread.
Noted(t) ==
    LET c == call[t]
    IN  c.stage # "idle" =>
           /\ t \in use.threads
           /\ last[t].type = Type(c.op)
           /\ c.op \in UsesFd => last[t].fd = c.fd
           /\ c.op = "openat" => last[t].data.type = "openat" /\ last[t].data.file = c.file

\* What it has to do with the kernel's table: a descriptor that it names is open, unless
\* the thread is alone; a new one refers to its file; one that was read still does.
Holds(t) ==
    LET c == call[t]
    IN  /\ c.op \in {"read", "getfl"} \/ (c.op = "close" /\ c.stage = "entered") =>
              files[c.fd] # None \/ use.threads = {t}
        /\ c.op \in {"openat", "accept"} /\ c.ret # None => files[c.ret] = c.file
        /\ c.op = "close" /\ c.ret # None => c.ret = c.fd
        /\ c.op = "read" /\ c.stage = "done" /\ files[c.fd] # None => c.file = files[c.fd]

\* The calls of two threads do not interfere.
Apart(t, u) == (Changes(call[t]) \cup Reads(call[t])) \cap Changes(call[u]) = {}

\* The exit event of call c says that its result is a new descriptor, of its file.
Gives(c) == c.op = "openat" \/ (c.op = "accept" /\ c.file \notin Unknown)

\* The number of an entry that is wrong is one that a call under way is about to have
\* corrected: it was closed, or given to another file.  If that file is a socket that
\* the parser does not know, it is the close that has not returned yet.
Closing(fd) == \E t \in Threads : call[t].op = "close" /\ call[t].stage = "done" /\ call[t].ret = fd
Pending(fd) ==
    /\ files[fd] = None => Closing(fd)
    /\ files[fd] # None =>
          \/ FileOf(fd) = files[fd]
          \/ \E t \in Threads : Gives(call[t]) /\ call[t].ret = fd
          \/ files[fd] \in Unknown /\ Closing(fd)

RightBody ==
    /\ \A t \in Threads : Noted(t) /\ Holds(t) /\ last[t].data.type # "fcntl"
    /\ \A t, u \in Threads : t # u => Apart(t, u)
    /\ \A fd \in Entries : Pending(fd)
    /\ parsed.file \notin Unknown => parsed.on \in {None, parsed.file}

RightInv == lost \in Nat /\ (lost = 0 /\ NoCopies => RightBody)

---------------------------------------------------------------------------
\* What a call that copies nothing changes and reads.
LEMMA ChangesOf ==
    ASSUME NEW c, c.op \in {"none", "openat", "accept", "close", "getfl", "read"}
    PROVE  /\ Changes(c) = IF c.op = "close" THEN IF c.stage = "entered" THEN {c.fd} ELSE {}
                           ELSE IF c.op \in {"openat", "accept"} THEN {c.ret} \ {None} ELSE {}
           /\ Reads(c) = IF c.op \in {"read", "getfl"} THEN {c.fd} ELSE {}
  BY DEF Changes, Reads, UsesFd

\* Which calls there are without copies.
LEMMA PlainCalls ==
    ASSUME NoCopies, NEW c, CallTyped(c)
    PROVE  c.op \in {"none", "openat", "accept", "close", "getfl", "read"}
  BY DEF NoCopies, CallTyped, Ops, Idle

\* The enter event of a call.
LEMMA RightEnter ==
    ASSUME KernelTyped, InspectorTyped, RightBody, NoCopies,
           NEW t \in Threads, NEW op \in Ops, NEW fd \in Fds \cup {None}, NEW to \in Fds \cup {None},
           NEW file \in Files \cup {None}, Enter(t, op, fd, to, file), lost \in Nat, lost = 0, lost' = 0
    PROVE  RightBody'
  <1> DEFINE c == Entered(op, fd, to, file)
             S == NextEnter(State(t), c)
  <1>0. ~Lose
    BY DEF Lose
  <1>1. /\ CallTyped(c) /\ EventTyped(c) /\ t \in use.threads /\ call[t] = Idle /\ Sound(t, c)
        /\ UNCHANGED <<use, files, parsed>> /\ call' = [call EXCEPT ![t] = c] /\ Becomes(t, S)
    <2>1. /\ CallTyped(c) /\ EventTyped(c) /\ t \in use.threads /\ call[t] = Idle /\ Sound(t, c)
          /\ UNCHANGED <<use, files, parsed>>
          /\ \/ /\ call' = [call EXCEPT ![t] = c]
                /\ Becomes(t, NextEnter(State(t), c)) /\ UNCHANGED <<lost, sure>>
             \/ /\ call' = [call EXCEPT ![t] = [c EXCEPT !.seen = FALSE]]
                /\ Lose /\ UNCHANGED inspectorVars
      BY EnteredTyped
    <2>2. QED
      BY <1>0, <2>1
  <1>2. /\ c.stage = "entered" /\ c.op = op /\ c.fd = fd /\ c.file = file /\ c.ret = None
    BY DEF Entered
  <1> HIDE DEF c
  <1>3. \A u \in Threads : call'[u] = IF u = t THEN c ELSE call[u]
    BY <1>1, CallChanges DEF KernelTyped
  <1>4. /\ StateTyped(S) /\ SameKnown(State(t), S)
        /\ S.last.type = Type(c.op) /\ S.last.fd = FdOf(c)
        /\ S.last.data = IF c.op \in {"openat", "fcntl"} THEN DataOf(c) ELSE State(t).last.data
    BY <1>1, BeginsTyped, EnterFiles
  <1> HIDE DEF S
  <1>5. SameEntries /\ \A u \in Threads : last'[u] = IF u = t THEN S.last ELSE last[u]
    BY <1>1, <1>4, SameBecomes, BecomesTyped
  <1>6. op \in {"openat", "accept", "close", "getfl", "read"}
    BY <1>1, <1>2, PlainCalls DEF Ops
  <1>7. \A u \in Threads : Noted(u)' /\ last'[u].data.type # "fcntl"
    <2>1. Noted(t)' /\ last'[t].data.type # "fcntl"
      <3>1. /\ last'[t].type = Type(op) /\ (op \in UsesFd => last'[t].fd = fd)
            /\ op = "openat" => last'[t].data.type = "openat" /\ last'[t].data.file = file
        BY <1>2, <1>4, <1>5 DEF FdOf, DataOf, Type
      <3>2. op # "openat" => last'[t].data = last[t].data
        BY <1>2, <1>4, <1>5, <1>6, BeginsTyped
      <3>3. QED
        BY <1>1, <1>2, <1>3, <3>1, <3>2 DEF Noted, RightBody
    <2>2. QED
      BY <1>1, <1>3, <1>5, <2>1 DEF RightBody, Noted
  <1>8. \A u \in Threads : Holds(u)'
    <2>1. op \in {"read", "getfl", "close"} => files[fd] # None \/ use.threads = {t}
      BY <1>1, <1>2 DEF Sound, CallTyped, UsesFd
    <2>2. Holds(t)'
      BY <1>1, <1>2, <1>3, <2>1 DEF Holds
    <2>3. QED
      BY <1>1, <1>3, <2>2 DEF RightBody, Holds
  <1>9. \A u, v \in Threads : u # v => Apart(u, v)'
    BY <1>1, <1>3 DEF RightBody, Apart, Sound
  <1>10. \A x \in Entries' : Pending(x)'
    BY <1>1, <1>3, <1>5 DEF RightBody, Pending, Closing, Gives, SameEntries, Idle, FileOf
  <1>11. QED
    BY <1>1, <1>7, <1>8, <1>9, <1>10 DEF RightBody

\* A number that is free is not one that a call of another thread has to do with.
LEMMA FreeApart ==
    ASSUME KernelTyped, RightBody, NoCopies, NEW t \in use.threads, NEW u \in Threads, u # t,
           NEW ret \in Fds, files[ret] = None
    PROVE  ret \notin Changes(call[u]) \cup Reads(call[u])
  <1> DEFINE c == call[u]
  <1>1. /\ c.op \in {"none", "openat", "accept", "close", "getfl", "read"}
        /\ c.op \in {"openat", "accept"} => c.file # None
    <2>1. CallTyped(c) /\ None \notin Files
      BY FdsAssumption DEF KernelTyped
    <2>2. c.op \in {"openat", "accept"} => c.file \in Files
      BY <2>1 DEF CallTyped, Idle
    <2>3. QED
      BY <2>1, <2>2, PlainCalls
  <1>2. Holds(u)
    BY DEF RightBody
  <1>3. QED
    BY <1>1, <1>2, ChangesOf DEF Holds

\* The call takes effect.
LEMMA RightEffect ==
    ASSUME MinProper, KernelTyped, InspectorTyped, RightBody, NoCopies, NEW t \in Threads, Effect(t)
    PROVE  RightBody'
  <1> DEFINE c == call[t]
  <1>1. /\ c.stage = "entered" /\ UNCHANGED <<use, lost, inspectorVars, parsed>>
    BY EffectCases
  <1>a. PICK ret \in Fds \cup {None} : \E file :
               call' = [call EXCEPT ![t] = Done(c, file, ret)] /\ Took(c, file, ret)
    BY EffectCases
  <1>2. PICK file : call' = [call EXCEPT ![t] = Done(c, file, ret)] /\ Took(c, file, ret)
    BY <1>a
  <1> DEFINE d == Done(c, file, ret)
  <1>3. CallTyped(c)
    BY DEF KernelTyped
  <1>4. /\ CallTyped(d) /\ d.stage = "done" /\ d.op = c.op /\ d.fd = c.fd /\ d.file = file /\ d.ret = ret
    BY <1>1, <1>2, <1>3, DoneTyped
  <1>5. files' \in [Fds -> Files \cup {None}] /\ \A fd \in Fds \ {ret} : files'[fd] = files[fd]
    BY <1>1, <1>2, TookFiles
  <1> HIDE DEF d
  <1>6. \A u \in Threads : call'[u] = IF u = t THEN d ELSE call[u]
    <2>1. call' = [call EXCEPT ![t] = d] /\ use' = use
      BY <1>1, <1>2 DEF d
    <2>2. QED
      BY <2>1 DEF KernelTyped
  <1>7. c.op \in {"openat", "accept", "close", "getfl", "read"} /\ t \in use.threads
    BY <1>1, <1>3, PlainCalls DEF CallTyped, RightBody, Noted, Ops
  <1>8. \/ /\ c.op \in {"openat", "accept"} /\ ret \in Fds /\ files[ret] = None
           /\ file = c.file /\ files'[ret] = file /\ file # None
        \/ /\ c.op = "close" /\ ret = c.fd /\ ret \in Fds /\ files'[ret] = None
        \/ /\ files' = files /\ (ret = None \/ c.op = "getfl")
           /\ file = IF c.fd # None /\ files[c.fd] # None THEN files[c.fd] ELSE c.file
    BY <1>1, <1>2, <1>3, <1>7, FdsAssumption DEF Took, KernelTyped, CallTyped
  <1>9. Entries' = Entries /\ \A x : fdt'.m_table[x].file = FileOf(x)
    BY <1>1 DEF inspectorVars, Entries, FileOf
  <1>10. \A u \in Threads : Noted(u)' /\ last'[u].data.type # "fcntl"
    <2>1. c.op = "openat" => file = c.file
      BY <1>1, <1>3, <1>8 DEF CallTyped, UsesFd
    <2>2. QED
      BY <1>1, <1>4, <1>6, <2>1 DEF RightBody, Noted, inspectorVars
  <1>11. \A u \in Threads \ {t} : files[ret] = None /\ ret \in Fds =>
             ret \notin Changes(call[u]) \cup Reads(call[u])
    BY <1>7, FreeApart
  <1>12. \A u \in Threads \ {t} : c.op = "close" => c.fd \notin Changes(call[u]) \cup Reads(call[u])
    <2>1. c.op = "close" => Changes(c) = {c.fd}
      BY <1>1, ChangesOf
    <2>2. QED
      BY <2>1 DEF RightBody, Apart
  <1>13. \A u \in Threads : Holds(u)'
    <2>1. Holds(t)'
      <3>1. Holds(t)
        BY DEF RightBody
      <3>2. c.op \in UsesFd => c.fd \in Fds
        BY <1>1, <1>3 DEF CallTyped
      <3>3. call'[t] = d /\ use' = use
        BY <1>1, <1>6
      <3>4. CASE c.op \in {"openat", "accept"}
        BY <1>4, <1>8, <3>3, <3>4 DEF Holds
      <3>5. CASE c.op = "close"
        BY <1>4, <1>8, <3>3, <3>5 DEF Holds
      <3>6. CASE c.op \in {"getfl", "read"}
        <4>1. files' = files /\ (files[c.fd] # None => file = files[c.fd])
          BY <1>8, <3>2, <3>6, Fdss DEF UsesFd
        <4>2. QED
          BY <1>4, <3>1, <3>3, <3>6, <4>1 DEF Holds
      <3>7. QED
        BY <1>7, <3>4, <3>5, <3>6
    <2>2. ASSUME NEW u \in Threads \ {t}
          PROVE  Holds(u)'
      <3>1. CallTyped(call[u]) /\ call[u].op \in {"none", "openat", "accept", "close", "getfl", "read"}
        BY PlainCalls DEF KernelTyped
      <3>2. \A fd \in Changes(call[u]) \cup Reads(call[u]) : fd \in Fds => files'[fd] = files[fd]
        BY <1>5, <1>8, <1>11, <1>12
      <3>3. /\ call[u].op \in UsesFd => call[u].fd \in Fds
            /\ call[u].ret # None => call[u].ret \in Fds
        BY <3>1 DEF CallTyped, Idle, UsesFd
      <3>4. Holds(u) /\ call'[u] = call[u] /\ use' = use
        BY <1>1, <1>6 DEF RightBody
      <3>5. QED
        BY <3>1, <3>2, <3>3, <3>4, ChangesOf DEF Holds, UsesFd
    <2>3. QED
      BY <2>1, <2>2
  <1>14. \A u, v \in Threads : u # v => Apart(u, v)'
    <2>1. Changes(d) \subseteq Changes(c) \cup {ret} /\ Reads(d) = Reads(c)
      BY <1>1, <1>4, <1>7, ChangesOf
    <2>2. c.op \notin {"openat", "accept"} \/ ret = None => Changes(d) = {}
      BY <1>1, <1>4, <1>7, ChangesOf
    <2>3. \A u \in Threads \ {t} : Changes(d) \cap (Changes(call[u]) \cup Reads(call[u])) = {}
      <3>1. c.op \in {"openat", "accept"} => Changes(d) = {ret} \ {None} /\ (ret # None => files[ret] = None)
        BY <1>4, <1>8, ChangesOf
      <3>2. QED
        BY <1>11, <2>2, <3>1
    <2>4. QED
      BY <1>6, <2>1, <2>3 DEF RightBody, Apart
  <1>15. \A x \in Entries' : Pending(x)'
    <2> SUFFICES ASSUME NEW x \in Entries PROVE Pending(x)'
      BY <1>9
    <2>1. x \in Fds /\ x # None /\ Pending(x)
      BY EntriesKnown, Fdss DEF RightBody
    <2>a. Closing(x) => Closing(x)'
      BY <1>1, <1>6, <2>1 DEF Closing
    <2>2. CASE x = ret /\ c.op # "getfl"
      <3>1. CASE c.op = "openat"
        <4>1. files'[x] # None
          BY <1>8, <2>1, <2>2, <3>1
        <4>2. Gives(call'[t]) /\ call'[t].ret = x
          BY <1>4, <1>6, <2>2, <3>1 DEF Gives
        <4>3. QED
          BY <4>1, <4>2 DEF Pending
      <3>2. CASE c.op = "accept"
        <4>1. files[x] = None /\ files'[x] = file /\ file # None
          BY <1>8, <2>1, <2>2, <3>2
        <4>2. Closing(x)'
          BY <2>a, <2>1, <4>1 DEF Pending
        <4>3. file \notin Unknown => Gives(call'[t]) /\ call'[t].ret = x
          BY <1>4, <1>6, <2>2, <3>2 DEF Gives
        <4>4. QED
          BY <4>1, <4>2, <4>3 DEF Pending
      <3>3. CASE c.op = "close"
        BY <1>4, <1>6, <1>8, <2>1, <2>2, <3>3 DEF Pending, Closing
      <3>4. QED
        BY <1>7, <1>8, <2>1, <2>2, <3>1, <3>2, <3>3
    <2>3. CASE ~(x = ret /\ c.op # "getfl")
      <3>1. files'[x] = files[x] /\ c.ret = None
        BY <1>1, <1>3, <1>5, <1>8, <2>1, <2>3 DEF CallTyped
      <3>2. ASSUME NEW u \in Threads, Gives(call[u]), call[u].ret = x
            PROVE  call'[u] = call[u]
        BY <1>6, <2>1, <3>1, <3>2
      <3>3. QED
        BY <1>9, <2>1, <2>a, <3>1, <3>2 DEF Pending, FileOf
    <2>4. QED
      BY <2>2, <2>3
  <1>16. QED
    BY <1>1, <1>10, <1>13, <1>14, <1>15 DEF RightBody

\* The exit event of a call: what it makes of the table.
LEMMA RightExit ==
    ASSUME KernelTyped, InspectorTyped, RightBody, NoCopies, NEW t \in Threads,
           call[t].stage = "done", Becomes(t, event_cleanup(NextExit(State(t), call[t])))
    PROVE  LET c == call[t]
           IN  /\ \A u \in Threads \ {t} : last'[u] = last[u]
               /\ last'[t].data = NoEvent
               /\ IF Gives(c) /\ c.ret # None THEN EntryGiven(c.ret, c.file)
                  ELSE IF c.op = "close" /\ c.ret # None
                       THEN (\A file : EntryGiven(c.fd, file)) /\ c.fd \notin Entries'
                       ELSE SameEntries
               /\ c.op = "read" =>
                     NextExit(State(t), c).info \in {None, c.fd} /\
                     (NextExit(State(t), c).info = c.fd =>
                         c.fd \in Entries /\ NextExit(State(t), c).fdt.m_table[c.fd].file = FileOf(c.fd))
  <1> DEFINE c == call[t]
             B == State(t)
             T == NextExit(B, c)
             E == event_cleanup(T)
  <1>1. /\ CallTyped(c) /\ EventTyped(c) /\ use \in Uses
    BY ReturnTyped DEF KernelTyped
  <1>2. /\ StateTyped(B) /\ B.info = None /\ B.last = last[t]
        /\ Entries = Known(B) /\ \A x : Says(B, x) = FileOf(x)
    BY BeginsTyped, EntriesKnown
  <1>3. /\ c.op \in {"openat", "accept", "close", "getfl", "read"}
        /\ c.op \in UsesFd => c.fd \in Fds
    BY <1>1, PlainCalls DEF CallTyped, Ops
  <1>4. /\ B.last.type = Type(c.op) /\ B.last.data.type # "fcntl"
        /\ c.op \in UsesFd => B.last.fd = c.fd
        /\ c.op = "openat" => B.last.data.type = "openat" /\ B.last.data.file = c.file
    BY <1>2 DEF RightBody, Noted
  <1>5. StateTyped(T)
    BY <1>1, <1>2, ExitTyped
  <1>6. /\ StateTyped(E) /\ E.fdt = T.fdt /\ E.toRemove = T.toRemove /\ E.last.data = NoEvent
    BY <1>5, CleanupTyped
  <1>7. Known(E) = Known(T) /\ \A x : Says(E, x) = Says(T, x)
    BY <1>6 DEF Known, Says
  <1>8. Becomes(t, E)
    OBVIOUS
  <1> HIDE DEF c, B, T, E
  <1>9. \A u \in Threads : last'[u] = IF u = t THEN E.last ELSE last[u]
    BY <1>6, <1>8, BecomesTyped
  <1>10. SameKnown(B, T) => SameEntries
    <2>1. SameKnown(B, T) => SameKnown(B, E)
      BY <1>7 DEF SameKnown
    <2>2. QED
      BY <1>6, <1>8, <2>1, SameBecomes DEF B
  <1>11. ASSUME NEW fd, NEW file, GivenKnown(B, T, fd, file)
         PROVE  EntryGiven(fd, file)
    <2>1. GivenKnown(B, E, fd, file)
      BY <1>7, <1>11 DEF GivenKnown
    <2>2. QED
      BY <1>6, <1>8, <2>1, GivenBecomes DEF B
  <1>12. Entries' = Known(T)
    BY <1>6, <1>7, <1>8, EntriesBecome
  <1>13. CASE c.op = "openat"
    <2>1. retrieve_enter_event(B, c)
      BY <1>4, <1>13 DEF retrieve_enter_event, Valid, Type, NoEvent
    <2>2. IF c.ret # None THEN GivenKnown(B, T, c.ret, c.file) ELSE SameKnown(B, T)
      BY <1>1, <1>2, <1>4, <1>13, <2>1, OpenExitFiles DEF T
    <2>3. QED
      BY <1>6, <1>9, <1>10, <1>11, <1>13, <2>2 DEF c, B, T, Gives
  <1>14. CASE c.op = "accept"
    <2>1. IF Gives(c) /\ c.ret # None THEN GivenKnown(B, T, c.ret, c.file) ELSE SameKnown(B, T)
      BY <1>1, <1>2, <1>14, AcceptExitFiles DEF T, Gives
    <2>2. QED
      BY <1>6, <1>9, <1>10, <1>11, <1>14, <2>1 DEF c, B, T
  <1>15. CASE c.op = "close"
    <2>1. /\ B.last.fd = c.fd /\ (Found(B, c) <=> c.fd \in Known(B))
      BY <1>4, <1>15 DEF Found, Valid, UsesFd
    <2>2. IF c.ret # None /\ c.fd \in Known(B)
          THEN (\A file : GivenKnown(B, T, c.fd, file)) /\ c.fd \notin Known(T)
          ELSE SameKnown(B, T)
      BY <1>1, <1>2, <1>15, <2>1, CloseExitFiles DEF T
    <2>3. c.fd \notin Known(B) /\ SameKnown(B, T) =>
             (\A file : GivenKnown(B, T, c.fd, file)) /\ c.fd \notin Known(T)
      BY DEF SameKnown, GivenKnown
    <2>4. c.ret # None => (\A file : EntryGiven(c.fd, file)) /\ c.fd \notin Entries'
      BY <1>11, <1>12, <2>2, <2>3
    <2>5. QED
      BY <1>6, <1>9, <1>10, <1>15, <2>2, <2>4 DEF c, B, T, Gives
  <1>16. CASE c.op = "getfl"
    <2>1. ~TakenForCopy(B, c)
      BY <1>4, <1>16 DEF TakenForCopy, retrieve_enter_event, Type
    <2>2. SameKnown(B, T)
      BY <1>1, <1>2, <1>16, <2>1, CopyExitFiles DEF T
    <2>3. QED
      BY <1>6, <1>9, <1>10, <1>16, <2>2 DEF c, B, T, Gives
  <1>17. CASE c.op = "read"
    <2>1. SameKnown(B, T) /\ T.info = IF Found(B, c) THEN B.last.fd ELSE None
      BY <1>1, <1>2, <1>17, ReadExitFiles DEF T
    <2>2. B.last.fd = c.fd /\ (Found(B, c) => c.fd \in Known(B)) /\ c.fd # None
      BY <1>3, <1>4, <1>17, Fdss DEF Found, UsesFd
    <2>3. /\ T.info \in {None, c.fd}
          /\ T.info = c.fd => c.fd \in Entries /\ T.fdt.m_table[c.fd].file = FileOf(c.fd)
      BY <1>2, <2>1, <2>2 DEF SameKnown, Says
    <2>4. QED
      BY <1>6, <1>9, <1>10, <1>17, <2>1, <2>3 DEF c, B, T, Gives
  <1>18. QED
    BY <1>3, <1>13, <1>14, <1>15, <1>16, <1>17, ZenonT(60)

\* The call returns.
LEMMA RightReturn ==
    ASSUME KernelTyped, InspectorTyped, RightBody, NoCopies, NEW t \in Threads, Return(t),
           lost \in Nat, lost = 0, lost' = 0
    PROVE  RightBody'
  <1> DEFINE c == call[t]
             T == NextExit(State(t), c)
  <1>1. /\ c.stage = "done" /\ call' = [call EXCEPT ![t] = Idle] /\ UNCHANGED <<use, files>>
        /\ Becomes(t, event_cleanup(T)) /\ parsed'.file = c.file
        /\ parsed'.on = IF c.op = "read" /\ T.info # None THEN T.fdt.m_table[T.info].file ELSE None
    <2>1. ~Lose
      BY DEF Lose
    <2>2. /\ c.stage = "done" /\ call' = [call EXCEPT ![t] = Idle] /\ UNCHANGED <<use, files>>
          /\ Becomes(t, event_cleanup(T))
          /\ \E id, enter : parsed' =
                [id |-> id, enter |-> enter,
                 on |-> IF c.op = "read" /\ T.info # None THEN T.fdt.m_table[T.info].file ELSE None,
                 file |-> c.file]
      BY <2>1 DEF Return
    <2> HIDE DEF T, c
    <2>3. QED
      BY <2>2
  <1>2. /\ \A u \in Threads \ {t} : last'[u] = last[u]
        /\ last'[t].data = NoEvent
        /\ IF Gives(c) /\ c.ret # None THEN EntryGiven(c.ret, c.file)
           ELSE IF c.op = "close" /\ c.ret # None
                THEN (\A file : EntryGiven(c.fd, file)) /\ c.fd \notin Entries'
                ELSE SameEntries
        /\ c.op = "read" =>
              /\ T.info \in {None, c.fd}
              /\ T.info = c.fd => c.fd \in Entries /\ T.fdt.m_table[c.fd].file = FileOf(c.fd)
    BY <1>1, RightExit, ZenonT(60)
  <1>3. /\ CallTyped(c) /\ Noted(t) /\ Holds(t) /\ c.op # "none"
    BY <1>1 DEF KernelTyped, RightBody, CallTyped, Ops
  <1> HIDE DEF T
  <1>4. \A u \in Threads : call'[u] = IF u = t THEN Idle ELSE call[u]
    BY <1>1 DEF KernelTyped
  <1>5. \A u \in Threads : Noted(u)' /\ last'[u].data.type # "fcntl"
    <2>1. Noted(t)' /\ last'[t].data.type # "fcntl"
      BY <1>2, <1>4 DEF Noted, NoEvent, Idle
    <2>2. \A u \in Threads \ {t} : Noted(u)' /\ last'[u].data.type # "fcntl"
      BY <1>1, <1>2, <1>4 DEF RightBody, Noted
    <2>3. QED
      BY <2>1, <2>2
  <1>6. \A u \in Threads : Holds(u)'
    BY <1>1, <1>4 DEF RightBody, Holds, Idle
  <1>7. \A u, v \in Threads : u # v => Apart(u, v)'
    <2>1. Changes(Idle) = {} /\ Reads(Idle) = {}
      BY DEF Changes, Reads, Idle, UsesFd
    <2>2. QED
      BY <1>4, <2>1 DEF RightBody, Apart
  <1>8. \A x \in Entries : x \in Fds /\ x # None /\ Pending(x)
    BY EntriesKnown, Fdss DEF RightBody
  <1>9. \A x \in Entries' : Pending(x)'
    <2>a. Entries' \subseteq Fds
      <3>1. InspectorTyped'
        BY <1>1, <1>3, BeginsTyped, ReturnTyped, ExitTyped, CleanupTyped, BecomesTyped DEF KernelTyped, T
      <3>2. QED
        BY <3>1, Fdss DEF Entries, InspectorTyped, Typed, Numbers, AnyFd
    <2> SUFFICES ASSUME NEW x \in Entries' PROVE Pending(x)'
      OBVIOUS
    <2>1. CASE Gives(c) /\ c.ret # None
      <3>1. CASE x = c.ret
        <4>1. fdt'.m_table[x].file = c.file /\ files[x] = c.file
          BY <1>2, <1>3, <2>1, <3>1 DEF EntryGiven, Holds, Gives
        <4>2. c.file # None /\ files' = files
          BY <1>1, <1>3, <2>1, FdsAssumption, ZenonT(60) DEF CallTyped, Gives
        <4>3. QED
          BY <4>1, <4>2 DEF Pending, FileOf
      <3>2. CASE x # c.ret
        <4>1. x \in Entries /\ fdt'.m_table[x].file = FileOf(x)
          BY <1>2, <2>a, <2>1, <3>2 DEF EntryGiven
        <4>2. QED
          BY <1>1, <1>4, <1>8, <2>1, <3>2, <4>1 DEF Pending, Closing, Gives, FileOf
      <3>3. QED
        BY <3>1, <3>2
    <2>2. CASE c.op = "close" /\ c.ret # None
      <3>a. ~Gives(c)
        BY <2>2 DEF Gives
      <3>1. x # c.ret /\ c.ret = c.fd
        BY <1>2, <1>3, <2>2, <3>a DEF Holds
      <3>2. x \in Entries /\ fdt'.m_table[x].file = FileOf(x)
        BY <1>2, <2>a, <2>2, <3>a, <3>1 DEF EntryGiven
      <3>3. QED
        BY <1>1, <1>4, <1>8, <2>2, <3>1, <3>2 DEF Pending, Closing, Gives, FileOf
    <2>3. CASE ~((Gives(c) \/ c.op = "close") /\ c.ret # None)
      <3>1. x \in Entries /\ fdt'.m_table[x].file = FileOf(x)
        BY <1>2, <2>3 DEF SameEntries
      <3>2. QED
        BY <1>1, <1>4, <1>8, <2>3, <3>1 DEF Pending, Closing, FileOf
    <2>4. QED
      BY <2>1, <2>2, <2>3
  <1>10. parsed'.file \notin Unknown => parsed'.on \in {None, parsed'.file}
    <2> SUFFICES ASSUME c.file \notin Unknown PROVE parsed'.on \in {None, parsed'.file}
      BY <1>1
    <2>1. CASE c.op = "read" /\ T.info # None
      <3>1. T.info = c.fd /\ c.fd \in Entries /\ parsed'.on = FileOf(c.fd)
        BY <1>1, <1>2, <2>1
      <3>2. Reads(c) = {c.fd}
        BY <2>1 DEF Reads, UsesFd
      <3>3. ASSUME NEW u \in Threads, Gives(call[u]), call[u].ret = c.fd
            PROVE  FALSE
        <4>1. Changes(call[u]) = {c.fd}
          BY <1>8, <3>1, <3>3, ChangesOf DEF Gives
        <4>2. QED
          BY <2>1, <3>2, <3>3, <4>1 DEF RightBody, Apart, Gives
      <3>4. files[c.fd] # None
        <4>1. SUFFICES ASSUME files[c.fd] = None PROVE FALSE
          OBVIOUS
        <4>2. use.threads = {t}
          BY <1>3, <2>1, <4>1 DEF Holds
        <4>3. PICK u \in Threads : call[u].op = "close" /\ call[u].stage = "done"
          BY <1>8, <3>1, <4>1 DEF Pending, Closing
        <4>4. QED
          BY <2>1, <4>2, <4>3 DEF RightBody, Noted
      <3>5. c.file = files[c.fd]
        BY <1>1, <1>3, <2>1, <3>4 DEF Holds
      <3>a. FileOf(c.fd) = files[c.fd]
        BY <1>8, <3>1, <3>3, <3>4, <3>5 DEF Pending
      <3>6. QED
        BY <1>1, <3>1, <3>5, <3>a
    <2>2. CASE ~(c.op = "read" /\ T.info # None)
      BY <1>1, <2>2
    <2>3. QED
      BY <2>1, <2>2
  <1>11. QED
    BY <1>5, <1>6, <1>7, <1>9, <1>10 DEF RightBody

\* Every step.
LEMMA RightStep ==
    ASSUME MinProper, KernelTyped, InspectorTyped, RightInv, [Next]_vars
    PROVE  RightInv'
  <1>1. use' = use /\ lost' \in Nat /\ (lost' = 0 => lost = 0)
    <2>1. use' = use /\ (lost' = lost \/ Lose)
      <3>1. ASSUME NEW t \in Threads, NEW op \in Ops, NEW fd \in Fds \cup {None},
                   NEW to \in Fds \cup {None}, NEW file \in Files \cup {None}, Enter(t, op, fd, to, file)
            PROVE  use' = use /\ (lost' = lost \/ Lose)
        BY <3>1 DEF Enter
      <3>2. ASSUME NEW t \in Threads, Effect(t)
            PROVE  use' = use /\ lost' = lost
        BY <3>2 DEF Effect
      <3>3. ASSUME NEW t \in Threads, Return(t)
            PROVE  use' = use /\ (lost' = lost \/ Lose)
        BY <3>3 DEF Return
      <3>4. QED
        BY <3>1, <3>2, <3>3 DEF Next, vars
    <2>2. QED
      BY <2>1 DEF RightInv, Lose
  <1>2. NoCopies' <=> NoCopies
    BY <1>1 DEF NoCopies
  <1> SUFFICES ASSUME lost = 0, lost' = 0, NoCopies, RightBody, lost \in Nat PROVE RightBody'
    BY <1>1, <1>2 DEF RightInv
  <1>3. ASSUME NEW t \in Threads, NEW op \in Ops, NEW fd \in Fds \cup {None},
               NEW to \in Fds \cup {None}, NEW file \in Files \cup {None}, Enter(t, op, fd, to, file)
        PROVE  RightBody'
    BY <1>3, RightEnter
  <1>4. ASSUME NEW t \in Threads, Effect(t)
        PROVE  RightBody'
    BY <1>4, RightEffect
  <1>5. ASSUME NEW t \in Threads, Return(t)
        PROVE  RightBody'
    BY <1>5, RightReturn
  <1>6. CASE UNCHANGED vars
    <2>1. UNCHANGED <<use, files, call, fdt, toRemove, last, parsed>>
      BY <1>6 DEF vars, kernelVars, inspectorVars
    <2>2. \A t \in Threads : Noted(t)' /\ Holds(t)' /\ last'[t].data.type # "fcntl"
      BY <2>1 DEF RightBody, Noted, Holds
    <2>3. \A t, u \in Threads : t # u => Apart(t, u)'
      BY <2>1 DEF RightBody, Apart
    <2>4. \A fd \in Entries' : Pending(fd)'
      BY <2>1 DEF RightBody, Pending, Closing, Gives, Entries, FileOf
    <2>5. QED
      BY <2>1, <2>2, <2>3, <2>4 DEF RightBody
  <1>7. QED
    BY <1>3, <1>4, <1>5, <1>6 DEF Next

---------------------------------------------------------------------------
\* Events are lost: one thread

\* A process with one thread, a table with room for all descriptors, and no fcntl that
\* an F_DUPFD whose exit event was lost could be paired with.
Single(t) == use.threads = {t} /\ use.limit > Cardinality(Fds)
NoStaleFcntl == use.losses = 0 \/ "getfl" \notin use.ops

\* Every socket that a process accepts is one that the parser knows.
AllKnown == Unknown = {} \/ "accept" \notin use.ops

\* The enter event of the call was seen, and is the last event of the thread.
Remembered(t) ==
    LET c == call[t]
    IN  /\ last[t].type = Type(c.op)
        /\ c.op \in UsesFd => last[t].fd = c.fd
        /\ c.op \in {"openat", "fcntl"} => last[t].data.type = Type(c.op)
        /\ c.op = "openat" => last[t].data.file = c.file

\* What a call that took effect left in the kernel's table.
Left(c) ==
    c.ret # None =>
       /\ c.op \in {"openat", "accept"} => files[c.ret] = c.file
       /\ c.op \in {"dup", "dup2", "fcntl"} =>
             files[c.ret] = files[c.fd] /\ files[c.fd] # None /\ c.ret # c.fd
       /\ c.op = "close" => c.ret = c.fd /\ files[c.ret] = None
       /\ c.op # "read"

HealBody(t) ==
    LET c == call[t]
    IN  /\ \A u \in Threads \ {t} : call[u] = Idle
        /\ c.stage # "idle" => IF c.seen THEN Remembered(t) ELSE sure = {} /\ use.losses # 0
        /\ Left(c)
        /\ use.losses = 0 /\ last[t].data.type = "fcntl" => c.op = "fcntl"
        /\ \A fd \in sure : Exact(fd) \/ fd \in Gave(c)
        /\ use.losses = 0 /\ AllKnown => sure = Fds

HealInv ==
    /\ lost \in Nat /\ sure \subseteq Fds
    /\ \A t \in Threads : Single(t) /\ NoStaleFcntl => HealBody(t)

\* What the table says of a number stays exact when neither table changes it.
LEMMA ExactStays ==
    ASSUME NEW x \in Fds, Exact(x), files'[x] = files[x], x \in Entries' <=> x \in Entries,
           x \in Entries => fdt'.m_table[x].file = FileOf(x)
    PROVE  Exact(x)'
  BY DEF Exact, Right, FileOf

\* Nothing is lost when nothing may be.
LEMMA LoseLosses ==
    ASSUME Lose, lost \in Nat, use \in Uses, use' = use
    PROVE  use.losses # 0 /\ lost' \in Nat /\ sure' = {}
  <1>1. use.losses # 0
    BY FdsAssumption DEF Lose, Use
  <1>2. QED
    BY <1>1 DEF Lose

\* The enter event of a call.
LEMMA HealEnter ==
    ASSUME KernelTyped, InspectorTyped, HealInv, NEW s \in Threads, Single(s), NoStaleFcntl,
           NEW t \in Threads, NEW op \in Ops, NEW fd \in Fds \cup {None}, NEW to \in Fds \cup {None},
           NEW file \in Files \cup {None}, Enter(t, op, fd, to, file)
    PROVE  HealBody(s)'
  <1> DEFINE c == Entered(op, fd, to, file)
             d == [c EXCEPT !.seen = FALSE]
             S == NextEnter(State(t), c)
  <1>1. /\ CallTyped(c) /\ CallTyped(d) /\ EventTyped(c) /\ t \in use.threads /\ call[t] = Idle
        /\ Sound(t, c) /\ calls' = calls + 1 /\ UNCHANGED <<use, files, parsed>>
        /\ \/ /\ call' = [call EXCEPT ![t] = c]
              /\ Becomes(t, NextEnter(State(t), c)) /\ UNCHANGED <<lost, sure>>
           \/ /\ call' = [call EXCEPT ![t] = [c EXCEPT !.seen = FALSE]]
              /\ Lose /\ UNCHANGED inspectorVars
    BY EnteredTyped, ZenonT(60)
  <1>2. /\ c.stage = "entered" /\ c.op = op /\ c.fd = fd /\ c.file = file /\ c.ret = None /\ c.seen = TRUE
        /\ d.stage = "entered" /\ d.ret = None /\ d.op = op /\ d.seen = FALSE
    BY DEF Entered
  <1> HIDE DEF c, d
  <1>3. t = s /\ HealBody(t) /\ use \in Uses /\ lost \in Nat /\ sure \subseteq Fds
    BY <1>1 DEF Single, HealInv, KernelTyped
  <1>4. \A x \in sure : x \in Fds /\ Exact(x)
    BY <1>1, <1>3 DEF HealBody, Idle, Gave
  <1>5. CASE call' = [call EXCEPT ![t] = c] /\ Becomes(t, S) /\ sure' = sure
    <2>1. \A u \in Threads : call'[u] = IF u = t THEN c ELSE call[u]
      BY <1>5 DEF KernelTyped
    <2>2. /\ StateTyped(S) /\ SameKnown(State(t), S)
          /\ S.last.type = Type(c.op) /\ S.last.fd = FdOf(c)
          /\ S.last.data = IF c.op \in {"openat", "fcntl"} THEN DataOf(c) ELSE State(t).last.data
      BY <1>1, BeginsTyped, EnterFiles
    <2> HIDE DEF S
    <2>3. SameEntries /\ last'[t] = S.last
      BY <1>5, <2>2, SameBecomes, BecomesTyped
    <2>4. Remembered(t)'
      <3>1. /\ last'[t].type = Type(op) /\ (op \in UsesFd => last'[t].fd = fd)
            /\ op \in {"openat", "fcntl"} => last'[t].data.type = Type(op) /\ last'[t].data.file = file
        BY <1>2, <2>2, <2>3 DEF FdOf, DataOf
      <3>2. QED
        BY <1>2, <2>1, <3>1 DEF Remembered
    <2>5. use.losses = 0 /\ last'[t].data.type = "fcntl" => op = "fcntl"
      <3>1. op \notin {"openat", "fcntl"} => last'[t].data = last[t].data
        BY <1>2, <2>2, <2>3, BeginsTyped
      <3>2. op = "openat" => last'[t].data.type = "openat"
        BY <1>2, <2>2, <2>3 DEF DataOf, Type
      <3>3. use.losses = 0 => last[t].data.type # "fcntl"
        BY <1>1, <1>3 DEF HealBody, Idle
      <3>4. QED
        BY <3>1, <3>2, <3>3
    <2>6. AllKnown' <=> AllKnown
      BY <1>1 DEF AllKnown
    <2>7. \A x \in sure : Exact(x)'
      BY <1>1, <1>4, <2>3, ExactStays DEF SameEntries
    <2>8. Left(call[t])'
      BY <1>2, <2>1 DEF Left
    <2>9. QED
      BY <1>1, <1>2, <1>3, <1>5, <2>1, <2>4, <2>5, <2>6, <2>7, <2>8 DEF HealBody
  <1>6. CASE call' = [call EXCEPT ![t] = d] /\ Lose /\ UNCHANGED inspectorVars
    <2>1. \A u \in Threads : call'[u] = IF u = t THEN d ELSE call[u]
      BY <1>6 DEF KernelTyped
    <2>2. use.losses # 0 /\ sure' = {}
      BY <1>1, <1>3, <1>6, LoseLosses
    <2>3. Left(call[t])'
      BY <1>2, <2>1 DEF Left
    <2>4. QED
      BY <1>1, <1>2, <1>3, <2>1, <2>2, <2>3 DEF HealBody
  <1>7. QED
    BY <1>1, <1>5, <1>6 DEF d

\* The call takes effect.
LEMMA HealEffect ==
    ASSUME MinProper, KernelTyped, InspectorTyped, HealInv, NEW s \in Threads, Single(s), NoStaleFcntl,
           NEW t \in Threads, Effect(t)
    PROVE  HealBody(s)'
  <1> DEFINE c == call[t]
  <1>1. /\ c.stage = "entered" /\ UNCHANGED <<use, sure, inspectorVars>>
    BY EffectCases
  <1>a. PICK ret \in Fds \cup {None} : \E file :
               call' = [call EXCEPT ![t] = Done(c, file, ret)] /\ Took(c, file, ret)
    BY EffectCases
  <1>2. PICK file : call' = [call EXCEPT ![t] = Done(c, file, ret)] /\ Took(c, file, ret)
    BY <1>a
  <1> DEFINE d == Done(c, file, ret)
  <1>3. CallTyped(c)
    BY DEF KernelTyped
  <1>4. /\ d.stage = "done" /\ d.op = c.op /\ d.fd = c.fd /\ d.file = file /\ d.ret = ret
        /\ d.seen = c.seen
    BY <1>1, <1>2, <1>3, DoneTyped
  <1>5. files' \in [Fds -> Files \cup {None}] /\ \A fd \in Fds \ {ret} : files'[fd] = files[fd]
    BY <1>1, <1>2, TookFiles
  <1>6. \A u \in Threads : call'[u] = IF u = t THEN d ELSE call[u]
    BY <1>2 DEF KernelTyped
  <1> HIDE DEF d
  <1>7. t = s /\ HealBody(t) /\ sure \subseteq Fds
    <2>1. HealBody(s) /\ sure \subseteq Fds
      BY DEF HealInv
    <2>2. t = s
      BY <1>1, <2>1 DEF HealBody, Idle
    <2>3. QED
      BY <2>1, <2>2
  <1>8. Entries' = Entries /\ fdt' = fdt /\ last' = last
    BY <1>1 DEF inspectorVars, Entries
  <1>9. c.ret = None /\ c.op \in Ops /\ (c.op \in UsesFd => c.fd \in Fds) /\ (c.op \notin UsesFd => c.fd = None)
    BY <1>1, <1>3 DEF CallTyped
  <1>10. (c.op \in {"getfl", "read"} => files' = files) /\ (c.op = "read" => ret = None)
    BY <1>2 DEF Took
  <1>11. Left(call[t])'
    <2>1. files \in [Fds -> Files \cup {None}]
      BY DEF KernelTyped
    <2>2. CASE c.op \in {"openat", "accept"}
      BY <1>2, <1>4, <1>6, <2>1, <2>2 DEF Left, Took
    <2>3. CASE c.op \in {"dup", "dup2", "fcntl"}
      <3>1. ret # None => /\ ret \in Fds \ {c.fd} /\ files[c.fd] # None
                          /\ files'[ret] = files[c.fd] /\ files'[c.fd] = files[c.fd]
        BY <1>2, <1>9, <2>1, <2>3 DEF Took, UsesFd
      <3>2. QED
        BY <1>4, <1>6, <2>3, <3>1 DEF Left
    <2>4. CASE c.op = "close"
      BY <1>2, <1>4, <1>6, <2>1, <2>4 DEF Left, Took
    <2>5. CASE c.op \in {"getfl", "read"}
      BY <1>4, <1>6, <1>10, <2>5 DEF Left
    <2>6. QED
      BY <1>9, <2>2, <2>3, <2>4, <2>5 DEF Ops
  <1>12. \A x \in sure : x \in Fds /\ x # None /\ Exact(x)
    BY <1>7, <1>9, Fdss DEF HealBody, Gave
  <1>13. \A x \in sure : Exact(x)' \/ x \in Gave(d)
    <2> SUFFICES ASSUME NEW x \in sure, x \notin Gave(d) PROVE Exact(x)'
      OBVIOUS
    <2>0. x # ret \/ c.op = "getfl"
      BY <1>4, <1>12 DEF Gave
    <2>1. files'[x] = files[x]
      BY <1>5, <1>10, <1>12, <2>0
    <2>2. QED
      BY <1>8, <1>12, <2>1, ExactStays DEF FileOf
  <1>14. Remembered(t) => Remembered(t)'
    <2>1. c.op = "openat" => file = c.file
      BY <1>2, <1>9 DEF Took, UsesFd
    <2>2. QED
      BY <1>4, <1>6, <1>8, <2>1 DEF Remembered
  <1>b. AllKnown' <=> AllKnown
    BY <1>1 DEF AllKnown
  <1>15. QED
    BY <1>1, <1>4, <1>6, <1>7, <1>8, <1>b, <1>11, <1>13, <1>14 DEF HealBody

\* The exit event of a call whose enter event was seen: what it makes of the table.
LEMMA HealExit ==
    ASSUME KernelTyped, InspectorTyped, NEW t \in Threads, Roomy,
           call[t].stage = "done", Remembered(t),
           call[t].op = "getfl" => last[t].data.type # "fcntl",
           Becomes(t, event_cleanup(NextExit(State(t), call[t])))
    PROVE  LET c == call[t]
           IN  IF Gives(c) /\ c.ret # None
               THEN EntryGiven(c.ret, c.file) /\ c.ret \in Entries'
               ELSE IF c.op = "close" /\ c.ret # None
               THEN (\A file : EntryGiven(c.fd, file)) /\ c.fd \notin Entries'
               ELSE IF c.op \in {"dup", "dup2", "fcntl"} /\ c.ret # None /\ c.fd \in Entries
               THEN EntryGiven(c.ret, FileOf(c.fd)) /\ c.ret \in Entries'
               ELSE SameEntries
  <1> DEFINE c == call[t]
             B == State(t)
             T == NextExit(B, c)
             E == event_cleanup(T)
  <1>1. /\ CallTyped(c) /\ EventTyped(c) /\ use \in Uses
    BY ReturnTyped DEF KernelTyped
  <1>2. /\ StateTyped(B) /\ B.info = None /\ B.last = last[t]
        /\ Entries = Known(B) /\ \A x : Says(B, x) = FileOf(x)
    BY BeginsTyped, EntriesKnown
  <1>3. /\ c.op \in Ops /\ (c.op \in UsesFd => c.fd \in Fds)
    BY <1>1 DEF CallTyped
  <1>4. /\ B.last.type = Type(c.op) /\ (c.op = "getfl" => B.last.data.type # "fcntl")
        /\ c.op \in UsesFd => B.last.fd = c.fd
        /\ c.op \in {"openat", "fcntl"} => B.last.data.type = Type(c.op)
        /\ c.op = "openat" => B.last.data.file = c.file
    BY <1>2 DEF Remembered
  <1>5. StateTyped(T)
    BY <1>1, <1>2, ExitTyped
  <1>6. /\ StateTyped(E) /\ E.fdt = T.fdt /\ E.toRemove = T.toRemove
    BY <1>5, CleanupTyped
  <1>7. Known(E) = Known(T) /\ \A x : Says(E, x) = Says(T, x)
    BY <1>6 DEF Known, Says
  <1>8. Becomes(t, E)
    OBVIOUS
  <1> HIDE DEF c, B, T, E
  <1>9. SameKnown(B, T) => SameEntries
    <2>1. SameKnown(B, T) => SameKnown(B, E)
      BY <1>7 DEF SameKnown
    <2>2. QED
      BY <1>6, <1>8, <2>1, SameBecomes DEF B
  <1>10. ASSUME NEW fd, NEW file, GivenKnown(B, T, fd, file)
         PROVE  EntryGiven(fd, file)
    <2>1. GivenKnown(B, E, fd, file)
      BY <1>7, <1>10 DEF GivenKnown
    <2>2. QED
      BY <1>6, <1>8, <2>1, GivenBecomes DEF B
  <1>11. Entries' = Known(T)
    BY <1>6, <1>7, <1>8, EntriesBecome
  <1>12. CASE c.op = "openat"
    <2>1. retrieve_enter_event(B, c)
      BY <1>4, <1>12 DEF retrieve_enter_event, Valid, Type, NoEvent
    <2>2. IF c.ret # None THEN GivenKnown(B, T, c.ret, c.file) /\ c.ret \in Known(T) ELSE SameKnown(B, T)
      BY <1>1, <1>2, <1>4, <1>12, <2>1, OpenExitFiles DEF T
    <2>3. QED
      BY <1>9, <1>10, <1>11, <1>12, <2>2 DEF c, Gives
  <1>13. CASE c.op = "accept"
    <2>1. IF Gives(c) /\ c.ret # None
          THEN GivenKnown(B, T, c.ret, c.file) /\ c.ret \in Known(T) ELSE SameKnown(B, T)
      BY <1>1, <1>2, <1>13, AcceptExitFiles DEF T, Gives
    <2>2. QED
      BY <1>9, <1>10, <1>11, <1>13, <2>1 DEF c
  <1>14. CASE c.op = "close"
    <2>1. /\ B.last.fd = c.fd /\ (Found(B, c) <=> c.fd \in Known(B))
      BY <1>4, <1>14 DEF Found, Valid, UsesFd
    <2>2. IF c.ret # None /\ c.fd \in Known(B)
          THEN (\A file : GivenKnown(B, T, c.fd, file)) /\ c.fd \notin Known(T)
          ELSE SameKnown(B, T)
      BY <1>1, <1>2, <1>14, <2>1, CloseExitFiles DEF T
    <2>3. c.fd \notin Known(B) /\ SameKnown(B, T) =>
             (\A file : GivenKnown(B, T, c.fd, file)) /\ c.fd \notin Known(T)
      BY DEF SameKnown, GivenKnown
    <2>4. c.ret # None => (\A file : EntryGiven(c.fd, file)) /\ c.fd \notin Entries'
      BY <1>10, <1>11, <2>2, <2>3
    <2>5. QED
      BY <1>9, <1>14, <2>2, <2>4 DEF c, Gives
  <1>15. CASE c.op \in {"dup", "dup2", "fcntl"}
    <2>1. /\ B.last.fd = c.fd /\ (Found(B, c) <=> c.fd \in Known(B))
      BY <1>4, <1>15 DEF Found, Valid, UsesFd
    <2>2. Type(c.op) = "fcntl" => retrieve_enter_event(B, c)
      BY <1>4, <1>15 DEF retrieve_enter_event, Valid, Type, NoEvent
    <2>3. TakenForCopy(B, c) <=> c.fd \in Known(B) /\ c.ret # None
      BY <2>1, <2>2 DEF TakenForCopy
    <2>4. IF TakenForCopy(B, c)
          THEN GivenKnown(B, T, c.ret, Says(B, c.fd)) /\ c.ret \in Known(T)
          ELSE SameKnown(B, T)
      BY <1>1, <1>2, <1>15, <2>1, CopyExitFiles DEF T
    <2>5. QED
      BY <1>2, <1>9, <1>10, <1>11, <1>15, <2>3, <2>4 DEF c, Gives
  <1>16. CASE c.op = "getfl"
    <2>1. ~TakenForCopy(B, c)
      BY <1>4, <1>16 DEF TakenForCopy, retrieve_enter_event, Type
    <2>2. SameKnown(B, T)
      BY <1>1, <1>2, <1>16, <2>1, CopyExitFiles DEF T
    <2>3. QED
      BY <1>9, <1>16, <2>2 DEF c, Gives
  <1>17. CASE c.op = "read"
    <2>1. SameKnown(B, T)
      BY <1>1, <1>2, <1>17, ReadExitFiles DEF T
    <2>2. QED
      BY <1>9, <1>17, <2>1 DEF c, Gives
  <1>18. QED
    BY <1>3, <1>12, <1>13, <1>14, <1>15, <1>16, <1>17 DEF Ops

\* The call returns.
LEMMA HealReturn ==
    ASSUME KernelTyped, InspectorTyped, HealInv, NEW s \in Threads, Single(s), NoStaleFcntl,
           NEW t \in Threads, Return(t), use.limit > Cardinality(Fds) => Roomy
    PROVE  HealBody(s)'
  <1> DEFINE c == call[t]
             T == NextExit(State(t), c)
             now == IF c.seen /\ Told(c) THEN sure \cup Gave(c) ELSE sure \ Gave(c)
  <1>1. /\ c.stage = "done" /\ call' = [call EXCEPT ![t] = Idle] /\ UNCHANGED <<use, files>>
        /\ \/ Becomes(t, event_cleanup(T)) /\ sure' = now
           \/ Lose /\ UNCHANGED inspectorVars
    BY DEF Return
  <1>2. \A u \in Threads : call'[u] = IF u = t THEN Idle ELSE call[u]
    BY <1>1 DEF KernelTyped
  <1>3. t = s /\ HealBody(t) /\ sure \subseteq Fds /\ lost \in Nat
    <2>1. HealBody(s) /\ sure \subseteq Fds /\ lost \in Nat
      BY DEF HealInv
    <2>2. t = s
      BY <1>1, <2>1 DEF HealBody, Idle
    <2>3. QED
      BY <2>1, <2>2
  <1>4. /\ use \in Uses /\ CallTyped(c) /\ EventTyped(c) /\ c.op \in use.ops \cap Ops
        /\ c.ret \in Fds \cup {None} /\ (c.op \in UsesFd => c.fd \in Fds)
    BY <1>1, ReturnTyped DEF KernelTyped, CallTyped
  <1>5. Left(Idle)' /\ Idle.ret = None /\ Idle.stage = "idle"
    BY DEF Left, Idle
  <1> SUFFICES /\ use.losses = 0 => last'[t].data.type # "fcntl"
               /\ \A x \in sure' : Exact(x)'
               /\ use.losses = 0 /\ AllKnown => sure' = Fds
    <2>1. (AllKnown' <=> AllKnown) /\ use' = use
      BY <1>1 DEF AllKnown
    <2>2. QED
      BY <1>2, <1>3, <1>5, <2>1, ZenonT(60) DEF HealBody
  <1>6. CASE Lose /\ UNCHANGED inspectorVars
    <2>1. use.losses # 0 /\ sure' = {}
      BY <1>1, <1>3, <1>4, <1>6, LoseLosses
    <2>2. QED
      BY <2>1
  <1>7. CASE Becomes(t, event_cleanup(T)) /\ sure' = now
    <2>1. last'[t].data = NoEvent
      <3>1. StateTyped(T)
        BY <1>4, BeginsTyped, ExitTyped
      <3> HIDE DEF T
      <3>2. StateTyped(event_cleanup(T)) /\ event_cleanup(T).last.data = NoEvent
        BY <3>1, CleanupTyped
      <3>3. QED
        BY <1>7, <3>2, BecomesTyped
    <2>2. last'[t].data.type # "fcntl"
      BY <2>1 DEF NoEvent
    <2>3. CASE ~c.seen
      <3>1. sure = {} /\ use.losses # 0
        BY <1>1, <1>3, <2>3 DEF HealBody
      <3>2. sure' = {}
        BY <1>7, <2>3, <3>1
      <3>3. QED
        BY <3>1, <3>2
    <2>4. CASE c.seen
      <3>1. Remembered(t) /\ Left(c)
        BY <1>1, <1>3, <2>4 DEF HealBody
      <3>2. c.op = "getfl" => use.losses = 0 /\ last[t].data.type # "fcntl"
        BY <1>3, <1>4 DEF NoStaleFcntl, HealBody
      <3>3. IF Gives(c) /\ c.ret # None
            THEN EntryGiven(c.ret, c.file) /\ c.ret \in Entries'
            ELSE IF c.op = "close" /\ c.ret # None
            THEN (\A file : EntryGiven(c.fd, file)) /\ c.fd \notin Entries'
            ELSE IF c.op \in {"dup", "dup2", "fcntl"} /\ c.ret # None /\ c.fd \in Entries
            THEN EntryGiven(c.ret, FileOf(c.fd)) /\ c.ret \in Entries'
            ELSE SameEntries
        BY <1>1, <1>3, <1>7, <3>1, <3>2, HealExit DEF Single
      <3>4. Gave(c) \subseteq Fds /\ sure' = IF Told(c) THEN sure \cup Gave(c) ELSE sure \ Gave(c)
        BY <1>4, <1>7, <2>4 DEF Gave
      <3>5. \A x \in sure : Exact(x) \/ x \in Gave(c)
        BY <1>3 DEF HealBody
      <3> HIDE DEF T, now
      <3>a. use.losses = 0 /\ AllKnown => sure' = Fds
        <4> SUFFICES ASSUME use.losses = 0, AllKnown PROVE Told(c) \/ Gave(c) = {}
          BY <1>3, <3>4 DEF HealBody
        <4>1. c.op \in UsesFd => c.fd \in sure
          BY <1>3, <1>4 DEF HealBody
        <4>2. c.op = "accept" => c.file \notin Unknown
          BY <1>4 DEF AllKnown
        <4>3. c.op = "read" => Gave(c) = {}
          BY <3>1 DEF Left, Gave
        <4>4. QED
          BY <1>4, <4>1, <4>2, <4>3 DEF Told, Gave, UsesFd, Ops
      <3> SUFFICES ASSUME NEW x \in sure' PROVE Exact(x)'
        BY <2>2, <3>a
      <3>6. x \in Fds /\ x # None /\ files' = files
        BY <1>1, <1>3, <3>4, Fdss
      <3>7. ASSUME Exact(x), x \in Entries' <=> x \in Entries,
                   x \in Entries => fdt'.m_table[x].file = FileOf(x)
            PROVE  Exact(x)'
        BY <3>6, <3>7, ExactStays
      <3>b. x \in Gave(c) => Told(c) /\ x = c.ret
        BY <3>4 DEF Gave
      <3>8. CASE x \notin Gave(c)
        <4>1. Exact(x) /\ (x # c.ret \/ c.op = "getfl")
          BY <3>4, <3>5, <3>6, <3>8 DEF Gave
        <4>2. c.op = "close" /\ c.ret # None => c.ret = c.fd
          BY <3>1 DEF Left
        <4>3. /\ x \in Entries' <=> x \in Entries
              /\ x \in Entries => fdt'.m_table[x].file = FileOf(x)
          BY <3>3, <3>6, <4>1, <4>2 DEF EntryGiven, SameEntries, Gives
        <4>4. QED
          BY <3>7, <4>1, <4>3
      <3>9. CASE x \in Gave(c) /\ c.op \in {"openat", "accept"}
        <4>0. Gives(c)
          BY <3>b, <3>9 DEF Told, Gives
        <4>1. files[x] = c.file /\ x \in Entries' /\ fdt'.m_table[x].file = c.file
          BY <3>1, <3>3, <3>6, <3>9, <3>b, <4>0 DEF Left, EntryGiven
        <4>2. QED
          BY <3>6, <4>1 DEF Exact, Right
      <3>10. CASE x \in Gave(c) /\ c.op = "close"
        <4>1. files[x] = None /\ x \notin Entries'
          BY <3>1, <3>3, <3>6, <3>10, <3>b DEF Left, Gives
        <4>2. QED
          BY <3>6, <4>1 DEF Exact, Right
      <3>11. CASE x \in Gave(c) /\ c.op \in {"dup", "dup2", "fcntl"}
        <4>1. files[x] = files[c.fd] /\ files[c.fd] # None /\ x # c.fd
          BY <3>1, <3>6, <3>11, <3>b DEF Left
        <4>2. c.fd \in sure
          BY <3>11, <3>b DEF Told
        <4>3. Exact(c.fd)
          BY <3>5, <3>11, <3>b, <4>1, <4>2 DEF Gave
        <4>4. c.fd \in Entries /\ FileOf(c.fd) = files[c.fd]
          BY <4>1, <4>3 DEF Exact, Right, FileOf
        <4>5. x \in Entries' /\ fdt'.m_table[x].file = FileOf(c.fd)
          BY <3>3, <3>6, <3>11, <3>b, <4>4 DEF EntryGiven, Gives
        <4>6. QED
          BY <3>6, <4>1, <4>4, <4>5 DEF Exact, Right
      <3>12. x \in Gave(c) => c.op \notin {"getfl", "read"}
        BY <3>1, <3>6 DEF Left, Gave
      <3>13. QED
        BY <1>4, <3>8, <3>9, <3>10, <3>11, <3>12 DEF Ops
    <2>5. QED
      BY <2>3, <2>4
  <1>8. QED
    BY <1>1, <1>6, <1>7

\* Every step.
LEMMA HealStep ==
    ASSUME MinProper, use.limit > Cardinality(Fds) => Roomy, KernelTyped, InspectorTyped, HealInv,
           [Next]_vars
    PROVE  HealInv'
  <1>1. use' = use /\ lost' \in Nat /\ sure' \subseteq Fds
    <2> DEFINE Stays == use' = use /\ (lost' = lost \/ Lose) /\ sure' \subseteq Fds
    <2>1. sure \subseteq Fds /\ lost \in Nat /\ (Lose => sure' = {} /\ lost' = lost + 1)
      BY DEF HealInv, Lose
    <2>2. ASSUME NEW t \in Threads, NEW op \in Ops, NEW fd \in Fds \cup {None},
                 NEW to \in Fds \cup {None}, NEW file \in Files \cup {None}, Enter(t, op, fd, to, file)
          PROVE  Stays
      <3>1. use' = use /\ (UNCHANGED <<lost, sure>> \/ Lose)
        BY <2>2 DEF Enter
      <3>2. QED
        BY <2>1, <3>1
    <2>3. ASSUME NEW t \in Threads, Effect(t)
          PROVE  Stays
      <3>1. UNCHANGED <<use, lost, sure>>
        BY <2>3 DEF Effect
      <3>2. QED
        BY <2>1, <3>1
    <2>4. ASSUME NEW t \in Threads, Return(t)
          PROVE  Stays
      <3>1. Gave(call[t]) \subseteq Fds
        BY <2>4 DEF Return, KernelTyped, CallTyped, Gave
      <3>2. use' = use /\ ((lost' = lost /\ sure' \subseteq sure \cup Gave(call[t])) \/ Lose)
        BY <2>4 DEF Return
      <3>3. QED
        BY <2>1, <3>1, <3>2
    <2>5. UNCHANGED vars => Stays
      BY <2>1 DEF vars
    <2> HIDE DEF Stays
    <2>6. Stays
      BY <2>2, <2>3, <2>4, <2>5, ZenonT(60) DEF Next
    <2>7. QED
      BY <2>1, <2>6 DEF Stays
  <1> SUFFICES ASSUME NEW s \in Threads, Single(s), NoStaleFcntl PROVE HealBody(s)'
    BY <1>1 DEF HealInv, Single, NoStaleFcntl
  <1>2. ASSUME NEW t \in Threads, NEW op \in Ops, NEW fd \in Fds \cup {None},
               NEW to \in Fds \cup {None}, NEW file \in Files \cup {None}, Enter(t, op, fd, to, file)
        PROVE  HealBody(s)'
    BY <1>2, HealEnter
  <1>3. ASSUME NEW t \in Threads, Effect(t)
        PROVE  HealBody(s)'
    BY <1>3, HealEffect
  <1>4. ASSUME NEW t \in Threads, Return(t)
        PROVE  HealBody(s)'
    BY <1>4, HealReturn
  <1>5. CASE UNCHANGED vars
    <2>1. UNCHANGED <<use, files, call, fdt, toRemove, last, sure>> /\ HealBody(s)
      BY <1>5 DEF vars, kernelVars, inspectorVars, HealInv
    <2>2. /\ Left(call[s])' <=> Left(call[s])
          /\ Remembered(s)' <=> Remembered(s)
          /\ AllKnown' <=> AllKnown
          /\ \A fd : Exact(fd)' <=> Exact(fd)
      BY <2>1 DEF Left, Remembered, AllKnown, Exact, Right, Entries
    <2>3. QED
      BY <2>1, <2>2, ZenonT(60) DEF HealBody
  <1>6. QED
    BY <1>2, <1>3, <1>4, <1>5, ZenonT(60) DEF Next

---------------------------------------------------------------------------
\* The cache, the removals put off, and the size

\* A table whose cache names an entry of it and whose size is in order: the entry of
\* the canceled close does not count.
TableSound(F) ==
    /\ DOMAIN F = {"m_table", "cached"}
    /\ F.cached = None \/ F.cached \in Numbers(F)
    /\ IsFiniteSet(Numbers(F))
    /\ Cardinality(Numbers(F) \ {CANCELED_FD_NUMBER}) <= use.limit

\* What the parsers keep of the state they work on.
StateSound(S) ==
    /\ DOMAIN S = {"fdt", "toRemove", "last", "info"}
    /\ DOMAIN S.last = {"type", "fd", "data"}
    /\ TableSound(S.fdt)
    /\ S.toRemove \subseteq Numbers(S.fdt)
    /\ S.info = None \/ S.info \in Numbers(S.fdt)

FdsInv ==
    /\ use \in Uses
    /\ TableSound(fdt) /\ toRemove \subseteq Numbers(fdt)
    /\ DOMAIN last = Threads
    /\ \A t \in Threads : DOMAIN last[t] = {"type", "fd", "data"}

---------------------------------------------------------------------------
\* The operations of the table

\* A successful find moves the cache to the entry that it found.
LEMMA FindSound ==
    ASSUME NEW F, NEW fd, TableSound(F)
    PROVE  TableSound(find(F, fd)) /\ Numbers(find(F, fd)) = Numbers(F)
  BY DEF TableSound, find, Has, Numbers

\* The flags of an entry are not part of the table's shape.
LEMMA MarkSound ==
    ASSUME NEW F, NEW fd, NEW flag, NEW b, TableSound(F)
    PROVE  TableSound(Mark(F, fd, flag, b)) /\ Numbers(Mark(F, fd, flag, b)) = Numbers(F)
  BY DEF TableSound, Mark, Numbers

\* erase forgets a cached entry with the entry.
LEMMA EraseSound ==
    ASSUME NEW F, NEW fds, TableSound(F), use \in Uses
    PROVE  TableSound(erase(F, fds)) /\ Numbers(erase(F, fds)) = Numbers(F) \ fds
  <1> DEFINE G == erase(F, fds)
  <1>1. DOMAIN G = {"m_table", "cached"} /\ Numbers(G) = Numbers(F) \ fds
    BY DEF TableSound, erase, Numbers
  <1>2. G.cached = IF F.cached \in fds THEN None ELSE F.cached
    BY DEF TableSound, erase
  <1>3. G.cached = None \/ G.cached \in Numbers(G)
    BY <1>1, <1>2 DEF TableSound
  <1>4. IsFiniteSet(Numbers(F) \ {CANCELED_FD_NUMBER}) /\ IsFiniteSet(Numbers(G))
    BY <1>1, FS_Subset DEF TableSound
  <1>5. Numbers(G) \ {CANCELED_FD_NUMBER} \subseteq Numbers(F) \ {CANCELED_FD_NUMBER}
    BY <1>1
  <1>6. /\ Cardinality(Numbers(G) \ {CANCELED_FD_NUMBER}) <= Cardinality(Numbers(F) \ {CANCELED_FD_NUMBER})
        /\ Cardinality(Numbers(G) \ {CANCELED_FD_NUMBER}) \in Nat
        /\ Cardinality(Numbers(F) \ {CANCELED_FD_NUMBER}) \in Nat
    BY <1>4, <1>5, FS_Subset, FS_CardinalityType
  <1>7. use.limit \in Nat
    BY FdsAssumption DEF Use
  <1>8. Cardinality(Numbers(G) \ {CANCELED_FD_NUMBER}) <= use.limit
    BY <1>6, <1>7 DEF TableSound
  <1>9. QED
    BY <1>1, <1>3, <1>4, <1>8 DEF TableSound

\* add keeps to the limit, except for the entry of the canceled close.
LEMMA AddSound ==
    ASSUME NEW F, NEW fd, NEW info, TableSound(F), use \in Uses
    PROVE  TableSound(add(F, fd, info)) /\ Numbers(F) \subseteq Numbers(add(F, fd, info))
  <1> DEFINE Rest(N) == N \ {CANCELED_FD_NUMBER}
             G == add(F, fd, info)
  <1>1. DOMAIN F = {"m_table", "cached"} /\ IsFiniteSet(Numbers(F)) /\ use.limit \in Nat
    BY FdsAssumption DEF TableSound, Use
  <1>2. IsFiniteSet(Rest(Numbers(F))) /\ Cardinality(Rest(Numbers(F))) \in Nat
        /\ Cardinality(Rest(Numbers(F))) <= Cardinality(Numbers(F)) /\ Cardinality(Numbers(F)) \in Nat
    BY <1>1, FS_Subset, FS_CardinalityType
  <1>3. CASE G = F
    BY <1>3
  <1>4. CASE /\ fd \notin Numbers(F) /\ Cardinality(Numbers(F)) < use.limit
             /\ G = [Put(F, fd, info) EXCEPT !.cached = None]
    <2>1. DOMAIN G = {"m_table", "cached"} /\ G.cached = None /\ Numbers(G) = Numbers(F) \cup {fd}
      BY <1>1, <1>4, PutNumbers DEF Numbers
    <2>2. IsFiniteSet(Numbers(G)) /\ Cardinality(Numbers(G)) = Cardinality(Numbers(F)) + 1
      BY <1>1, <1>4, <2>1, FS_AddElement
    <2>3. Cardinality(Rest(Numbers(G))) <= Cardinality(Numbers(G)) /\ Cardinality(Rest(Numbers(G))) \in Nat
      BY <2>2, FS_Subset, FS_CardinalityType
    <2>4. Cardinality(Rest(Numbers(G))) <= use.limit
      BY <1>1, <1>2, <1>4, <2>2, <2>3
    <2>5. QED
      BY <2>1, <2>2, <2>4 DEF TableSound
  <1>5. ASSUME fd \in Numbers(F), NEW old, NEW new,
               G = Put(Put(F, CANCELED_FD_NUMBER, old), fd, new) \/ G = Put(F, fd, new)
        PROVE  TableSound(G) /\ Numbers(F) \subseteq Numbers(G)
    <2>1. DOMAIN G = {"m_table", "cached"} /\ G.cached = F.cached
          /\ (Numbers(G) = Numbers(F) \/ Numbers(G) = Numbers(F) \cup {CANCELED_FD_NUMBER})
      BY <1>1, <1>5, PutNumbers
    <2>2. IsFiniteSet(Numbers(G))
      BY <1>1, <2>1, FS_AddElement
    <2>3. Rest(Numbers(G)) = Rest(Numbers(F)) /\ Numbers(F) \subseteq Numbers(G)
      BY <2>1
    <2>4. QED
      BY <2>1, <2>2, <2>3 DEF TableSound
  <1>6. QED
    BY <1>3, <1>4, <1>5 DEF add, Has, Numbers

---------------------------------------------------------------------------
\* The parsers

\* Replacing the table by a sound one with the same entries, or more.
LEMMA WithTable ==
    ASSUME NEW S, NEW F, StateSound(S), TableSound(F), Numbers(S.fdt) \subseteq Numbers(F)
    PROVE  StateSound([S EXCEPT !.fdt = F])
  BY DEF StateSound

\* What m_lastevent_* holds does not matter here.
LEMMA WithLast ==
    ASSUME NEW S, NEW x, StateSound(S)
    PROVE  /\ StateSound([S EXCEPT !.last.type = x])
           /\ StateSound([S EXCEPT !.last.fd = x])
           /\ StateSound([S EXCEPT !.last.data = x])
  BY DEF StateSound

\* get_fd
LEMMA GetSound ==
    ASSUME NEW S, NEW fd, StateSound(S)
    PROVE  /\ StateSound(get_fd(S, fd))
           /\ Numbers(get_fd(S, fd).fdt) = Numbers(S.fdt)
  BY FindSound DEF StateSound, get_fd, Has, Numbers

\* add_fd
LEMMA AddFdSound ==
    ASSUME NEW S, NEW fd, NEW info, StateSound(S), use \in Uses
    PROVE  StateSound(add_fd(S, fd, info))
  <1> DEFINE F == add(S.fdt, fd, info)
  <1>1. TableSound(F) /\ Numbers(S.fdt) \subseteq Numbers(F)
    BY AddSound DEF StateSound
  <1>2. add_fd(S, fd, info)
          = [S EXCEPT !.fdt = F, !.last.fd = fd, !.info = IF Has(F, fd) THEN fd ELSE None]
    BY DEF add_fd
  <1> HIDE DEF F
  <1>3. QED
    BY <1>1, <1>2 DEF StateSound, Has, Numbers

\* erase_fd puts off the removal of an entry that exists.
LEMMA EraseFdSound ==
    ASSUME NEW S, NEW fd, StateSound(S)
    PROVE  StateSound(erase_fd(S, fd))
  BY DEF StateSound, erase_fd, Has, Numbers

\* The removals that were put off; no entry is looked at yet.
LEMMA RemoveSound ==
    ASSUME NEW S, StateSound(S), S.info = None, use \in Uses
    PROVE  StateSound(remove_fds(S)) /\ remove_fds(S).info = None
  <1> DEFINE F == erase(S.fdt, S.toRemove)
  <1>1. TableSound(F)
    BY EraseSound DEF StateSound
  <1>2. remove_fds(S) = [S EXCEPT !.fdt = F, !.toRemove = {}]
    BY DEF remove_fds
  <1> HIDE DEF F
  <1>3. QED
    BY <1>1, <1>2 DEF StateSound

\* Marking an entry, and looking for the one of the canceled close.
LEMMA MarkStateSound ==
    ASSUME NEW S, NEW fd, NEW flag, NEW b, StateSound(S)
    PROVE  /\ StateSound([S EXCEPT !.fdt = Mark(@, fd, flag, b)])
           /\ StateSound([S EXCEPT !.fdt = find(Mark(@, fd, flag, b), CANCELED_FD_NUMBER)])
           /\ StateSound([S EXCEPT !.fdt = find(@, fd)])
  <1>1. TableSound(S.fdt)
    BY DEF StateSound
  <1> DEFINE F == Mark(S.fdt, fd, flag, b)
             G == find(F, CANCELED_FD_NUMBER)
             H == find(S.fdt, fd)
  <1>2. TableSound(F) /\ Numbers(F) = Numbers(S.fdt)
    BY <1>1, MarkSound
  <1>3. TableSound(G) /\ Numbers(G) = Numbers(S.fdt)
    BY <1>2, FindSound
  <1>4. TableSound(H) /\ Numbers(H) = Numbers(S.fdt)
    BY <1>1, FindSound
  <1> HIDE DEF F, G, H
  <1>5. StateSound([S EXCEPT !.fdt = F]) /\ StateSound([S EXCEPT !.fdt = G]) /\ StateSound([S EXCEPT !.fdt = H])
    BY <1>2, <1>3, <1>4, WithTable
  <1>6. QED
    BY <1>5 DEF F, G, H

\* The enter event.
LEMMA EnterSound ==
    ASSUME NEW S, NEW e, StateSound(S), S.info = None, use \in Uses
    PROVE  StateSound(NextEnter(S, e))
  <1> DEFINE R == remove_fds(S)
             fd == IF e.op \in UsesFd THEN e.fd ELSE None
             Q == [R EXCEPT !.last.type = Type(e.op), !.last.fd = fd]
             P == get_fd(Q, fd)
  <1>1. StateSound(R)
    BY RemoveSound
  <1> HIDE DEF R, fd
  <1>2. StateSound(Q)
    BY <1>1 DEF StateSound
  <1> HIDE DEF Q
  <1>3. StateSound(P)
    BY <1>2, GetSound
  <1>4. NextEnter(S, e) = ParseEnter(P, e)
    BY DEF NextEnter, ResetEnter, R, fd, Q
  <1> HIDE DEF P
  <1>5. StateSound(store_event(P, e)) /\ StateSound(parse_close_enter(P))
    BY <1>3, WithLast, MarkStateSound, ZenonT(60) DEF store_event, parse_close_enter
  <1>6. ParseEnter(P, e) \in {store_event(P, e), parse_close_enter(P), P}
    BY DEF ParseEnter
  <1>7. QED
    BY <1>3, <1>4, <1>5, <1>6

\* Taking back a canceled close.
LEMMA UncancelSound ==
    ASSUME NEW S, StateSound(S)
    PROVE  StateSound(Uncancel(S))
  <1> DEFINE F == find(Mark(S.fdt, S.info, "canceled", FALSE), CANCELED_FD_NUMBER)
  <1>1. StateSound([S EXCEPT !.fdt = F])
    BY MarkStateSound, ZenonT(60)
  <1>2. StateSound(erase_fd([S EXCEPT !.fdt = F], CANCELED_FD_NUMBER))
    BY <1>1, EraseFdSound
  <1>3. QED
    BY <1>2 DEF Uncancel

\* Copying an entry, by dup and fcntl.
LEMMA CopySound ==
    ASSUME NEW S, NEW e, StateSound(S), use \in Uses
    PROVE  StateSound(Copy(S, e))
  <1> DEFINE M == [S EXCEPT !.fdt = Mark(Mark(@, S.info, "closing", FALSE), S.info, "canceled", TRUE)]
             closing == Has(S.fdt, e.ret) /\ S.fdt.m_table[e.ret].closing
             U == IF closing THEN M ELSE S
  <1>1. StateSound(M)
    <2> DEFINE E == Mark(S.fdt, S.info, "closing", FALSE)
               F == Mark(E, S.info, "canceled", TRUE)
    <2>1. TableSound(E) /\ Numbers(E) = Numbers(S.fdt)
      BY MarkSound, ZenonT(60) DEF StateSound
    <2>2. M = [S EXCEPT !.fdt = F]
      OBVIOUS
    <2> HIDE DEF E, M
    <2>3. TableSound(F) /\ Numbers(F) = Numbers(S.fdt)
      BY <2>1, MarkSound, ZenonT(60)
    <2> HIDE DEF F
    <2>4. QED
      BY <2>2, <2>3, WithTable
  <1>2. Copy(S, e) = add_fd(U, e.ret, U.fdt.m_table[S.info])
    BY DEF Copy
  <1> HIDE DEF M, closing
  <1>3. StateSound(U)
    BY <1>1
  <1> HIDE DEF U
  <1>4. QED
    BY <1>2, <1>3, AddFdSound

\* The exit event.
LEMMA ExitSound ==
    ASSUME NEW S, NEW e, StateSound(S), S.info = None, use \in Uses, e.op \in Ops
    PROVE  StateSound(NextExit(S, e))
  <1> DEFINE R == remove_fds(S)
             P == ResetExit(R, e)
  <1>1. StateSound(R)
    BY RemoveSound
  <1> HIDE DEF R
  <1>2. StateSound(P)
    <2>1. StateSound(get_fd(R, R.last.fd))
      BY <1>1, GetSound
    <2>2. StateSound(Uncancel(get_fd(R, R.last.fd)))
      BY <2>1, UncancelSound
    <2>3. QED
      BY <1>1, <2>2 DEF ResetExit
  <1>3. NextExit(S, e) = ParseExit(P, e)
    BY DEF NextExit, R
  <1> HIDE DEF P
  <1>4. StateSound(parse_open_openat_creat_exit(P, e)) /\ StateSound(parse_accept_exit(P, e))
    <2>1. StateSound([P EXCEPT !.last.fd = e.ret])
      BY <1>2 DEF StateSound
    <2>2. QED
      BY <1>2, <2>1, AddFdSound DEF parse_open_openat_creat_exit, parse_accept_exit
  <1>5. StateSound(parse_close_exit(P, e))
    <2> DEFINE Q == [P EXCEPT !.fdt = find(Mark(@, P.info, "canceled", FALSE), CANCELED_FD_NUMBER)]
    <2>1. StateSound(Q) /\ StateSound([P EXCEPT !.fdt = Mark(@, P.info, "closing", FALSE)])
      BY <1>2, MarkStateSound, ZenonT(60)
    <2> HIDE DEF Q
    <2>2. StateSound(erase_fd(Q, CANCELED_FD_NUMBER)) /\ StateSound(erase_fd(P, P.last.fd))
      BY <1>2, <2>1, EraseFdSound
    <2>3. QED
      BY <1>2, <2>1, <2>2 DEF parse_close_exit, Q
  <1>6. StateSound(parse_dup_exit(P, e))
    <2> DEFINE Q == [P EXCEPT !.fdt = find(@, e.ret)]
    <2>1. StateSound(Q)
      BY <1>2, MarkStateSound, ZenonT(60)
    <2> HIDE DEF Q
    <2>2. StateSound(Copy(Q, e))
      BY <2>1, CopySound
    <2>3. QED
      BY <1>2, <2>2 DEF parse_dup_exit, Q
  <1>7. StateSound(parse_fcntl_exit(P, e))
    BY <1>2, CopySound DEF parse_fcntl_exit
  <1>8. ParseExit(P, e) \in {parse_open_openat_creat_exit(P, e), parse_accept_exit(P, e), P,
                             parse_close_exit(P, e), parse_dup_exit(P, e), parse_fcntl_exit(P, e)}
    BY DEF ParseExit, Ops, Type
  <1>9. QED
    BY <1>2, <1>3, <1>4, <1>5, <1>6, <1>7, <1>8

---------------------------------------------------------------------------
\* The steps

\* What an event leaves behind, with or without the cleanup.
LEMMA BecomesSound ==
    ASSUME FdsInv, NEW t \in Threads, NEW S, StateSound(S), Becomes(t, S), UNCHANGED use
    PROVE  FdsInv'
  <1>1. TableSound(fdt) ' /\ (toRemove \subseteq Numbers(fdt))'
    BY DEF Becomes, StateSound, TableSound, Numbers
  <1>2. DOMAIN last' = Threads /\ \A u \in Threads : DOMAIN last'[u] = {"type", "fd", "data"}
    BY DEF Becomes, StateSound, FdsInv
  <1>3. QED
    BY <1>1, <1>2 DEF FdsInv

\* Nothing that the calls and the losses do by themselves matters to the table.
LEMMA UntouchedSound ==
    ASSUME FdsInv, UNCHANGED <<use, inspectorVars>>
    PROVE  FdsInv'
  BY DEF FdsInv, inspectorVars, TableSound, Numbers

\* An event starts from the table of the process and the last event of its thread.
LEMMA BeginsSound ==
    ASSUME FdsInv, NEW t \in Threads
    PROVE  StateSound(State(t)) /\ State(t).info = None
  BY DEF FdsInv, State, StateSound

\* A call in progress is one of the calls of the model.
CallsKnown ==
    /\ DOMAIN call = Threads
    /\ \A t \in Threads :
          /\ DOMAIN call[t] = DOMAIN Idle
          /\ call[t].stage # "idle" => call[t].op \in Ops

\* Each step of a call keeps it one of the calls of the model.
LEMMA CallsStep ==
    ASSUME CallsKnown, [Next]_vars
    PROVE  CallsKnown'
  <1>1. ASSUME NEW t \in Threads, NEW op \in Ops, NEW fd, NEW to, NEW file, Enter(t, op, fd, to, file)
        PROVE  CallsKnown'
    BY <1>1 DEF Enter, CallsKnown, Idle
  <1>2. ASSUME NEW t \in Threads, Effect(t)
        PROVE  CallsKnown'
    <2>1. call[t].stage = "entered"
      BY <1>2 DEF Effect
    <2>2. PICK file, ret : call' = [call EXCEPT ![t] = Done(call[t], file, ret)]
      BY <1>2 DEF Effect
    <2>3. /\ DOMAIN Done(call[t], file, ret) = DOMAIN Idle
          /\ Done(call[t], file, ret).op = call[t].op
      BY DEF CallsKnown, Done, Idle
    <2>4. QED
      BY <2>1, <2>2, <2>3 DEF CallsKnown
  <1>3. ASSUME NEW t \in Threads, Return(t)
        PROVE  CallsKnown'
    BY <1>3 DEF Return, CallsKnown, Idle
  <1>4. CASE UNCHANGED vars
    BY <1>4 DEF vars, kernelVars, CallsKnown
  <1>5. QED
    BY <1>1, <1>2, <1>3, <1>4 DEF Next

\* Every event, seen or lost, keeps the table sound.
LEMMA TableStep ==
    ASSUME FdsInv, CallsKnown, [Next]_vars
    PROVE  FdsInv'
  <1>1. ASSUME NEW t \in Threads, NEW op, NEW fd, NEW to, NEW file, Enter(t, op, fd, to, file)
        PROVE  FdsInv'
    <2>1. CASE UNCHANGED inspectorVars
      BY <1>1, <2>1, UntouchedSound DEF Enter
    <2>2. ASSUME NEW c, Becomes(t, NextEnter(State(t), c))
          PROVE  FdsInv'
      <3>1. StateSound(NextEnter(State(t), c))
        BY BeginsSound, EnterSound DEF FdsInv
      <3>2. QED
        BY <1>1, <2>2, <3>1, BecomesSound DEF Enter
    <2>3. QED
      BY <1>1, <2>1, <2>2 DEF Enter
  <1>2. ASSUME NEW t \in Threads, Effect(t)
        PROVE  FdsInv'
    BY <1>2, UntouchedSound DEF Effect
  <1>3. ASSUME NEW t \in Threads, Return(t)
        PROVE  FdsInv'
    <2>1. CASE UNCHANGED inspectorVars
      BY <1>3, <2>1, UntouchedSound DEF Return
    <2>2. CASE Becomes(t, event_cleanup(NextExit(State(t), call[t])))
      <3> DEFINE S == NextExit(State(t), call[t])
      <3>0. call[t].stage = "done"
        BY <1>3 DEF Return
      <3>1. StateSound(S)
        <4>1. call[t].op \in Ops
          BY <3>0 DEF CallsKnown
        <4>2. QED
          BY <4>1, BeginsSound, ExitSound DEF FdsInv
      <3> HIDE DEF S
      <3>2. StateSound(event_cleanup(S))
        BY <3>1, WithLast, ZenonT(60) DEF event_cleanup
      <3>3. QED
        BY <1>3, <2>2, <3>2, BecomesSound DEF Return, S
    <2>3. QED
      BY <1>3, <2>1, <2>2 DEF Return
  <1>4. CASE UNCHANGED vars
    BY <1>4, UntouchedSound DEF vars
  <1>5. QED
    BY <1>1, <1>2, <1>3, <1>4 DEF Next

---------------------------------------------------------------------------
\* Results

\* The table stays sound and the calls known, from the empty table on: the inductive
\* invariant of sinsp_fdtable and the parsers.
THEOREM FdsInvariant == Spec => [](FdsInv /\ CallsKnown)
  <1>1. Init => FdsInv /\ CallsKnown
    <2> SUFFICES ASSUME Init
                 PROVE  FdsInv /\ CallsKnown
      OBVIOUS
    <2>1. Numbers(fdt) = {} /\ DOMAIN fdt = {"m_table", "cached"} /\ fdt.cached = None
      BY DEF Init, Numbers
    <2>2. IsFiniteSet({}) /\ Cardinality({}) = 0 /\ {} \ {CANCELED_FD_NUMBER} = {}
      BY FS_EmptySet
    <2>3. use \in Uses /\ use.limit \in Nat
      BY FdsAssumption DEF Init, Use
    <2>4. TableSound(fdt)
      BY <2>1, <2>2, <2>3 DEF TableSound
    <2>5. FdsInv
      BY <2>1, <2>3, <2>4 DEF Init, FdsInv
    <2>6. CallsKnown
      BY DEF Init, CallsKnown, Idle
    <2>7. QED
      BY <2>5, <2>6
  <1>2. FdsInv /\ CallsKnown /\ [Next]_vars => (FdsInv /\ CallsKnown)'
    BY TableStep, CallsStep
  <1>3. QED
    BY <1>1, <1>2, PTL DEF Spec

\* CacheCoherent: the pointer that sinsp_fdtable::find caches, and the numbers that
\* erase_fd put off, are of entries that are in the table, for any number of threads
\* and descriptors and whatever events are lost.
THEOREM FdsCacheCoherent == Spec => []CacheCoherent
  <1>1. FdsInv => CacheCoherent
    BY DEF FdsInv, TableSound, CacheCoherent, Has, Numbers
  <1>2. QED
    BY <1>1, FdsInvariant, PTL

\* SizeKept: sinsp_fdtable::add exceeds m_max_fdtable_size by the entry of a canceled
\* close at most, for any limit.
THEOREM FdsSizeKept == Spec => []SizeKept
  <1>1. FdsInv => SizeKept
    <2> SUFFICES ASSUME FdsInv
                 PROVE  SizeKept
      OBVIOUS
    <2> DEFINE N == Numbers(fdt)
               R == N \ {CANCELED_FD_NUMBER}
    <2>1. IsFiniteSet(N) /\ Cardinality(R) <= use.limit
      BY DEF FdsInv, TableSound
    <2>2. IsFiniteSet(R) /\ Cardinality(R) \in Nat /\ use.limit \in Nat
      BY <2>1, FS_Subset, FS_CardinalityType, FdsAssumption DEF FdsInv, Use
    <2>3. CANCELED_FD_NUMBER \notin R /\ (N = R \/ N = R \cup {CANCELED_FD_NUMBER})
      OBVIOUS
    <2>4. Cardinality(R \cup {CANCELED_FD_NUMBER}) = Cardinality(R) + 1
      BY <2>2, <2>3, FS_AddElement
    <2>5. Cardinality(N) = Cardinality(R) \/ Cardinality(N) = Cardinality(R) + 1
      BY <2>3, <2>4
    <2> HIDE DEF R
    <2>6. Cardinality(N) <= use.limit + 1
      BY <2>1, <2>2, <2>5
    <2>7. QED
      BY <2>6 DEF SizeKept, Numbers
  <1>2. QED
    BY <1>1, FdsInvariant, PTL

---------------------------------------------------------------------------
\* What the table says of the files

\* A table for all descriptors always has room for one more of them.
LEMMA Room ==
    ASSUME use \in Uses, use.limit > Cardinality(Fds)
    PROVE  Roomy
  <1> SUFFICES ASSUME NEW F, NEW fd \in Fds, Typed(F), fd \notin Numbers(F)
               PROVE  Cardinality(Numbers(F)) < use.limit
    BY DEF Roomy
  <1> DEFINE D == Fds \ {fd}
             N == D \cup {CANCELED_FD_NUMBER}
  <1>1. IsFiniteSet(Fds) /\ Cardinality(Fds) \in Nat /\ use.limit \in Nat
    BY FdsAssumption, FS_CardinalityType DEF Use
  <1>2. IsFiniteSet(D) /\ Cardinality(D) = Cardinality(Fds) - 1
    BY <1>1, FS_RemoveElement
  <1>3. CANCELED_FD_NUMBER \notin D
    BY Fdss
  <1>4. IsFiniteSet(N) /\ Cardinality(N) = Cardinality(D) + 1
    BY <1>2, <1>3, FS_AddElement
  <1>5. Numbers(F) \subseteq N
    BY DEF Typed, AnyFd
  <1>6. Cardinality(Numbers(F)) <= Cardinality(N) /\ Cardinality(Numbers(F)) \in Nat
    BY <1>4, <1>5, FS_Subset, FS_CardinalityType
  <1> HIDE DEF N, D
  <1>7. QED
    BY <1>1, <1>2, <1>4, <1>6

\* The lowest of some numbers is one of them.
LEMMA MinIn == MinProper
  <1> SUFFICES ASSUME NEW S, S \subseteq Nat, S # {}
               PROVE  Min(S) \in S
    BY DEF MinProper
  <1> DEFINE Less == OpToRel(<, Nat)
  <1>0. IsWellFoundedOn(Less, Nat)
    BY NatLessThanWellFounded, ZenonT(60)
  <1>a. \A x, y \in Nat : <<y, x>> \in Less <=> y < x
    BY DEF OpToRel
  <1> HIDE DEF Less
  <1>1. \E x \in S : \A y \in S : ~(<<y, x>> \in Less)
    BY <1>0, WFMin, ZenonT(60)
  <1>2. \E x \in S : \A y \in S : x <= y
    <2>1. PICK x \in S : \A y \in S : ~(<<y, x>> \in Less)
      BY <1>1
    <2>2. \A y \in S : ~(y < x)
      BY <1>a, <2>1, ZenonT(60)
    <2>3. \A y \in S : x <= y
      BY <2>2
    <2>4. QED
      BY <2>3
  <1>3. QED
    BY <1>2, ZenonT(60) DEF Min

\* The types, as an invariant.
THEOREM FdsTypedInvariant == Spec => [](KernelTyped /\ InspectorTyped)
  <1>1. Init => KernelTyped /\ InspectorTyped
    BY TypedInit
  <1>2. KernelTyped /\ InspectorTyped /\ [Next]_vars => (KernelTyped /\ InspectorTyped)'
    BY TypedStep, MinIn
  <1>3. QED
    BY <1>1, <1>2, PTL DEF Spec

\* TypeOK: the table has numbers of descriptors only, and the one that no descriptor
\* has, keeps to its size, and names files; for any number of threads and files, and
\* whatever events are lost.
THEOREM FdsTypes == Spec => []TypeOK
  <1>1. KernelTyped /\ InspectorTyped /\ SizeKept => TypeOK
    BY DEF KernelTyped, InspectorTyped, LastTyped, Typed, Numbers, AnyFd, Info, TypeOK
  <1>2. QED
    BY <1>1, FdsTypedInvariant, FdsSizeKept, PTL

\* The invariant.
THEOREM FdsRightInvariant == Spec => []RightInv
  <1>1. Init => RightInv
    <2> SUFFICES ASSUME Init PROVE RightInv
      OBVIOUS
    <2>1. \A t \in Threads : call[t] = Idle /\ last[t].data = NoEvent
      BY DEF Init
    <2>2. Changes(Idle) = {} /\ Reads(Idle) = {}
      BY DEF Changes, Reads, Idle, UsesFd
    <2>3. Entries = {} /\ parsed.on = None /\ lost = 0
      BY DEF Init, Entries, NotParsed
    <2>4. \A t \in Threads : Noted(t) /\ Holds(t) /\ last[t].data.type # "fcntl"
      BY <2>1 DEF Noted, Holds, Idle, NoEvent
    <2>5. \A t, u \in Threads : Apart(t, u)
      BY <2>1, <2>2 DEF Apart
    <2>6. QED
      BY <2>3, <2>4, <2>5 DEF RightInv, RightBody
  <1>2. RightInv /\ KernelTyped /\ InspectorTyped /\ [Next]_vars => RightInv'
    BY RightStep, MinIn
  <1>3. QED
    BY <1>1, <1>2, FdsTypedInvariant, PTL DEF Spec

\* NoWrongEntry: when no call is under way no entry is of a descriptor that is closed, or
\* of a file that its number no longer refers to; for any number of threads that open,
\* accept, read and close with calls that overlap, as long as no event is lost.
THEOREM FdsNoWrongEntry == Spec => []NoWrongEntry
  <1>1. RightInv /\ InspectorTyped => NoWrongEntry
    <2> SUFFICES ASSUME RightInv, InspectorTyped, lost = 0, Quiet, NoCopies, NEW fd \in Fds, fd \in Entries
                 PROVE  fdt.m_table[fd].file = files[fd]
      BY DEF NoWrongEntry, Right
    <2>1. Pending(fd) /\ \A t \in Threads : call[t] = Idle
      BY DEF RightInv, RightBody, Quiet
    <2>2. QED
      BY <2>1 DEF Pending, Closing, Gives, FileOf, Idle
  <1>2. QED
    BY <1>1, FdsRightInvariant, FdsTypedInvariant, PTL

\* Attributed: the exit event of a read is taken for a read of the file that was read, or
\* of an unknown one, never of another file, whatever the other threads did in between;
\* reads of sockets that parse_accept_exit does not know are excepted.
THEOREM FdsAttributed == Spec => []Attributed
  <1>1. RightInv => Attributed
    BY DEF RightInv, RightBody, Attributed
  <1>2. QED
    BY <1>1, FdsRightInvariant, PTL

\* The invariant.
THEOREM FdsHealInvariant == Spec => []HealInv
  <1>1. Init => HealInv
    <2> SUFFICES ASSUME Init PROVE HealInv
      OBVIOUS
    <2>1. \A t \in Threads : call[t] = Idle /\ last[t].data = NoEvent
      BY DEF Init
    <2>2. lost = 0 /\ sure = Fds /\ \A fd \in Fds : Exact(fd)
      BY DEF Init, Exact, Right, Entries
    <2>3. \A t \in Threads : HealBody(t)
      <3>1. Idle.stage = "idle" /\ NoEvent.type # "fcntl" /\ Left(Idle)
        BY DEF Idle, NoEvent, Left
      <3>2. QED
        BY <2>1, <2>2, <3>1 DEF HealBody
    <2>4. QED
      BY <2>2, <2>3 DEF HealInv
  <1>2. HealInv /\ KernelTyped /\ InspectorTyped /\ [Next]_vars => HealInv'
    <2>1. KernelTyped => (use.limit > Cardinality(Fds) => Roomy)
      BY Room DEF KernelTyped
    <2>2. QED
      BY <2>1, HealStep, MinIn
  <1>3. QED
    BY <1>1, <1>2, FdsTypedInvariant, PTL DEF Spec

\* Heals: in a process with one thread and a table with room, what the table says of a
\* number is exact again once a call that gave or closed the number was seen, unless it
\* gave it to a socket that the parser does not know, or to a copy of one; whichever events were lost before, for any number of losses.  An fcntl that does not
\* copy (getfl) is left out when events are lost: after an F_DUPFD whose exit event was
\* lost the parser takes its result for a descriptor.
THEOREM FdsHeals == Spec => [](NoStaleFcntl => Heals)
  <1>1. HealInv /\ KernelTyped => (NoStaleFcntl => Heals)
    <2> SUFFICES ASSUME HealInv, KernelTyped, NoStaleFcntl, Quiet, Cardinality(use.threads) = 1,
                        use.limit > Cardinality(Fds), NEW fd \in sure
                 PROVE  Exact(fd)
      BY DEF Heals
    <2>1. PICK t \in Threads : use.threads = {t}
      <3>1. use.threads \subseteq Threads
        BY FdsAssumption DEF KernelTyped, Use
      <3>2. IsFiniteSet(use.threads)
        BY <3>1, FS_Subset, FdsAssumption
      <3>3. QED
        BY <3>1, <3>2, FS_Singleton
    <2>2. HealBody(t) /\ call[t] = Idle
      BY <2>1 DEF HealInv, Single, Quiet
    <2>3. QED
      BY <2>2 DEF HealBody, Idle, Gave
  <1>2. QED
    BY <1>1, FdsHealInvariant, FdsTypedInvariant, PTL

\* As long as no event may be lost, the table of a process with one thread and room for
\* all its descriptors is exact whenever no call is under way: every descriptor that is
\* open has an entry, with its file, and no other has one; copies, failed calls and
\* fcntls of every kind included.  It must accept no socket that the parser does not
\* know: such a one gets no entry, and a dup2 of it leaves the entry that was there.
THEOREM FdsExactAlone ==
    Spec => [](\A t \in Threads :
                  Single(t) /\ use.losses = 0 /\ AllKnown /\ Quiet => \A fd \in Fds : Exact(fd))
  <1> DEFINE Alone(t) == Single(t) /\ use.losses = 0 /\ AllKnown /\ Quiet
  <1>1. HealInv => \A t \in Threads : Alone(t) => \A fd \in Fds : Exact(fd)
    <2> SUFFICES ASSUME HealInv, NEW t \in Threads, Alone(t), NEW fd \in Fds
                 PROVE  Exact(fd)
      OBVIOUS
    <2>1. HealBody(t) /\ call[t] = Idle
      BY DEF HealInv, NoStaleFcntl, Quiet
    <2>2. QED
      BY <2>1 DEF HealBody, Idle, Gave
  <1>2. QED
    BY <1>1, FdsHealInvariant, PTL
=============================================================================
