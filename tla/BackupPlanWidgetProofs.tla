----------------------- MODULE BackupPlanWidgetProofs -----------------------
(***************************************************************************)
(* The two pages of a plan's widget (BackupPlanWidget) that keep a state   *)
(* of their own: the source page, for every file system, every saved       *)
(* selection and any order of what the user, the scanner and the message   *)
(* do; and the list of drives on the destination page, for all drives and  *)
(* any order of what happens to them.                                      *)
(***************************************************************************)
EXTENDS SourceSelection, DriveSelection, SequenceTheorems, FiniteSetTheorems, TLAPS

Path == Seq(STRING)

-----------------------------------------------------------------------------
(***************************************************************************)
(* Paths.  The marks that a path is inside of lie on one line: of two of   *)
(* them the longer is inside of the other.                                 *)
(***************************************************************************)
LEMMA PrefixAt ==
  ASSUME NEW s \in Path, NEW t \in Path
  PROVE  IsPrefix(s, t) <=> /\ Len(s) <= Len(t)
                            /\ \A k \in 1 .. Len(s) : s[k] = t[k]
<1>1. Len(s) \in Nat /\ Len(t) \in Nat
  BY LenProperties DEF Path
<1>2. SubSeq(s, 1, Len(s)) = s
  BY SubSeqFull DEF Path
<1>3. ASSUME Len(s) <= Len(t)
      PROVE  /\ SubSeq(t, 1, Len(s)) \in Path /\ Len(SubSeq(t, 1, Len(s))) = Len(s)
             /\ \A k \in 1 .. Len(s) : SubSeq(t, 1, Len(s))[k] = t[k]
  <2>1. \A i \in 1 .. Len(s) : t[i] \in STRING
    BY <1>1, <1>3, ElementOfSeq DEF Path
  <2>2. /\ SubSeq(t, 1, Len(s)) \in Seq(STRING)
        /\ Len(SubSeq(t, 1, Len(s))) = IF 1 <= Len(s) THEN Len(s) - 1 + 1 ELSE 0
        /\ \A i \in 1 .. Len(s) - 1 + 1 : SubSeq(t, 1, Len(s))[i] = t[1 + i - 1]
    BY <1>1, <2>1, SubSeqProperties
  <2>3. QED  BY <1>1, <2>2 DEF Path
<1>4. ASSUME IsPrefix(s, t)  PROVE \A k \in 1 .. Len(s) : s[k] = t[k]
  BY <1>2, <1>3, <1>4 DEF IsPrefix
<1>5. ASSUME Len(s) <= Len(t), \A k \in 1 .. Len(s) : s[k] = t[k]
      PROVE  s = SubSeq(t, 1, Len(s))
  BY <1>3, <1>5, SeqEqual DEF Path
<1>6. QED  BY <1>2, <1>4, <1>5 DEF IsPrefix

LEMMA InsideItself ==
  ASSUME NEW p
  PROVE  Inside(p, p)
BY DEF Inside

LEMMA InsideLength ==
  ASSUME NEW p \in Path, NEW q \in Path, Inside(p, q)
  PROVE  Len(p) \in Nat /\ Len(q) \in Nat /\ Len(q) <= Len(p)
BY LenProperties, PrefixAt DEF Inside, Path

LEMMA InsideTwice ==
  ASSUME NEW p \in Path, NEW q \in Path, NEW r \in Path, Inside(p, q), Inside(q, r)
  PROVE  Inside(p, r)
<1>1. CASE p = q \/ q = r
  BY <1>1
<1>2. CASE p # q /\ q # r
  <2>1. IsPrefix(q, p) /\ IsPrefix(r, q) /\ r # Root
    BY <1>2 DEF Inside
  <2>2. Len(p) \in Nat /\ Len(q) \in Nat /\ Len(r) \in Nat
    BY LenProperties DEF Path
  <2>3. IsPrefix(r, p)
    BY <2>1, <2>2, PrefixAt
  <2>4. QED  BY <2>1, <2>3 DEF Inside
<1>3. QED  BY <1>1, <1>2

LEMMA OnOneLine ==
  ASSUME NEW p \in Path, NEW q \in Path, NEW r \in Path, Inside(p, q), Inside(p, r),
         Len(r) <= Len(q)
  PROVE  Inside(q, r) /\ (Len(r) = Len(q) => q = r)
<1>0. Len(p) \in Nat /\ Len(q) \in Nat /\ Len(r) \in Nat
  BY LenProperties DEF Path
<1>1. CASE p = q
  <2>1. Len(r) = Len(q) => q = r
    BY <1>0, <1>1, PrefixAt, SeqEqual DEF Inside, Path
  <2>2. QED  BY <1>1, <2>1
<1>2. CASE p # q
  <2>1. IsPrefix(q, p) /\ q # Root
    BY <1>2 DEF Inside
  <2>2. \A k \in 1 .. Len(q) : p[k] = q[k]
    BY <2>1, PrefixAt
  <2>3. /\ Len(r) <= Len(p)
        /\ \A k \in 1 .. Len(r) : p[k] = r[k]
    BY <1>0, PrefixAt DEF Inside
  <2>4. \A k \in 1 .. Len(r) : r[k] = q[k]
    BY <1>0, <2>2, <2>3
  <2>5. IsPrefix(r, q)
    BY <2>4, PrefixAt
  <2>6. Len(r) = Len(q) => q = r
    BY <2>4, SeqEqual DEF Path
  <2>7. r # Root
    <3>1. r = Root => p = Root
      BY DEF Inside
    <3>2. p = Root => Len(q) = 0 /\ Len(r) = 0
      <4>1. Len(Root) = 0
        BY EmptySeq DEF Root
      <4>2. QED  BY <1>0, <2>1, <2>3, <4>1, PrefixAt
    <3>3. QED  BY <2>1, <2>6, <3>1, <3>2
  <2>8. QED  BY <2>5, <2>6, <2>7 DEF Inside
<1>3. QED  BY <1>1, <1>2

\* Of two marks of a path one is inside of the other.
LEMMA Nested ==
  ASSUME NEW p \in Path, NEW q \in Path, NEW r \in Path, Inside(p, q), Inside(p, r)
  PROVE  /\ Inside(q, r) \/ Inside(r, q)
         /\ ~Inside(r, q) => Len(r) < Len(q)
         /\ Len(r) <= Len(q) => Inside(q, r)
         /\ Len(r) = Len(q) => q = r
<1>1. Len(q) \in Nat /\ Len(r) \in Nat
  BY LenProperties DEF Path
<1>2. QED  BY <1>1, OnOneLine

\* Two paths that are inside of each other are the same.
LEMMA InsideBoth ==
  ASSUME NEW p \in Path, NEW q \in Path, Inside(p, q), Inside(q, p)
  PROVE  p = q
<1>1. Len(p) = Len(q)
  BY InsideLength
<1>2. QED  BY <1>1, InsideItself, OnOneLine

-----------------------------------------------------------------------------
(***************************************************************************)
(* What holds in every state.                                              *)
(***************************************************************************)

\* Where a path stands in two sets of marks, and after a signal.
Standing(inc, exc, q) == IF q \in inc THEN 1 ELSE IF q \in exc THEN -1 ELSE 0

After(standing, signal, q) ==
  CASE signal.path # q                                     -> standing
    [] signal.path = q /\ signal.slot = "includePath"
         -> IF standing = 1 THEN 1 ELSE standing + 1
    [] signal.path = q /\ signal.slot # "includePath"
         -> IF standing = -1 THEN -1 ELSE standing - 1

\* The signals lead from one standing of a path to another.
Leads(start, sigs, end, q) ==
  \E at \in [0 .. Len(sigs) -> -1 .. 1] :
    /\ at[0] = start /\ at[Len(sigs)] = end
    /\ \A i \in 1 .. Len(sigs) : at[i] = After(at[i - 1], sigs[i], q)

\* What is on its way to the scanner makes its marks those of the tree.
SignalsLead ==
  \A q \in Paths :
    Leads(Standing(scanner.included, scanner.excluded, q), signals,
          Standing(included, excluded, q), q)

\* No mark repeats what it would inherit.
MarksMatter(inc, exc) ==
  /\ inc \cap exc = {}
  /\ \A p \in inc : ~LongestIsIn(p, inc \ {p}, exc)
  /\ \A p \in exc : LongestIsIn(p, inc, exc \ {p})

\* What was found unreadable is in the selection of the scanner, or a file in the root.
Home(u) == IF u \in Dirs THEN u ELSE Front(u)

FoundInSelection(s) ==
  \A u \in s.unreadable : u \in Dirs \/ Front(u) # Root => IsPathIncluded(s, Home(u))

\* A link is judged by where it leads to.
LinksJudged(s) ==
  /\ \A l \in s.notOk : ~IsPathIncluded(s, Links[l])
  /\ \A l \in s.ok : IsPathIncluded(s, Links[l])

\* A link below a mark that nothing excluded comes after, on a way that may be read,
\* has been judged, or a folder on that way waits to be looked into.
Governs(s, m, l) ==
  /\ m \in s.included /\ Inside(l, m)
  /\ \A x \in s.excluded : Inside(l, x) => Len(x) < Len(m)
  /\ \A u \in Unreadable : ~(Inside(l, u) /\ Inside(u, m))

Waits(s, m, l) ==
  \E i \in 1 .. Len(s.scans) : Inside(s.scans[i], m) /\ Inside(l, s.scans[i])

LinksFound(s) ==
  \A l \in LinkPaths, m \in s.included :
    Governs(s, m, l) => l \in s.ok \cup s.notOk \/ Waits(s, m, l)

\* The list that the user interface has, or will have when the last report has come.
LastReported(list, known) ==
  \/ /\ \A i \in 1 .. Len(reports) : reports[i].list # list
     /\ known = listed[list]
  \/ \E i \in 1 .. Len(reports) :
       /\ reports[i].list = list /\ reports[i].found = known
       /\ \A j \in i + 1 .. Len(reports) : reports[j].list # list

\* A list that has changed is sent, or waits to be.
ReportsLead ==
  /\ "unreadables" \notin scanner.timers => LastReported("unreadables", scanner.unreadable)
  /\ "symlinks" \notin scanner.timers => LastReported("symlinks", scanner.notOk)

\* The message is about the first of the problems listed, unless it is being changed.
MessageFits(msg, lists) ==
  msg.shown # "hiding" =>
    IF FirstProblems(lists) = {} THEN msg.problem = Root
    ELSE msg.shown = "visible" /\ msg.problem \in FirstProblems(lists)

ScannerInv(s) == FoundInSelection(s) /\ LinksJudged(s) /\ LinksFound(s)

IInv ==
  /\ TypeOK
  /\ scanner.included \cap scanner.excluded = {}
  /\ SignalsLead
  /\ MarksMatter(included, excluded)
  /\ ScannerInv(scanner)
  /\ ReportsLead
  /\ MessageFits(message, listed)

-----------------------------------------------------------------------------
(***************************************************************************)
(* Sets put in an order, and sequences of signals.                         *)
(***************************************************************************)
LEMMA InOrder ==
  ASSUME NEW S, IsFiniteSet(S)
  PROVE  /\ SetToSeq(S) \in Seq(S)
         /\ \A x \in S : \E i \in 1 .. Len(SetToSeq(S)) : SetToSeq(S)[i] = x
<1> DEFINE n == Cardinality(S)
<1>1. n \in Nat /\ ExistsBijection(1 .. n, S)
  BY FS_CardinalityType
<1>2. PICK g \in [1 .. n -> S] : IsInjective(g)
  BY <1>1 DEF ExistsBijection, Bijection, Injection
<1>3. SetToSeq(S) \in [1 .. n -> S] /\ IsInjective(SetToSeq(S))
  BY <1>2 DEF SetToSeq
<1>4. SetToSeq(S) \in Injection(1 .. n, S)
  BY <1>3 DEF Injection
<1>5. IsFiniteSet(1 .. n) /\ Cardinality(1 .. n) = n
  BY <1>1, FS_Interval
<1>6. SetToSeq(S) \in Surjection(1 .. n, S)
  BY <1>4, <1>5, FS_Injection
<1>7. SetToSeq(S) \in Seq(S) /\ Len(SetToSeq(S)) = n
  BY <1>1, <1>3
<1>8. QED  BY <1>6, <1>7 DEF Surjection

LEMMA AnyOrder ==
  ASSUME NEW S, IsFiniteSet(S), NEW order \in SetToSeqs(S)
  PROVE  /\ order \in Seq(S)
         /\ \A x \in S : \E i \in 1 .. Len(order) : order[i] = x
         /\ \A i, j \in 1 .. Len(order) : i # j => order[i] # order[j]
<1> DEFINE n == Cardinality(S)
<1>1. n \in Nat
  BY FS_CardinalityType
<1>2. order \in [1 .. n -> S] /\ \A i, j \in 1 .. n : i # j => order[i] # order[j]
  BY DEF SetToSeqs
<1>3. order \in Injection(1 .. n, S)
  BY <1>2 DEF Injection, IsInjective
<1>4. IsFiniteSet(1 .. n) /\ Cardinality(1 .. n) = n
  BY <1>1, FS_Interval
<1>5. order \in Surjection(1 .. n, S)
  BY <1>3, <1>4, FS_Injection
<1>6. order \in Seq(S) /\ Len(order) = n
  BY <1>1, <1>2
<1>7. QED  BY <1>2, <1>5, <1>6 DEF Surjection

LEMMA AfterType ==
  ASSUME NEW standing \in -1 .. 1, NEW signal, NEW q
  PROVE  After(standing, signal, q) \in -1 .. 1
BY DEF After

LEMMA NoSignals ==
  ASSUME NEW start \in -1 .. 1, NEW end, NEW q
  PROVE  Leads(start, <<>>, end, q) <=> start = end
<1>1. Len(<<>>) = 0
  OBVIOUS
<1>2. ASSUME start = end  PROVE Leads(start, <<>>, end, q)
  <2> DEFINE at == [i \in 0 .. 0 |-> start]
  <2>1. at \in [0 .. 0 -> -1 .. 1] /\ at[0] = start
    OBVIOUS
  <2> HIDE DEF at
  <2>2. QED  BY <1>1, <1>2, <2>1 DEF Leads
<1>3. QED  BY <1>1, <1>2 DEF Leads

LEMMA OneMore ==
  ASSUME NEW T, NEW sigs \in Seq(T), sigs # <<>>, NEW start \in -1 .. 1, NEW end, NEW q,
         Leads(start, sigs, end, q)
  PROVE  Leads(After(start, Head(sigs), q), Tail(sigs), end, q)
<1> DEFINE n == Len(sigs)
<1>1. n \in Nat /\ n >= 1 /\ Head(sigs) = sigs[1] /\ Len(Tail(sigs)) = n - 1
      /\ \A i \in 1 .. n - 1 : Tail(sigs)[i] = sigs[i + 1]
  BY EmptySeq, HeadTailProperties, LenProperties
<1>2. PICK at \in [0 .. n -> -1 .. 1] :
        /\ at[0] = start /\ at[n] = end
        /\ \A i \in 1 .. n : at[i] = After(at[i - 1], sigs[i], q)
  BY DEF Leads
<1> DEFINE later == [i \in 0 .. n - 1 |-> at[i + 1]]
<1> HIDE DEF n
<1>3. later \in [0 .. n - 1 -> -1 .. 1]
  BY <1>1, <1>2
<1>4. later[0] = After(start, Head(sigs), q) /\ later[n - 1] = end
  BY <1>1, <1>2
<1>5. \A i \in 1 .. n - 1 : later[i] = After(later[i - 1], Tail(sigs)[i], q)
  <2>1. TAKE i \in 1 .. n - 1
  <2>2. later[i] = at[i + 1] /\ later[i - 1] = at[i] /\ Tail(sigs)[i] = sigs[i + 1]
    BY <1>1
  <2>3. at[i + 1] = After(at[i + 1 - 1], sigs[i + 1], q)
    BY <1>1, <1>2
  <2>4. QED  BY <1>1, <2>2, <2>3
<1> HIDE DEF later
<1>6. QED  BY <1>1, <1>3, <1>4, <1>5 DEF Leads

LEMMA OneAfterTheOther ==
  ASSUME NEW T, NEW s \in Seq(T), NEW t \in Seq(T), NEW start, NEW mid, NEW end, NEW q,
         Leads(start, s, mid, q), Leads(mid, t, end, q)
  PROVE  Leads(start, s \o t, end, q)
<1> DEFINE m == Len(s)
           n == Len(t)
<1>1. m \in Nat /\ n \in Nat /\ Len(s \o t) = m + n
      /\ \A i \in 1 .. m + n : (s \o t)[i] = IF i <= m THEN s[i] ELSE t[i - m]
  BY ConcatProperties, LenProperties
<1>2. PICK f \in [0 .. m -> -1 .. 1] :
        /\ f[0] = start /\ f[m] = mid
        /\ \A i \in 1 .. m : f[i] = After(f[i - 1], s[i], q)
  BY DEF Leads
<1>3. PICK g \in [0 .. n -> -1 .. 1] :
        /\ g[0] = mid /\ g[n] = end
        /\ \A i \in 1 .. n : g[i] = After(g[i - 1], t[i], q)
  BY DEF Leads
<1> DEFINE at == [i \in 0 .. m + n |-> IF i <= m THEN f[i] ELSE g[i - m]]
<1> HIDE DEF m, n
<1>4. at \in [0 .. m + n -> -1 .. 1]
  BY <1>1, <1>2, <1>3
<1>5. at[0] = start /\ at[m + n] = end
  <2>1. at[0] = start
    BY <1>1, <1>2
  <2>2. CASE n = 0
    BY <1>1, <1>2, <1>3, <2>2
  <2>3. CASE n > 0
    <3>1. at[m + n] = g[m + n - m] /\ m + n - m = n
      BY <1>1, <2>3
    <3>2. QED  BY <1>3, <2>1, <3>1
  <2>4. QED  BY <1>1, <2>1, <2>2, <2>3
<1>6. \A i \in 1 .. m + n : at[i] = After(at[i - 1], (s \o t)[i], q)
  <2>1. TAKE i \in 1 .. m + n
  <2>2. CASE i <= m
    <3>1. at[i] = f[i] /\ at[i - 1] = f[i - 1] /\ (s \o t)[i] = s[i]
      BY <1>1, <2>2
    <3>2. QED  BY <1>1, <1>2, <2>2, <3>1
  <2>3. CASE i > m
    <3>1. at[i] = g[i - m] /\ at[i - 1] = g[i - m - 1] /\ (s \o t)[i] = t[i - m]
      <4>1. at[i] = g[i - m] /\ (s \o t)[i] = t[i - m]
        BY <1>1, <2>3
      <4>2. i # m + 1 => at[i - 1] = g[i - 1 - m] /\ i - 1 - m = i - m - 1
        BY <1>1, <2>3
      <4>3. i = m + 1 => at[i - 1] = g[i - m - 1]
        <5>1. SUFFICES ASSUME i = m + 1  PROVE at[i - 1] = g[i - m - 1]
          OBVIOUS
        <5>2. i - m - 1 = 0 /\ i - 1 = m /\ at[i - 1] = f[m]
          BY <1>1, <5>1
        <5>3. QED  BY <1>2, <1>3, <5>2
      <4>4. QED  BY <4>1, <4>2, <4>3
    <3>2. g[i - m] = After(g[i - m - 1], t[i - m], q)
      BY <1>1, <1>3, <2>3
    <3>3. QED  BY <3>1, <3>2
  <2>4. QED  BY <1>1, <2>2, <2>3
<1> HIDE DEF at
<1>7. QED  BY <1>1, <1>4, <1>5, <1>6 DEF Leads

\* Where a path stands when the signals of a set have been received.
Passed(standing, slot, S, q) ==
  IF q \in S THEN After(standing, [slot |-> slot, path |-> q], q) ELSE standing

LEMMA Emitted ==
  ASSUME NEW slot \in Slots, NEW S \in SUBSET Checkable, IsFiniteSet(S),
         NEW e \in Emissions(slot, S), NEW start \in -1 .. 1, NEW q
  PROVE  e \in Seq(Signal) /\ Leads(start, e, Passed(start, slot, S, q), q)
<1>1. PICK order \in SetToSeqs(S) :
        e = [i \in DOMAIN order |-> [slot |-> slot, path |-> order[i]]]
  BY DEF Emissions
<1>2. /\ order \in Seq(S)
      /\ \A x \in S : \E i \in 1 .. Len(order) : order[i] = x
      /\ \A i, j \in 1 .. Len(order) : i # j => order[i] # order[j]
  BY AnyOrder
<1> DEFINE n == Len(order)
<1>3. n \in Nat /\ DOMAIN order = 1 .. n /\ \A i \in 1 .. n : order[i] \in S
  BY <1>2, ElementOfSeq, LenProperties
<1> HIDE DEF n
<1>4. e \in [1 .. n -> Signal]
  BY <1>1, <1>3 DEF Signal
<1>5. e \in Seq(Signal) /\ Len(e) = n
  BY <1>3, <1>4
<1>6. ASSUME NEW i \in 1 .. n, NEW standing
      PROVE  After(standing, e[i], q) =
               IF order[i] = q THEN After(standing, [slot |-> slot, path |-> q], q)
                               ELSE standing
  <2>1. e[i].slot = slot /\ e[i].path = order[i]
    BY <1>1, <1>3
  <2>2. QED  BY <2>1 DEF After
<1>7. CASE q \in S
  <2> DEFINE fin == After(start, [slot |-> slot, path |-> q], q)
  <2>1. PICK k \in 1 .. n : order[k] = q
    BY <1>2, <1>7 DEF n
  <2>2. \A i \in 1 .. n : order[i] = q <=> i = k
    BY <1>2, <2>1 DEF n
  <2>3. fin \in -1 .. 1
    BY AfterType
  <2> HIDE DEF fin
  <2> DEFINE at == [i \in 0 .. n |-> IF i < k THEN start ELSE fin]
  <2>4. at \in [0 .. n -> -1 .. 1] /\ at[0] = start /\ at[n] = fin
    BY <1>3, <2>1, <2>3
  <2>5. ASSUME NEW i \in 1 .. n  PROVE at[i] = After(at[i - 1], e[i], q)
    <3>1. CASE i = k
      <4>1. at[i] = fin /\ at[i - 1] = start
        BY <1>3, <2>1, <3>1
      <4>2. QED  BY <1>6, <2>2, <3>1, <4>1 DEF fin
    <3>2. CASE i # k
      <4>1. at[i] = at[i - 1]
        BY <1>3, <2>1, <3>2
      <4>2. QED  BY <1>6, <2>2, <3>2, <4>1
    <3>3. QED  BY <3>1, <3>2
  <2> HIDE DEF at
  <2>6. Leads(start, e, fin, q)
    BY <1>5, <2>4, <2>5 DEF Leads
  <2>7. QED  BY <1>5, <1>7, <2>6 DEF fin, Passed
<1>8. CASE q \notin S
  <2> DEFINE at == [i \in 0 .. n |-> start]
  <2>1. at \in [0 .. n -> -1 .. 1] /\ at[0] = start /\ at[n] = start
    BY <1>3
  <2>2. ASSUME NEW i \in 1 .. n  PROVE at[i] = After(at[i - 1], e[i], q)
    <3>1. at[i] = start /\ at[i - 1] = start /\ order[i] # q
      BY <1>3, <1>8
    <3>2. QED  BY <1>6, <3>1
  <2> HIDE DEF at
  <2>3. Leads(start, e, start, q)
    BY <1>5, <2>1, <2>2 DEF Leads
  <2>4. QED  BY <1>5, <1>8, <2>3 DEF Passed
<1>9. QED  BY <1>7, <1>8

LEMMA MoreEmitted ==
  ASSUME NEW sigs \in Seq(Signal), NEW start, NEW now \in -1 .. 1, NEW q,
         Leads(start, sigs, now, q),
         NEW slot \in Slots, NEW S \in SUBSET Checkable, NEW e \in Emissions(slot, S)
  PROVE  /\ sigs \o e \in Seq(Signal)
         /\ Passed(now, slot, S, q) \in -1 .. 1
         /\ Leads(start, sigs \o e, Passed(now, slot, S, q), q)
<1>1. IsFiniteSet(S)
  BY FoldersAssumption, FS_Subset DEF Checkable, Paths
<1>2. e \in Seq(Signal) /\ Leads(now, e, Passed(now, slot, S, q), q)
  BY <1>1, Emitted
<1>3. Passed(now, slot, S, q) \in -1 .. 1
  BY AfterType DEF Passed
<1>4. QED  BY <1>2, <1>3, ConcatProperties, OneAfterTheOther

LEMMA ThreeEmittedType ==
  ASSUME signals \in Seq(Signal),
         NEW f \in Slots, NEW A \in SUBSET Checkable,
         NEW g \in Slots, NEW B \in SUBSET Checkable,
         NEW h \in Slots, NEW C \in SUBSET Checkable,
         Emit(Emissions(f, A), Emissions(g, B), Emissions(h, C))
  PROVE  signals' \in Seq(Signal)
<1>1. PICK a \in Emissions(f, A), b \in Emissions(g, B), c \in Emissions(h, C) :
        signals' = signals \o a \o b \o c
  BY DEF Emit
<1>2. 0 \in -1 .. 1 /\ IsFiniteSet(A) /\ IsFiniteSet(B) /\ IsFiniteSet(C)
  BY FoldersAssumption, FS_Subset DEF Checkable, Paths
<1>3. a \in Seq(Signal) /\ b \in Seq(Signal) /\ c \in Seq(Signal)
  BY <1>2, Emitted
<1>4. signals \o a \in Seq(Signal)
  BY <1>3, ConcatProperties
<1>5. signals \o a \o b \in Seq(Signal)
  BY <1>3, <1>4, ConcatProperties
<1>6. QED  BY <1>1, <1>3, <1>5, ConcatProperties

LEMMA ThreeEmitted ==
  ASSUME NEW start, NEW now \in -1 .. 1, NEW q, signals \in Seq(Signal),
         Leads(start, signals, now, q),
         NEW f \in Slots, NEW A \in SUBSET Checkable,
         NEW g \in Slots, NEW B \in SUBSET Checkable,
         NEW h \in Slots, NEW C \in SUBSET Checkable,
         Emit(Emissions(f, A), Emissions(g, B), Emissions(h, C))
  PROVE  Leads(start, signals', Passed(Passed(Passed(now, f, A, q), g, B, q), h, C, q), q)
<1>1. PICK a \in Emissions(f, A), b \in Emissions(g, B), c \in Emissions(h, C) :
        signals' = signals \o a \o b \o c
  BY DEF Emit
<1> DEFINE x == Passed(now, f, A, q)
           y == Passed(x, g, B, q)
<1>2. signals \o a \in Seq(Signal) /\ x \in -1 .. 1 /\ Leads(start, signals \o a, x, q)
  BY MoreEmitted
<1> HIDE DEF x
<1>3. /\ signals \o a \o b \in Seq(Signal) /\ y \in -1 .. 1
      /\ Leads(start, signals \o a \o b, y, q)
  BY <1>2, MoreEmitted
<1> HIDE DEF y
<1>4. /\ signals \o a \o b \o c \in Seq(Signal)
      /\ Leads(start, signals \o a \o b \o c, Passed(y, h, C, q), q)
  BY <1>3, MoreEmitted
<1>5. QED  BY <1>1, <1>4 DEF x, y

-----------------------------------------------------------------------------
(***************************************************************************)
(* Marks.  A path is included if the nearest mark above it is; what a      *)
(* click does to the marks, and to what is included by them.               *)
(***************************************************************************)
LEMMA AllArePaths ==
  /\ Paths \subseteq Path /\ Checkable \subseteq Paths /\ Checkable \subseteq Path
  /\ Dirs \subseteq Checkable /\ LinkPaths \subseteq Checkable
  /\ Files \subseteq Paths /\ Unreadable \subseteq Paths
  /\ Unreadable \subseteq Dirs \cup Files /\ Files \cap Dirs = {}
<1>1. Paths \subseteq Path
  BY FoldersAssumption DEF Path
<1>2. QED  BY <1>1 DEF Checkable, Files, Paths

LEMMA NotBoth ==
  ASSUME NEW inc \in SUBSET Path, NEW exc \in SUBSET Path, NEW q \in Path,
         LongestIsIn(q, inc, exc), LongestIsIn(q, exc, inc)
  PROVE  FALSE
<1>1. PICK m \in inc : Inside(q, m) /\ \A x \in exc : Inside(q, x) => Len(x) < Len(m)
  BY DEF LongestIsIn
<1>2. PICK x \in exc : Inside(q, x) /\ \A y \in inc : Inside(q, y) => Len(y) < Len(x)
  BY DEF LongestIsIn
<1>3. Len(m) \in Nat /\ Len(x) \in Nat
  BY LenProperties DEF Path
<1>4. QED  BY <1>1, <1>2, <1>3

LEMMA States ==
  ASSUME NEW inc \in SUBSET Path, NEW exc \in SUBSET Path, inc \cap exc = {}, NEW q \in Path
  PROVE  /\ StateIn(inc, exc, q) = "Included" <=> q \in inc
         /\ StateIn(inc, exc, q) = "Excluded" <=> q \in exc
         /\ StateIn(inc, exc, q) = "IncludeInherited"
              <=> q \notin inc \cup exc /\ LongestIsIn(q, inc, exc)
         /\ StateIn(inc, exc, q) \in {"None", "ExcludeInherited"}
              <=> q \notin inc \cup exc /\ ~LongestIsIn(q, inc, exc)
<1>1. exc \ inc = exc
  OBVIOUS
<1>2. CASE q \in inc
  <2>1. StateIn(inc, exc, q) = "Included"
    BY <1>2 DEF StateIn
  <2>2. QED  BY <1>2, <2>1
<1>3. CASE q \in exc
  <2>1. StateIn(inc, exc, q) = "Excluded"
    BY <1>3 DEF StateIn
  <2>2. QED  BY <1>3, <2>1
<1>4. CASE q \notin inc \cup exc /\ LongestIsIn(q, inc, exc)
  <2>1. ~LongestIsIn(q, exc, inc)
    BY <1>4, NotBoth
  <2>2. StateIn(inc, exc, q) = "IncludeInherited"
    BY <1>1, <1>4, <2>1 DEF StateIn
  <2>3. QED  BY <1>4, <2>2
<1>5. CASE q \notin inc \cup exc /\ ~LongestIsIn(q, inc, exc)
  <2>1. StateIn(inc, exc, q) \in {"None", "ExcludeInherited"}
    BY <1>1, <1>5 DEF StateIn
  <2>2. QED  BY <1>5, <2>1
<1>6. QED  BY <1>2, <1>3, <1>4, <1>5

\* A marked path is its own longest mark.
LEMMA MarkedItself ==
  ASSUME NEW inc \in SUBSET Path, NEW exc \in SUBSET Path, inc \cap exc = {}, NEW q \in Path
  PROVE  /\ q \in inc => LongestIsIn(q, inc, exc)
         /\ q \in exc => ~LongestIsIn(q, inc, exc)
<1>1. ASSUME q \in inc  PROVE LongestIsIn(q, inc, exc)
  <2>1. ASSUME NEW x \in exc, Inside(q, x)  PROVE Len(x) < Len(q)
    <3>1. x # q /\ Inside(q, q) /\ Len(x) \in Nat /\ Len(q) \in Nat /\ Len(x) <= Len(q)
      BY <1>1, <2>1, InsideItself, InsideLength
    <3>2. Len(x) = Len(q) => q = x
      BY <2>1, <3>1, OnOneLine
    <3>3. QED  BY <3>1, <3>2
  <2>2. QED  BY <1>1, <2>1, InsideItself DEF LongestIsIn
<1>2. ASSUME q \in exc, LongestIsIn(q, inc, exc)  PROVE FALSE
  <2>1. PICK m \in inc : Inside(q, m) /\ Len(q) < Len(m)
    BY <1>2, InsideItself DEF LongestIsIn
  <2>2. QED  BY <2>1, InsideLength
<1>3. QED  BY <1>1, <1>2

LEMMA IncludedByLongest ==
  ASSUME NEW inc \in SUBSET Path, NEW exc \in SUBSET Path, inc \cap exc = {}, NEW q \in Path
  PROVE  StateIn(inc, exc, q) \in {"Included", "IncludeInherited"} <=> LongestIsIn(q, inc, exc)
BY MarkedItself, States

\* What kuprc holds.
LEMMA SavedMarksMatter ==
  ASSUME NEW pair \in SavedSelections
  PROVE  /\ pair[1] \subseteq Checkable /\ pair[2] \subseteq Checkable
         /\ MarksMatter(pair[1], pair[2])
<1> DEFINE inc == pair[1]
           exc == pair[2]
<1>1. inc \subseteq Checkable /\ exc \subseteq Checkable
  BY SelectionAssumption
<1>2. inc \subseteq Path /\ exc \subseteq Path
  BY <1>1, AllArePaths
<1>3. /\ \A p \in inc : StateIn(inc \ {p}, exc, p) \in {"None", "ExcludeInherited"}
      /\ \A p \in exc : StateIn(inc, exc \ {p}, p) = "IncludeInherited"
  BY SavedAssumption
<1> HIDE DEF inc, exc
<1>4. inc \cap exc = {}
  <2>1. SUFFICES ASSUME NEW p \in inc, p \in exc  PROVE FALSE
    OBVIOUS
  <2>2. StateIn(inc, exc \ {p}, p) = "Included"
    BY <2>1 DEF StateIn
  <2>3. QED  BY <1>3, <2>1, <2>2
<1>5. ASSUME NEW p \in inc  PROVE ~LongestIsIn(p, inc \ {p}, exc)
  <2>1. inc \ {p} \in SUBSET Path /\ p \in Path /\ (inc \ {p}) \cap exc = {}
    BY <1>2, <1>4
  <2>2. QED  BY <1>2, <1>3, <2>1, States
<1>6. ASSUME NEW p \in exc  PROVE LongestIsIn(p, inc, exc \ {p})
  <2>1. exc \ {p} \in SUBSET Path /\ p \in Path /\ inc \cap (exc \ {p}) = {}
    BY <1>2, <1>4
  <2>2. QED  BY <1>2, <1>3, <2>1, States
<1>7. QED  BY <1>1, <1>4, <1>5, <1>6 DEF MarksMatter, inc, exc

\* Marks inside of a path say nothing about what is not inside of it.
LEMMA Elsewhere ==
  ASSUME NEW p \in Path, NEW q \in Path, ~Inside(q, p),
         NEW inc \in SUBSET Path, NEW exc \in SUBSET Path,
         NEW inc2 \in SUBSET Path, NEW exc2 \in SUBSET Path,
         \A y \in Path : ~Inside(y, p) => (y \in inc2 <=> y \in inc) /\ (y \in exc2 <=> y \in exc)
  PROVE  LongestIsIn(q, inc2, exc2) <=> LongestIsIn(q, inc, exc)
<1>1. ASSUME NEW y \in Path, Inside(q, y)  PROVE ~Inside(y, p)
  BY <1>1, InsideTwice
<1>2. ASSUME LongestIsIn(q, inc, exc)  PROVE LongestIsIn(q, inc2, exc2)
  BY <1>1, <1>2 DEF LongestIsIn
<1>3. ASSUME LongestIsIn(q, inc2, exc2)  PROVE LongestIsIn(q, inc, exc)
  BY <1>1, <1>3 DEF LongestIsIn
<1>4. QED  BY <1>2, <1>3

\* Whether a path would be included without a mark of its own.
Inherits(inc, exc, p) == LongestIsIn(p, inc \ {p}, exc \ {p})

LEMMA InheritsWithMarks ==
  ASSUME NEW inc \in SUBSET Path, NEW exc \in SUBSET Path, MarksMatter(inc, exc), NEW p \in Path
  PROVE  /\ p \in inc => ~Inherits(inc, exc, p)
         /\ p \in exc => Inherits(inc, exc, p)
         /\ p \notin inc \cup exc => (Inherits(inc, exc, p) <=> LongestIsIn(p, inc, exc))
<1>1. inc \cap exc = {}
  BY DEF MarksMatter
<1>2. ASSUME p \in inc  PROVE ~Inherits(inc, exc, p)
  <2>1. exc \ {p} = exc
    BY <1>1, <1>2
  <2>2. QED  BY <1>2, <2>1 DEF Inherits, MarksMatter
<1>3. ASSUME p \in exc  PROVE Inherits(inc, exc, p)
  <2>1. inc \ {p} = inc
    BY <1>1, <1>3
  <2>2. QED  BY <1>3, <2>1 DEF Inherits, MarksMatter
<1>4. ASSUME p \notin inc \cup exc  PROVE Inherits(inc, exc, p) <=> LongestIsIn(p, inc, exc)
  <2>1. inc \ {p} = inc /\ exc \ {p} = exc
    BY <1>4
  <2>2. QED  BY <2>1 DEF Inherits
<1>5. QED  BY <1>2, <1>3, <1>4

\* All marks inside of a path are replaced by the one that its state still needs.
Remarked(inc, exc, p, on, inc2, exc2) ==
  /\ \A y : y \in inc2 <=> (y \in inc /\ ~Inside(y, p)) \/ (y = p /\ on /\ ~Inherits(inc, exc, p))
  /\ \A y : y \in exc2 <=> (y \in exc /\ ~Inside(y, p)) \/ (y = p /\ ~on /\ Inherits(inc, exc, p))

LEMMA OneMarkForAll ==
  ASSUME NEW inc \in SUBSET Path, NEW exc \in SUBSET Path, MarksMatter(inc, exc),
         NEW p \in Path, NEW on \in BOOLEAN, NEW inc2, NEW exc2,
         Remarked(inc, exc, p, on, inc2, exc2)
  PROVE  /\ MarksMatter(inc2, exc2)
         /\ \A q \in Path :
              LongestIsIn(q, inc2, exc2)
                <=> (Inside(q, p) /\ on) \/ (~Inside(q, p) /\ LongestIsIn(q, inc, exc))
<1>0. /\ \A y : y \in inc2 <=> (y \in inc /\ ~Inside(y, p)) \/ (y = p /\ on /\ ~Inherits(inc, exc, p))
      /\ \A y : y \in exc2 <=> (y \in exc /\ ~Inside(y, p)) \/ (y = p /\ ~on /\ Inherits(inc, exc, p))
  BY DEF Remarked
<1>1. /\ inc2 \in SUBSET Path /\ exc2 \in SUBSET Path
      /\ \A y \in Path : ~Inside(y, p) => (y \in inc2 <=> y \in inc) /\ (y \in exc2 <=> y \in exc)
      /\ \A y \in inc2 : Inside(y, p) => y = p /\ on /\ ~Inherits(inc, exc, p)
      /\ \A y \in exc2 : Inside(y, p) => y = p /\ ~on /\ Inherits(inc, exc, p)
  <2>1. Inside(p, p)
    BY InsideItself
  <2>2. inc2 \in SUBSET Path /\ exc2 \in SUBSET Path
    BY <1>0
  <2>3. ASSUME NEW y \in Path, ~Inside(y, p)
        PROVE  (y \in inc2 <=> y \in inc) /\ (y \in exc2 <=> y \in exc)
    BY <1>0, <2>1, <2>3
  <2>4. \A y \in inc2 : Inside(y, p) => y = p /\ on /\ ~Inherits(inc, exc, p)
    BY <1>0
  <2>5. \A y \in exc2 : Inside(y, p) => y = p /\ ~on /\ Inherits(inc, exc, p)
    BY <1>0
  <2>6. QED  BY <2>2, <2>3, <2>4, <2>5
<1>2. /\ p \in inc2 <=> on /\ ~Inherits(inc, exc, p)
      /\ p \in exc2 <=> ~on /\ Inherits(inc, exc, p)
  BY <1>0, InsideItself
<1>3. Inherits(inc2, exc2, p) <=> Inherits(inc, exc, p)
  <2>1. ASSUME NEW y \in Path, y # p, Inside(p, y)
        PROVE  (y \in inc2 <=> y \in inc) /\ (y \in exc2 <=> y \in exc)
    BY <1>1, <2>1, InsideBoth
  <2>2. ASSUME Inherits(inc, exc, p)  PROVE Inherits(inc2, exc2, p)
    <3>1. PICK m \in inc \ {p} :
            Inside(p, m) /\ \A x \in exc \ {p} : Inside(p, x) => Len(x) < Len(m)
      BY <2>2 DEF Inherits, LongestIsIn
    <3>2. m \in inc2 \ {p} /\ \A x \in exc2 \ {p} : Inside(p, x) => Len(x) < Len(m)
      BY <1>1, <2>1, <3>1
    <3>3. QED  BY <3>1, <3>2 DEF Inherits, LongestIsIn
  <2>3. ASSUME Inherits(inc2, exc2, p)  PROVE Inherits(inc, exc, p)
    <3>1. PICK m \in inc2 \ {p} :
            Inside(p, m) /\ \A x \in exc2 \ {p} : Inside(p, x) => Len(x) < Len(m)
      BY <2>3 DEF Inherits, LongestIsIn
    <3>2. m \in inc \ {p} /\ \A x \in exc \ {p} : Inside(p, x) => Len(x) < Len(m)
      BY <1>1, <2>1, <3>1
    <3>3. QED  BY <3>1, <3>2 DEF Inherits, LongestIsIn
  <2>4. QED  BY <2>2, <2>3
<1>4. MarksMatter(inc2, exc2)
  <2>1. inc2 \cap exc2 = {}
    <3>1. SUFFICES ASSUME NEW y \in inc2, y \in exc2  PROVE FALSE
      OBVIOUS
    <3>2. inc \cap exc = {}
      BY DEF MarksMatter
    <3>3. QED  BY <1>1, <3>1, <3>2
  <2>2. ASSUME NEW m \in inc2  PROVE ~LongestIsIn(m, inc2 \ {m}, exc2)
    <3>1. CASE Inside(m, p)
      <4>1. m = p /\ ~Inherits(inc2, exc2, p) /\ exc2 \ {p} = exc2
        BY <1>1, <1>2, <1>3, <2>1, <3>1
      <4>2. QED  BY <4>1 DEF Inherits
    <3>2. CASE ~Inside(m, p)
      <4>1. m \in inc /\ m \in Path /\ ~LongestIsIn(m, inc \ {m}, exc)
        BY <1>1, <3>2 DEF MarksMatter
      <4> DEFINE a == inc \ {m}
                 b == inc2 \ {m}
      <4>2. /\ a \in SUBSET Path /\ b \in SUBSET Path
            /\ \A y \in Path : ~Inside(y, p) => (y \in b <=> y \in a) /\ (y \in exc2 <=> y \in exc)
        BY <1>1
      <4> HIDE DEF a, b
      <4>3. LongestIsIn(m, b, exc2) <=> LongestIsIn(m, a, exc)
        BY <1>1, <3>2, <4>1, <4>2, Elsewhere
      <4>4. QED  BY <4>1, <4>3 DEF a, b
    <3>3. QED  BY <3>1, <3>2
  <2>3. ASSUME NEW m \in exc2  PROVE LongestIsIn(m, inc2, exc2 \ {m})
    <3>1. CASE Inside(m, p)
      <4>1. m = p /\ Inherits(inc2, exc2, p) /\ inc2 \ {p} = inc2
        BY <1>1, <1>2, <1>3, <2>1, <3>1
      <4>2. QED  BY <4>1 DEF Inherits
    <3>2. CASE ~Inside(m, p)
      <4>1. m \in exc /\ m \in Path /\ LongestIsIn(m, inc, exc \ {m})
        BY <1>1, <3>2 DEF MarksMatter
      <4> DEFINE a == exc \ {m}
                 b == exc2 \ {m}
      <4>2. /\ a \in SUBSET Path /\ b \in SUBSET Path
            /\ \A y \in Path : ~Inside(y, p) => (y \in inc2 <=> y \in inc) /\ (y \in b <=> y \in a)
        BY <1>1
      <4> HIDE DEF a, b
      <4>3. LongestIsIn(m, inc2, b) <=> LongestIsIn(m, inc, a)
        BY <1>1, <3>2, <4>1, <4>2, Elsewhere
      <4>4. QED  BY <4>1, <4>3 DEF a, b
    <3>3. QED  BY <3>1, <3>2
  <2>4. QED  BY <2>1, <2>2, <2>3 DEF MarksMatter
<1>5. ASSUME NEW q \in Path, ~Inside(q, p)
      PROVE  LongestIsIn(q, inc2, exc2) <=> LongestIsIn(q, inc, exc)
  BY <1>1, <1>5, Elsewhere
<1>6. ASSUME NEW q \in Path, Inside(q, p), on  PROVE LongestIsIn(q, inc2, exc2)
  <2>1. CASE ~Inherits(inc, exc, p)
    <3>1. ASSUME NEW x \in exc2, Inside(q, x)  PROVE Len(x) < Len(p)
      BY <1>1, <1>6, <3>1, Nested
    <3>2. QED  BY <1>2, <1>6, <2>1, <3>1 DEF LongestIsIn
  <2>2. CASE Inherits(inc, exc, p)
    <3>1. PICK m \in inc \ {p} :
            Inside(p, m) /\ \A x \in exc \ {p} : Inside(p, x) => Len(x) < Len(m)
      BY <2>2 DEF Inherits, LongestIsIn
    <3>2. m \in inc2 /\ Inside(q, m)
      BY <1>1, <1>6, <3>1, InsideBoth, InsideTwice
    <3>3. ASSUME NEW x \in exc2, Inside(q, x)  PROVE Len(x) < Len(m)
      <4>1. ~Inside(x, p) /\ x \in Path
        BY <1>1, <1>6, <3>3
      <4>2. Inside(p, x) /\ x \in exc /\ x # p
        BY <1>1, <1>6, <3>3, <4>1, InsideItself, Nested
      <4>3. QED  BY <3>1, <4>2
    <3>4. QED  BY <3>2, <3>3 DEF LongestIsIn
  <2>3. QED  BY <2>1, <2>2
<1>7. ASSUME NEW q \in Path, Inside(q, p), ~on, LongestIsIn(q, inc2, exc2)  PROVE FALSE
  <2>1. PICK m \in inc2 : Inside(q, m) /\ \A x \in exc2 : Inside(q, x) => Len(x) < Len(m)
    BY <1>7 DEF LongestIsIn
  <2>2. ~Inside(m, p) /\ m \in inc /\ m # p /\ m \in Path
    BY <1>1, <1>7, InsideItself
  <2>3. Inside(p, m) /\ Len(m) < Len(p) /\ Len(m) \in Nat /\ Len(p) \in Nat
    BY <1>7, <2>1, <2>2, InsideLength, Nested
  <2>4. CASE Inherits(inc, exc, p)
    BY <1>2, <1>7, <2>1, <2>3, <2>4
  <2>5. CASE ~Inherits(inc, exc, p)
    <3>1. ASSUME NEW x \in exc \ {p}, Inside(p, x)  PROVE Len(x) < Len(m)
      <4>1. ~Inside(x, p) /\ Inside(q, x)
        BY <1>7, <3>1, InsideBoth, InsideTwice
      <4>2. QED  BY <1>1, <2>1, <4>1
    <3>2. QED  BY <2>2, <2>3, <2>5, <3>1 DEF Inherits, LongestIsIn
  <2>6. QED  BY <2>4, <2>5
<1>8. ASSUME NEW q \in Path
      PROVE  LongestIsIn(q, inc2, exc2)
               <=> (Inside(q, p) /\ on) \/ (~Inside(q, p) /\ LongestIsIn(q, inc, exc))
  BY <1>5, <1>6, <1>7
<1>9. QED  BY <1>4, <1>8

-----------------------------------------------------------------------------
(***************************************************************************)
(* What the user does to the tree.                                         *)
(***************************************************************************)
Marks == included \in SUBSET Checkable /\ excluded \in SUBSET Checkable

LEMMA PassedIs ==
  ASSUME NEW standing, NEW S, NEW q
  PROVE  /\ Passed(standing, "includePath", S, q) =
              IF q \in S /\ standing # 1 THEN standing + 1 ELSE standing
         /\ Passed(standing, "excludePath", S, q) =
              IF q \in S /\ standing # -1 THEN standing - 1 ELSE standing
BY DEF After, Passed

LEMMA StandingType ==
  ASSUME NEW inc, NEW exc, NEW q
  PROVE  Standing(inc, exc, q) \in -1 .. 1
BY DEF Standing

\* A click, or the button of the message.
LEMMA ClickStep ==
  ASSUME Marks, MarksMatter(included, excluded), signals \in Seq(Signal),
         NEW p \in Checkable, NEW on \in BOOLEAN,
         IF on THEN IncludePath(p) ELSE ExcludePath(p)
  PROVE  /\ Marks' /\ signals' \in Seq(Signal)
         /\ MarksMatter(included', excluded')
         /\ \A q \in Path :
              LongestIsIn(q, included', excluded')
                <=> (Inside(q, p) /\ on) \/ (~Inside(q, p) /\ LongestIsIn(q, included, excluded))
         /\ \A start, q :
              Leads(start, signals, Standing(included, excluded, q), q)
              => Leads(start, signals', Standing(included', excluded', q), q)
<1> DEFINE ins == Inherits(included, excluded, p)
           A   == InsideOf(p, excluded)
           B   == InsideOf(p, included)
           C   == IF on # ins THEN {p} ELSE {}
           f   == IF on THEN "includePath" ELSE "excludePath"
<1>1. p \in Path /\ included \in SUBSET Path /\ excluded \in SUBSET Path
  BY AllArePaths DEF Marks
<1>2. /\ included \cap excluded = {} /\ ins \in BOOLEAN
      /\ p \in included => ~ins
      /\ p \in excluded => ins
      /\ p \notin included \cup excluded => (ins <=> LongestIsIn(p, included, excluded))
  <2>1. included \cap excluded = {}
    BY DEF MarksMatter
  <2>2. ins \in BOOLEAN
    BY DEF Inherits, LongestIsIn
  <2>3. QED  BY <1>1, <2>1, <2>2, InheritsWithMarks
<1>3. /\ InclusionState(p) = "Included" <=> p \in included
      /\ InclusionState(p) = "Excluded" <=> p \in excluded
      /\ InclusionState(p) = "IncludeInherited"
           <=> p \notin included \cup excluded /\ LongestIsIn(p, included, excluded)
      /\ InclusionState(p) \in {"None", "ExcludeInherited"}
           <=> p \notin included \cup excluded /\ ~LongestIsIn(p, included, excluded)
  BY <1>1, <1>2, States DEF InclusionState
<1> HIDE DEF ins
<1>6. /\ included' = (included \ B) \cup (IF on /\ ~ins THEN {p} ELSE {})
      /\ excluded' = (excluded \ A) \cup (IF ~on /\ ins THEN {p} ELSE {})
      /\ Emit(Emissions("includePath", A), Emissions("excludePath", B), Emissions(f, C))
  <2>1. CASE on
    <3>1. /\ InclusionState(p) # "Included"
          /\ included' = (included \ B) \cup
               (IF InclusionState(p) \in {"None", "ExcludeInherited"} THEN {p} ELSE {})
          /\ excluded' = excluded \ A
          /\ Emit(Emissions("includePath", A), Emissions("excludePath", B),
                  Emissions("includePath",
                    IF InclusionState(p) \in {"None", "ExcludeInherited"} THEN {p} ELSE {}))
      BY <2>1 DEF IncludePath
    <3>2. InclusionState(p) \in {"None", "ExcludeInherited"} <=> on # ins
      BY <1>2, <1>3, <2>1, <3>1
    <3>3. QED  BY <1>2, <2>1, <3>1, <3>2
  <2>2. CASE ~on
    <3>1. /\ InclusionState(p) # "Excluded"
          /\ excluded' = (excluded \ A) \cup
               (IF InclusionState(p) = "IncludeInherited" THEN {p} ELSE {})
          /\ included' = included \ B
          /\ Emit(Emissions("includePath", A), Emissions("excludePath", B),
                  Emissions("excludePath",
                    IF InclusionState(p) = "IncludeInherited" THEN {p} ELSE {}))
      BY <2>2 DEF ExcludePath
    <3>2. InclusionState(p) = "IncludeInherited" <=> on # ins
      BY <1>2, <1>3, <2>2, <3>1
    <3>3. QED  BY <1>2, <2>2, <3>1, <3>2
  <2>3. QED  BY <2>1, <2>2
<1>7. /\ MarksMatter(included', excluded')
      /\ \A q \in Path :
           LongestIsIn(q, included', excluded')
             <=> (Inside(q, p) /\ on) \/ (~Inside(q, p) /\ LongestIsIn(q, included, excluded))
  <2>1. /\ \A y : y \in A <=> y \in excluded /\ Inside(y, p)
        /\ \A y : y \in B <=> y \in included /\ Inside(y, p)
    BY DEF InsideOf
  <2> HIDE DEF A, B, C, f
  <2>2. \A y : y \in included' <=> (y \in included /\ ~Inside(y, p)) \/ (y = p /\ on /\ ~ins)
    BY <1>6, <2>1
  <2>3. \A y : y \in excluded' <=> (y \in excluded /\ ~Inside(y, p)) \/ (y = p /\ ~on /\ ins)
    BY <1>6, <2>1
  <2>4. Remarked(included, excluded, p, on, included', excluded')
    BY <2>2, <2>3, Zenon DEF ins, Remarked
  <2>5. QED  BY <1>1, <2>4, OneMarkForAll
<1>8. /\ A \in SUBSET Checkable /\ B \in SUBSET Checkable /\ C \in SUBSET Checkable
      /\ Marks'
  BY <1>6 DEF InsideOf, Marks
<1>9. ASSUME NEW q
      PROVE  Passed(Passed(Passed(Standing(included, excluded, q), "includePath", A, q),
                           "excludePath", B, q), f, C, q)
             = Standing(included', excluded', q)
  <2>0. A = {y \in excluded : Inside(y, p)} /\ B = {y \in included : Inside(y, p)} /\ Inside(p, p)
    BY InsideItself DEF InsideOf
  <2> DEFINE x == Passed(Passed(Standing(included, excluded, q), "includePath", A, q),
                         "excludePath", B, q)
  <2>1. x = IF q \in A \cup B THEN 0 ELSE Standing(included, excluded, q)
    BY <1>2, <2>0, PassedIs DEF Standing
  <2>2. Passed(x, f, C, q) =
          IF q \notin C THEN x
          ELSE IF on THEN (IF x # 1 THEN x + 1 ELSE x) ELSE (IF x # -1 THEN x - 1 ELSE x)
    BY PassedIs
  <2> HIDE DEF x, A, B, f
  <2>3. CASE q \in C
    <3>1. q = p /\ on # ins
      BY <2>3
    <3>2. x = 0
      BY <1>2, <2>0, <2>1, <3>1 DEF Standing
    <3>3. Standing(included', excluded', q) = IF on THEN 1 ELSE -1
      BY <1>2, <1>6, <2>0, <3>1 DEF Standing
    <3>4. QED  BY <2>2, <2>3, <3>2, <3>3 DEF x
  <2>4. CASE q \notin C
    <3>1. Passed(x, f, C, q) = x
      BY <2>2, <2>4
    <3>2. (q \in included' <=> q \in included \ B) /\ (q \in excluded' <=> q \in excluded \ A)
      BY <1>2, <1>6, <2>4
    <3>3. Standing(included', excluded', q) = x
      BY <1>2, <2>0, <2>1, <3>2 DEF Standing
    <3>4. QED  BY <3>1, <3>3 DEF x
  <2>5. QED  BY <2>3, <2>4
<1>10. f \in Slots /\ "includePath" \in Slots /\ "excludePath" \in Slots
  BY DEF Slots
<1>11. signals' \in Seq(Signal)
  <2> HIDE DEF A, B, C, f
  <2>1. QED  BY <1>6, <1>8, <1>10, ThreeEmittedType
<1>12. ASSUME NEW start, NEW q, Leads(start, signals, Standing(included, excluded, q), q)
       PROVE  Leads(start, signals', Standing(included', excluded', q), q)
  <2> HIDE DEF A, B, C, f
  <2>1. Emit(Emissions("includePath", A), Emissions("excludePath", B), Emissions(f, C))
    BY <1>6
  <2>2. Leads(start, signals',
          Passed(Passed(Passed(Standing(included, excluded, q), "includePath", A, q),
                        "excludePath", B, q), f, C, q), q)
    BY <1>8, <1>10, <1>12, <2>1, StandingType, ThreeEmitted
  <2>3. QED  BY <1>9, <2>2
<1>13. QED
  BY <1>7, <1>8, <1>11, <1>12

\* The page is filled from kuprc.
LEMMA LoadStep ==
  ASSUME Marks, included \cap excluded = {}, signals \in Seq(Signal),
         NEW inc \in SUBSET Checkable, NEW exc \in SUBSET Checkable, inc \cap exc = {},
         Load(inc, exc)
  PROVE  /\ included' = inc /\ excluded' = exc /\ signals' \in Seq(Signal)
         /\ \A start, q :
              Leads(start, signals, Standing(included, excluded, q), q)
              => Leads(start, signals', Standing(inc, exc, q), q)
<1> DEFINE A == included \ inc
           B == inc \ included
           C == excluded \ exc
           D == exc \ excluded
           f == "excludePath"
           g == "includePath"
<1>1. PICK a \in Emissions(f, A), b \in Emissions(g, B), c \in Emissions(g, C),
           d \in Emissions(f, D) :
        signals' \in {signals \o a \o b \o c \o d, signals \o c \o d \o a \o b}
  BY DEF Load
<1>2. /\ A \in SUBSET Checkable /\ B \in SUBSET Checkable
      /\ C \in SUBSET Checkable /\ D \in SUBSET Checkable
      /\ f \in Slots /\ g \in Slots
  BY DEF Marks, Slots
<1>3. included' = inc /\ excluded' = exc
  BY DEF Load
<1>4. signals' \in Seq(Signal)
  <2> HIDE DEF A, B, C, D, f, g
  <2>1. /\ 0 \in -1 .. 1
        /\ IsFiniteSet(A) /\ IsFiniteSet(B) /\ IsFiniteSet(C) /\ IsFiniteSet(D)
    BY <1>2, FoldersAssumption, FS_Subset DEF Checkable, Paths
  <2>2. a \in Seq(Signal) /\ b \in Seq(Signal) /\ c \in Seq(Signal) /\ d \in Seq(Signal)
    BY <1>2, <2>1, Emitted
  <2>3. signals \o a \in Seq(Signal) /\ signals \o c \in Seq(Signal)
    BY <2>2, ConcatProperties
  <2>4. signals \o a \o b \in Seq(Signal) /\ signals \o c \o d \in Seq(Signal)
    BY <2>2, <2>3, ConcatProperties
  <2>5. signals \o a \o b \o c \in Seq(Signal) /\ signals \o c \o d \o a \in Seq(Signal)
    BY <2>2, <2>4, ConcatProperties
  <2>6. /\ signals \o a \o b \o c \o d \in Seq(Signal)
        /\ signals \o c \o d \o a \o b \in Seq(Signal)
    BY <2>2, <2>5, ConcatProperties
  <2>7. QED  BY <1>1, <2>6
<1>5. ASSUME NEW start, NEW q, Leads(start, signals, Standing(included, excluded, q), q)
      PROVE  Leads(start, signals', Standing(inc, exc, q), q)
  <2> DEFINE st == Standing(included, excluded, q)
             x1 == Passed(st, f, A, q)
             x2 == Passed(x1, g, B, q)
             x3 == Passed(x2, g, C, q)
             x4 == Passed(x3, f, D, q)
             y1 == Passed(st, g, C, q)
             y2 == Passed(y1, f, D, q)
             y3 == Passed(y2, f, A, q)
             y4 == Passed(y3, g, B, q)
  <2>1. /\ x1 = IF q \in A /\ st # -1 THEN st - 1 ELSE st
        /\ x2 = IF q \in B /\ x1 # 1 THEN x1 + 1 ELSE x1
        /\ x3 = IF q \in C /\ x2 # 1 THEN x2 + 1 ELSE x2
        /\ x4 = IF q \in D /\ x3 # -1 THEN x3 - 1 ELSE x3
    BY PassedIs
  <2>2. /\ y1 = IF q \in C /\ st # 1 THEN st + 1 ELSE st
        /\ y2 = IF q \in D /\ y1 # -1 THEN y1 - 1 ELSE y1
        /\ y3 = IF q \in A /\ y2 # -1 THEN y2 - 1 ELSE y2
        /\ y4 = IF q \in B /\ y3 # 1 THEN y3 + 1 ELSE y3
    BY PassedIs
  <2>3. st \in -1 .. 1 /\ Leads(start, signals, st, q)
    BY <1>5, StandingType
  <2>4. x1 \in -1 .. 1 /\ x2 \in -1 .. 1 /\ x3 \in -1 .. 1
        /\ y1 \in -1 .. 1 /\ y2 \in -1 .. 1 /\ y3 \in -1 .. 1
    <3> HIDE DEF st, x1, x2, x3, x4, y1, y2, y3, y4, A, B, C, D
    <3>1. x1 \in -1 .. 1 /\ y1 \in -1 .. 1
      BY <2>1, <2>2, <2>3
    <3>2. x2 \in -1 .. 1 /\ y2 \in -1 .. 1
      BY <2>1, <2>2, <3>1
    <3>3. x3 \in -1 .. 1
      BY <2>1, <3>2
    <3>4. y3 \in -1 .. 1
      BY <2>2, <3>2
    <3>5. QED  BY <3>1, <3>2, <3>3, <3>4
  <2>5. x4 = Standing(inc, exc, q) /\ y4 = Standing(inc, exc, q)
    <3>1. st = IF q \in included THEN 1 ELSE IF q \in excluded THEN -1 ELSE 0
      BY DEF Standing
    <3>2. Standing(inc, exc, q) = IF q \in inc THEN 1 ELSE IF q \in exc THEN -1 ELSE 0
      BY DEF Standing
    <3>3. /\ q \in A <=> q \in included /\ q \notin inc
          /\ q \in B <=> q \in inc /\ q \notin included
          /\ q \in C <=> q \in excluded /\ q \notin exc
          /\ q \in D <=> q \in exc /\ q \notin excluded
          /\ ~(q \in included /\ q \in excluded) /\ ~(q \in inc /\ q \in exc)
      OBVIOUS
    <3> HIDE DEF st, x1, x2, x3, x4, y1, y2, y3, y4, A, B, C, D
    <3>4. x4 = Standing(inc, exc, q)
      BY <2>1, <3>1, <3>2, <3>3
    <3>5. y4 = Standing(inc, exc, q)
      BY <2>2, <3>1, <3>2, <3>3
    <3>6. QED  BY <3>4, <3>5
  <2>6. Leads(start, signals \o a \o b \o c \o d, x4, q)
    <3> HIDE DEF A, B, C, D, f, g, st
    <3>1. signals \o a \in Seq(Signal) /\ Leads(start, signals \o a, x1, q)
      BY <1>2, <2>3, MoreEmitted
    <3> HIDE DEF x1
    <3>2. signals \o a \o b \in Seq(Signal) /\ Leads(start, signals \o a \o b, x2, q)
      BY <1>2, <2>4, <3>1, MoreEmitted
    <3> HIDE DEF x2
    <3>3. /\ signals \o a \o b \o c \in Seq(Signal)
          /\ Leads(start, signals \o a \o b \o c, x3, q)
      BY <1>2, <2>4, <3>2, MoreEmitted
    <3> HIDE DEF x3
    <3>4. QED  BY <1>2, <2>4, <3>3, MoreEmitted
  <2>7. Leads(start, signals \o c \o d \o a \o b, y4, q)
    <3> HIDE DEF A, B, C, D, f, g, st
    <3>1. signals \o c \in Seq(Signal) /\ Leads(start, signals \o c, y1, q)
      BY <1>2, <2>3, MoreEmitted
    <3> HIDE DEF y1
    <3>2. signals \o c \o d \in Seq(Signal) /\ Leads(start, signals \o c \o d, y2, q)
      BY <1>2, <2>4, <3>1, MoreEmitted
    <3> HIDE DEF y2
    <3>3. /\ signals \o c \o d \o a \in Seq(Signal)
          /\ Leads(start, signals \o c \o d \o a, y3, q)
      BY <1>2, <2>4, <3>2, MoreEmitted
    <3> HIDE DEF y3
    <3>4. QED  BY <1>2, <2>4, <3>3, MoreEmitted
  <2> HIDE DEF x4, y4
  <2>8. QED  BY <1>1, <2>5, <2>6, <2>7
<1>6. QED  BY <1>3, <1>4, <1>5

\* What the buttons of the message are for can be checked in the tree.
LEMMA AdviceIsCheckable ==
  /\ \A u \in Unreadable : Advice(u) \in Checkable
  /\ \A l \in LinkPaths : Links[l] \in Checkable
BY AllArePaths, FoldersAssumption DEF Advice

LEMMA UserStep ==
  ASSUME Marks, MarksMatter(included, excluded), signals \in Seq(Signal), User
  PROVE  /\ Marks' /\ signals' \in Seq(Signal)
         /\ MarksMatter(included', excluded')
         /\ \A start, q :
              Leads(start, signals, Standing(included, excluded, q), q)
              => Leads(start, signals', Standing(included', excluded', q), q)
<1>1. ASSUME NEW p \in Checkable, IncludePath(p) \/ ExcludePath(p)
      PROVE  /\ Marks' /\ signals' \in Seq(Signal)
             /\ MarksMatter(included', excluded')
             /\ \A start, q :
                  Leads(start, signals, Standing(included, excluded, q), q)
                  => Leads(start, signals', Standing(included', excluded', q), q)
  <2>1. PICK on \in BOOLEAN : IF on THEN IncludePath(p) ELSE ExcludePath(p)
    BY <1>1
  <2>2. QED  BY <2>1, ClickStep
<1>2. CASE \E p \in Checkable : Toggle(p)
  BY <1>1, <1>2 DEF Toggle
<1>3. CASE \E pair \in SavedSelections : Load(pair[1], pair[2])
  <2>1. PICK pair \in SavedSelections : Load(pair[1], pair[2])
    BY <1>3
  <2> DEFINE inc == pair[1]
             exc == pair[2]
  <2>2. /\ inc \in SUBSET Checkable /\ exc \in SUBSET Checkable
        /\ MarksMatter(inc, exc) /\ Load(inc, exc)
    BY <2>1, SavedMarksMatter
  <2> HIDE DEF inc, exc
  <2>3. inc \cap exc = {} /\ included \cap excluded = {}
    BY <2>2 DEF MarksMatter
  <2>4. /\ included' = inc /\ excluded' = exc /\ signals' \in Seq(Signal)
        /\ \A start, q :
             Leads(start, signals, Standing(included, excluded, q), q)
             => Leads(start, signals', Standing(inc, exc, q), q)
    BY <2>2, <2>3, LoadStep
  <2>5. Marks'
    BY <2>2, <2>4 DEF Marks
  <2>6. QED  BY <2>2, <2>4, <2>5
<1>4. CASE ExecuteExcludeAction
  BY <1>1, <1>4, AdviceIsCheckable DEF ExecuteExcludeAction
<1>5. CASE ExecuteIncludeAction
  BY <1>1, <1>5, AdviceIsCheckable DEF ExecuteIncludeAction
<1>6. QED  BY <1>2, <1>3, <1>4, <1>5 DEF User, UserSelects

-----------------------------------------------------------------------------
(***************************************************************************)
(* The way to a link, and the folder of a file.                            *)
(***************************************************************************)
LEMMA FoldersOnTheWay ==
  ASSUME NEW l \in LinkPaths, NEW y \in Paths, Inside(l, y)
  PROVE  y = l \/ y \in Dirs
<1>1. SUFFICES ASSUME y # l  PROVE y \in Dirs
  OBVIOUS
<1>2. l \in Path /\ y \in Path /\ l \in Paths
  BY AllArePaths
<1>3. y # Root /\ IsPrefix(y, l)
  BY <1>1 DEF Inside
<1>4. Len(l) \in Nat /\ Len(y) \in Nat /\ Len(y) <= Len(l) /\ y = SubSeq(l, 1, Len(y))
  BY <1>2, <1>3, LenProperties DEF IsPrefix, Path
<1>5. Len(y) # Len(l)
  BY <1>1, <1>2, InsideItself, OnOneLine
<1>6. Len(y) # 0
  <2>1. Len(y) \in Nat \ {0}
    BY <1>2, <1>3, EmptySeq DEF Path, Root
  <2>2. QED  BY <2>1
<1>7. Len(y) \in 1 .. Len(l) - 1
  BY <1>4, <1>5, <1>6
<1>8. SubSeq(l, 1, Len(y)) \in Dirs
  BY <1>2, <1>7, FoldersAssumption
<1>9. QED  BY <1>4, <1>8

LEMMA ChildOnTheWay ==
  ASSUME NEW l \in LinkPaths, NEW d \in Dirs, Inside(l, d)
  PROVE  \E c \in Children(d) : Inside(l, c) /\ Inside(c, d) /\ (c = l \/ c \in Dirs)
<1>1. l \in Path /\ d \in Path /\ l \in Paths /\ d \in Paths /\ d # l
  BY AllArePaths, FoldersAssumption
<1>2. d # Root /\ IsPrefix(d, l)
  BY <1>1 DEF Inside
<1> DEFINE m == Len(l)
           n == Len(d)
           c == SubSeq(l, 1, n + 1)
<1>3. m \in Nat /\ n \in Nat /\ n < m
  <2>1. m \in Nat /\ n \in Nat /\ n <= m
    BY <1>1, <1>2, PrefixAt, LenProperties DEF Path
  <2>2. n # m
    BY <1>1, InsideItself, OnOneLine
  <2>3. QED  BY <2>1, <2>2
<1>4. c \in Path /\ Len(c) = n + 1 /\ \A k \in 1 .. n + 1 : c[k] = l[k]
  <2>1. \A k \in 1 .. n + 1 : l[k] \in STRING
    BY <1>1, <1>3, ElementOfSeq DEF Path
  <2>2. /\ c \in Seq(STRING)
        /\ Len(c) = IF 1 <= n + 1 THEN n + 1 - 1 + 1 ELSE 0
        /\ \A k \in 1 .. n + 1 - 1 + 1 : c[k] = l[1 + k - 1]
    BY <1>3, <2>1, SubSeqProperties
  <2> HIDE DEF m, n, c
  <2>3. QED  BY <1>3, <2>2 DEF Path
<1>5. IsPrefix(c, l)
  <2> HIDE DEF c
  <2>1. QED  BY <1>1, <1>3, <1>4, PrefixAt
<1>6. IsPrefix(d, c)
  <2>1. \A k \in 1 .. n : d[k] = l[k]
    BY <1>1, <1>2, PrefixAt
  <2> HIDE DEF c
  <2>2. QED  BY <1>1, <1>3, <1>4, <2>1, PrefixAt
<1>7. c # Root
  <2>1. Len(Root) = 0
    BY EmptySeq DEF Root
  <2> HIDE DEF c
  <2>2. QED  BY <1>3, <1>4, <2>1
<1>8. Inside(l, c) /\ Inside(c, d)
  BY <1>2, <1>5, <1>6, <1>7 DEF Inside
<1>9. c = l \/ c \in Dirs
  <2>1. CASE n + 1 = m
    BY <1>1, <2>1, SubSeqFull DEF Path
  <2>2. CASE n + 1 # m
    <3>1. n + 1 \in 1 .. m - 1
      BY <1>3, <2>2
    <3>2. QED  BY <1>1, <3>1, FoldersAssumption
  <2>3. QED  BY <2>1, <2>2
<1>10. Front(c) = d
  <2>1. d = SubSeq(c, 1, n)
    BY <1>1, <1>6, SubSeqFull DEF IsPrefix, Path
  <2>2. Front(c) = SubSeq(c, 1, n + 1 - 1)
    BY <1>4 DEF Front
  <2> HIDE DEF c, n
  <2>3. n + 1 - 1 = n
    BY <1>3
  <2>4. QED  BY <2>1, <2>2, <2>3
<1>11. c \in Children(d)
  <2> HIDE DEF c
  <2>1. c \in Paths
    BY <1>1, <1>9 DEF Paths
  <2>2. QED  BY <1>7, <1>10, <2>1 DEF Children
<1> HIDE DEF c
<1>12. QED  BY <1>8, <1>9, <1>11

LEMMA HomeOf ==
  ASSUME NEW u \in Unreadable
  PROVE  /\ Home(u) \in Dirs /\ Home(u) \in Path /\ u \in Path
         /\ u \in Dirs \/ Front(u) # Root => Inside(u, Home(u))
<1>1. u \in Path
  BY AllArePaths
<1>2. CASE u \in Dirs
  BY <1>1, <1>2, InsideItself DEF Home
<1>3. CASE u \notin Dirs
  <2>1. u \in Files /\ Home(u) = Front(u)
    BY <1>3 DEF Files, Home
  <2>2. Front(u) \in Dirs /\ Front(u) \in Path
    BY <2>1, AllArePaths, FoldersAssumption
  <2>3. u # Root
    BY FoldersAssumption
  <2>4. Len(u) \in Nat \ {0}
    BY <1>1, <2>3, EmptySeq DEF Path, Root
  <2>5. Front(u) = SubSeq(u, 1, Len(u) - 1)
    BY DEF Front
  <2>6. Len(Front(u)) = Len(u) - 1
        /\ \A k \in 1 .. Len(u) - 1 : Front(u)[k] = u[k]
    <3>1. \A k \in 1 .. Len(u) - 1 : u[k] \in STRING
      BY <1>1, <2>4, ElementOfSeq DEF Path
    <3> DEFINE n == Len(u) - 1
    <3>2. n \in Int /\ n >= 0
      BY <2>4
    <3>3. /\ Len(SubSeq(u, 1, n)) = IF 1 <= n THEN n - 1 + 1 ELSE 0
          /\ \A k \in 1 .. n - 1 + 1 : SubSeq(u, 1, n)[k] = u[1 + k - 1]
      <4> HIDE DEF n
      <4>1. QED  BY <3>1, <3>2, SubSeqProperties DEF n
    <3> HIDE DEF n
    <3>4. Len(SubSeq(u, 1, n)) = n /\ \A k \in 1 .. n : SubSeq(u, 1, n)[k] = u[k]
      BY <3>2, <3>3
    <3>5. QED  BY <2>5, <3>4 DEF n
  <2>7. IsPrefix(Front(u), u)
    <3>1. Len(Front(u)) <= Len(u) /\ \A k \in 1 .. Len(Front(u)) : Front(u)[k] = u[k]
      BY <2>4, <2>6
    <3>2. QED  BY <1>1, <2>2, <3>1, PrefixAt
  <2>8. Front(u) # Root => Inside(u, Front(u))
    BY <2>7 DEF Inside
  <2>9. QED  BY <1>1, <1>3, <2>1, <2>2, <2>8
<1>4. QED  BY <1>2, <1>3

-----------------------------------------------------------------------------
(***************************************************************************)
(* The slots of the scanner, member by member.                             *)
(***************************************************************************)
Bad(s, links) == {l \in links \cap LinkPaths : ~IsPathIncluded(s, Links[l])}

UpdatedFrom(t, s, timer, changed) ==
  /\ t \in Scanner
  /\ t.included = s.included /\ t.excluded = s.excluded /\ t.unreadable = s.unreadable
  /\ t.notOk = s.notOk /\ t.ok = s.ok /\ t.scans = s.scans
  /\ t.timers = IF changed THEN s.timers \cup {timer} ELSE s.timers

LEMMA UpdateIs ==
  ASSUME NEW s \in Scanner, NEW timer \in Timers, NEW changed \in BOOLEAN
  PROVE  UpdatedFrom(Update(s, timer, changed), s, timer, changed)
BY DEF Scanner, Update, UpdatedFrom

LEMMA PathsLookedUp ==
  /\ \A s : \A q \in Path : IsPathIncluded(s, q) \in BOOLEAN
  /\ \A s : \A l \in LinkPaths : IsSymlinkProblematic(s, l) = ~IsPathIncluded(s, Links[l])
BY DEF IsPathIncluded, IsSymlinkProblematic, LongestIsIn

LEMMA SomeInOrder ==
  ASSUME NEW S \in SUBSET Paths
  PROVE  /\ SetToSeq(S \cap Dirs) \in Seq(Dirs)
         /\ \A d \in S \cap Dirs :
              \E i \in 1 .. Len(SetToSeq(S \cap Dirs)) : SetToSeq(S \cap Dirs)[i] = d
<1> DEFINE D == S \cap Dirs
<1>1. IsFiniteSet(D)
  <2>1. D \in SUBSET Paths
    OBVIOUS
  <2>2. QED  BY <2>1, FoldersAssumption, FS_Subset
<1>2. D \subseteq Dirs
  OBVIOUS
<1> HIDE DEF D
<1>3. SetToSeq(D) \in Seq(D) /\ \A d \in D : \E i \in 1 .. Len(SetToSeq(D)) : SetToSeq(D)[i] = d
  BY <1>1, InOrder
<1>4. SetToSeq(D) \in Seq(Dirs)
  BY <1>2, <1>3, SeqMonotonic
<1>5. QED  BY <1>3, <1>4 DEF D

Checked(t, s, S) ==
  /\ t \in Scanner
  /\ t.included = s.included /\ t.excluded = s.excluded
  /\ t.unreadable = s.unreadable \cup (S \cap Files)
  /\ t.notOk = s.notOk \cup Bad(s, S)
  /\ t.ok = s.ok \cup ((S \cap LinkPaths) \ Bad(s, S))
  /\ t.scans = s.scans \o SetToSeq(S \cap Dirs)
  /\ s.timers \subseteq t.timers
  /\ Bad(s, S) # {} => "symlinks" \in t.timers
  /\ S \cap Files # {} => "unreadables" \in t.timers

LEMMA CheckPathsIs ==
  ASSUME NEW s \in Scanner, NEW S \in SUBSET Paths
  PROVE  Checked(CheckPathsForProblems(s, S), s, S)
<1> DEFINE t    == CheckPathsForProblems(s, S)
           bad  == {l \in S \cap LinkPaths : IsSymlinkProblematic(s, l)}
           gone == S \cap Files
           more == SetToSeq(S \cap Dirs)
           base == [s EXCEPT !.notOk = @ \cup bad, !.ok = @ \cup ((S \cap LinkPaths) \ bad),
                             !.scans = @ \o more, !.unreadable = @ \cup gone]
           isBad == bad # {}
           isGone == gone # {}
           once == Update(base, "symlinks", isBad)
<1>1. t = Update(once, "unreadables", isGone)
  BY DEF CheckPathsForProblems
<1>2. bad = Bad(s, S)
  BY DEF Bad, IsSymlinkProblematic
<1>3. /\ bad \in SUBSET LinkPaths /\ gone \in SUBSET Unreadable
      /\ (S \cap LinkPaths) \ bad \in SUBSET LinkPaths
  BY DEF Files
<1>4. s.scans \o more \in Seq(Dirs)
  <2>1. s.scans \in Seq(Dirs) /\ more \in Seq(Dirs)
    BY SomeInOrder DEF Scanner
  <2> HIDE DEF more
  <2>2. QED  BY <2>1, ConcatProperties
<1> DEFINE fine == (S \cap LinkPaths) \ bad
<1>5. /\ base \in Scanner
      /\ base.included = s.included /\ base.excluded = s.excluded
      /\ base.unreadable = s.unreadable \cup gone /\ base.notOk = s.notOk \cup bad
      /\ base.ok = s.ok \cup fine /\ base.scans = s.scans \o more /\ base.timers = s.timers
  <2> HIDE DEF bad, gone, more, fine
  <2>1. fine = (S \cap LinkPaths) \ bad /\ fine \in SUBSET LinkPaths
    BY <1>3 DEF fine
  <2>2. /\ s.notOk \cup bad \in SUBSET LinkPaths /\ s.ok \cup fine \in SUBSET LinkPaths
        /\ s.unreadable \cup gone \in SUBSET Unreadable
    BY <1>3, <2>1 DEF Scanner
  <2>3. base \in Scanner
    BY <1>4, <2>1, <2>2 DEF Scanner
  <2>4. QED  BY <2>1, <2>3 DEF Scanner
<1> HIDE DEF base, bad, gone, more
<1>6. /\ isBad \in BOOLEAN /\ isGone \in BOOLEAN
      /\ "symlinks" \in Timers /\ "unreadables" \in Timers
  BY DEF Timers
<1> HIDE DEF isBad, isGone
<1>7. /\ once \in Scanner
      /\ once.included = base.included /\ once.excluded = base.excluded
      /\ once.unreadable = base.unreadable
      /\ once.notOk = base.notOk /\ once.ok = base.ok /\ once.scans = base.scans
      /\ once.timers = IF isBad THEN base.timers \cup {"symlinks"} ELSE base.timers
  <2>1. UpdatedFrom(Update(base, "symlinks", isBad), base, "symlinks", isBad)
    BY <1>5, <1>6, UpdateIs
  <2>2. UpdatedFrom(once, base, "symlinks", isBad)
    BY <2>1
  <2> HIDE DEF once
  <2>3. QED  BY <2>2 DEF UpdatedFrom
<1> HIDE DEF once, t
<1>8. /\ t \in Scanner
      /\ t.included = once.included /\ t.excluded = once.excluded
      /\ t.unreadable = once.unreadable
      /\ t.notOk = once.notOk /\ t.ok = once.ok /\ t.scans = once.scans
      /\ t.timers = IF isGone THEN once.timers \cup {"unreadables"} ELSE once.timers
  <2>1. UpdatedFrom(Update(once, "unreadables", isGone), once, "unreadables", isGone)
    BY <1>6, <1>7, UpdateIs
  <2>2. QED  BY <1>1, <2>1 DEF UpdatedFrom
<1>9. Checked(t, s, S)
  BY <1>2, <1>5, <1>7, <1>8 DEF Checked, fine, gone, isBad, isGone, more
<1>10. QED  BY <1>9 DEF t

LEMMA ReleaseIs ==
  ASSUME NEW s \in Scanner, NEW t, t = ReleaseLinks(s)
  PROVE  /\ t \in Scanner
         /\ t.included = s.included /\ t.excluded = s.excluded /\ t.unreadable = s.unreadable
         /\ t.notOk = Bad(s, s.notOk)
         /\ t.ok = s.ok \cup (s.notOk \ Bad(s, s.notOk))
         /\ t.scans = s.scans
         /\ s.timers \subseteq t.timers
         /\ t.notOk # s.notOk => "symlinks" \in t.timers
<1> DEFINE fine == {l \in s.notOk : IsPathIncluded(s, Links[l])}
           base == [s EXCEPT !.notOk = @ \ fine, !.ok = @ \cup fine]
           some == fine # {}
<1>1. t = Update(base, "symlinks", some)
  BY DEF ReleaseLinks
<1>2. s.notOk \in SUBSET LinkPaths
  BY DEF Scanner
<1>3. s.notOk \ fine = Bad(s, s.notOk) /\ fine = s.notOk \ Bad(s, s.notOk)
  BY <1>2 DEF Bad
<1>4. fine \in SUBSET LinkPaths
  BY <1>2
<1> HIDE DEF fine
<1>5. /\ base \in Scanner
      /\ base.included = s.included /\ base.excluded = s.excluded
      /\ base.unreadable = s.unreadable /\ base.notOk = s.notOk \ fine
      /\ base.ok = s.ok \cup fine /\ base.scans = s.scans /\ base.timers = s.timers
  <2>1. s.notOk \ fine \in SUBSET LinkPaths /\ s.ok \cup fine \in SUBSET LinkPaths
    BY <1>4 DEF Scanner
  <2>2. base \in Scanner
    BY <2>1 DEF Scanner
  <2>3. QED  BY <2>2 DEF Scanner
<1> HIDE DEF base
<1>6. some \in BOOLEAN /\ "symlinks" \in Timers
  BY DEF Timers
<1> HIDE DEF some
<1>7. /\ t \in Scanner
      /\ t.included = base.included /\ t.excluded = base.excluded
      /\ t.unreadable = base.unreadable
      /\ t.notOk = base.notOk /\ t.ok = base.ok /\ t.scans = base.scans
      /\ t.timers = IF some THEN base.timers \cup {"symlinks"} ELSE base.timers
  <2>1. UpdatedFrom(Update(base, "symlinks", some), base, "symlinks", some)
    BY <1>5, <1>6, UpdateIs
  <2>2. QED  BY <1>1, <2>1 DEF UpdatedFrom
<1>8. QED  BY <1>3, <1>5, <1>7 DEF some

LEMMA ReviewIs ==
  ASSUME NEW s \in Scanner, NEW t, t = ReviewLinks(s)
  PROVE  /\ t \in Scanner
         /\ t.included = s.included /\ t.excluded = s.excluded /\ t.unreadable = s.unreadable
         /\ \A l : l \in t.notOk
              <=> IsPathIncluded(s, l)
                   /\ (l \in s.notOk \/ (l \in s.ok /\ ~IsPathIncluded(s, Links[l])))
         /\ \A l : l \in t.ok <=> l \in s.ok /\ IsPathIncluded(s, l) /\ IsPathIncluded(s, Links[l])
         /\ t.scans = s.scans
         /\ s.timers \subseteq t.timers
         /\ t.notOk # s.notOk => "symlinks" \in t.timers
<1> DEFINE gone == {l \in s.notOk : ~IsPathIncluded(s, l)}
           kept == {l \in s.ok : IsPathIncluded(s, l)}
           lost == {l \in kept : IsSymlinkProblematic(s, l)}
           base == [s EXCEPT !.notOk = (@ \ gone) \cup lost, !.ok = kept \ lost]
           some == gone \cup lost # {}
<1>1. t = Update(base, "symlinks", some)
  BY DEF ReviewLinks
<1>2. /\ \A l : l \in gone <=> l \in s.notOk /\ ~IsPathIncluded(s, l)
      /\ \A l : l \in kept <=> l \in s.ok /\ IsPathIncluded(s, l)
      /\ \A l : l \in lost <=> l \in kept /\ ~IsPathIncluded(s, Links[l])
  BY DEF IsSymlinkProblematic
<1>3. s.notOk \in SUBSET LinkPaths /\ s.ok \in SUBSET LinkPaths
  BY DEF Scanner
<1> HIDE DEF gone, kept, lost
<1>4. (s.notOk \ gone) \cup lost \in SUBSET LinkPaths /\ kept \ lost \in SUBSET LinkPaths
  BY <1>2, <1>3
<1>5. /\ base \in Scanner
      /\ base.included = s.included /\ base.excluded = s.excluded
      /\ base.unreadable = s.unreadable /\ base.notOk = (s.notOk \ gone) \cup lost
      /\ base.ok = kept \ lost /\ base.scans = s.scans /\ base.timers = s.timers
  <2>1. base \in Scanner
    BY <1>4 DEF Scanner
  <2>2. QED  BY <2>1 DEF Scanner
<1> HIDE DEF base
<1>6. some \in BOOLEAN /\ "symlinks" \in Timers
  BY DEF Timers
<1> HIDE DEF some
<1>7. /\ t \in Scanner
      /\ t.included = base.included /\ t.excluded = base.excluded
      /\ t.unreadable = base.unreadable
      /\ t.notOk = base.notOk /\ t.ok = base.ok /\ t.scans = base.scans
      /\ t.timers = IF some THEN base.timers \cup {"symlinks"} ELSE base.timers
  <2>1. UpdatedFrom(Update(base, "symlinks", some), base, "symlinks", some)
    BY <1>5, <1>6, UpdateIs
  <2>2. QED  BY <1>1, <2>1 DEF UpdatedFrom
<1>8. \A l : l \in t.notOk <=> (l \in s.notOk /\ l \notin gone) \/ l \in lost
  BY <1>5, <1>7
<1>9. \A l : l \in t.ok <=> l \in kept /\ l \notin lost
  BY <1>5, <1>7
<1>10. t.notOk # s.notOk => some
  BY <1>5, <1>7 DEF some
<1>11. QED  BY <1>2, <1>5, <1>7, <1>8, <1>9, <1>10

LEMMA SameMarksSameAnswer ==
  ASSUME NEW s, NEW t, t.included = s.included, t.excluded = s.excluded
  PROVE  /\ \A q : IsPathIncluded(t, q) = IsPathIncluded(s, q)
         /\ \A links : Bad(t, links) = Bad(s, links)
<1>1. \A q : IsPathIncluded(t, q) = IsPathIncluded(s, q)
  BY DEF IsPathIncluded
<1>2. QED  BY <1>1 DEF Bad

IncludedFrom(t, s, p) ==
  /\ t \in Scanner
  /\ t.included = (IF p \in s.excluded THEN s.included ELSE s.included \cup {p})
  /\ t.excluded = s.excluded \ {p}
  /\ t.unreadable = s.unreadable
  /\ \A l \in t.notOk : ~IsPathIncluded(t, Links[l])
  /\ \A l \in t.ok : l \in s.ok \/ IsPathIncluded(t, Links[l])
  /\ \A l \in LinkPaths : l \in s.ok \cup s.notOk \cup {p} => l \in t.ok \cup t.notOk
  /\ t.scans = s.scans \o SetToSeq({p} \cap Dirs)
  /\ s.timers \subseteq t.timers
  /\ t.notOk # s.notOk => "symlinks" \in t.timers

LEMMA IncludeIs ==
  ASSUME NEW s \in Scanner, NEW p \in Checkable
  PROVE  IncludedFrom(IncludeInScanner(s, p), s, p)
<1> DEFINE t == IncludeInScanner(s, p)
<1> DEFINE marked == IF p \in s.excluded THEN [s EXCEPT !.excluded = @ \ {p}]
                                          ELSE [s EXCEPT !.included = @ \cup {p}]
           w      == CheckPathsForProblems(marked, {p})
<1>1. t = ReleaseLinks(w)
  BY DEF IncludeInScanner
<1> HIDE DEF t
<1>2. /\ marked \in Scanner
      /\ marked.included = IF p \in s.excluded THEN s.included ELSE s.included \cup {p}
      /\ marked.excluded = s.excluded \ {p}
      /\ marked.unreadable = s.unreadable /\ marked.notOk = s.notOk /\ marked.ok = s.ok
      /\ marked.scans = s.scans /\ marked.timers = s.timers
  <2>1. p \in Paths
    BY AllArePaths
  <2>2. CASE p \in s.excluded
    <3>1. marked = [s EXCEPT !.excluded = @ \ {p}]
      BY <2>2
    <3>2. s.excluded \ {p} \in SUBSET Paths
      BY DEF Scanner
    <3>3. marked \in Scanner
      BY <3>1, <3>2 DEF Scanner
    <3>4. QED  BY <2>2, <3>1, <3>3 DEF Scanner
  <2>3. CASE p \notin s.excluded
    <3>1. marked = [s EXCEPT !.included = @ \cup {p}] /\ s.excluded \ {p} = s.excluded
      BY <2>3
    <3>2. s.included \cup {p} \in SUBSET Paths
      BY <2>1 DEF Scanner
    <3>3. marked \in Scanner
      BY <3>1, <3>2 DEF Scanner
    <3>4. QED  BY <2>3, <3>1, <3>3 DEF Scanner
  <2>4. QED  BY <2>2, <2>3
<1> HIDE DEF marked
<1>3. {p} \in SUBSET Paths /\ {p} \cap Files = {}
  BY AllArePaths, FoldersAssumption DEF Checkable, Files
<1>4. /\ w \in Scanner
      /\ w.included = marked.included /\ w.excluded = marked.excluded
      /\ w.unreadable = marked.unreadable \cup ({p} \cap Files)
      /\ w.notOk = marked.notOk \cup Bad(marked, {p})
      /\ w.ok = marked.ok \cup (({p} \cap LinkPaths) \ Bad(marked, {p}))
      /\ w.scans = marked.scans \o SetToSeq({p} \cap Dirs)
      /\ marked.timers \subseteq w.timers
      /\ Bad(marked, {p}) # {} => "symlinks" \in w.timers
  <2>1. Checked(w, marked, {p})
    BY <1>2, <1>3, CheckPathsIs
  <2> HIDE DEF w
  <2>2. QED  BY <2>1 DEF Checked
<1> HIDE DEF w
<1>5. /\ t \in Scanner
      /\ t.included = w.included /\ t.excluded = w.excluded /\ t.unreadable = w.unreadable
      /\ t.notOk = Bad(w, w.notOk)
      /\ t.ok = w.ok \cup (w.notOk \ Bad(w, w.notOk))
      /\ t.scans = w.scans
      /\ w.timers \subseteq t.timers
      /\ t.notOk # w.notOk => "symlinks" \in t.timers
  BY <1>1, <1>4, ReleaseIs
<1>6. /\ \A q : IsPathIncluded(t, q) = IsPathIncluded(w, q)
      /\ \A q : IsPathIncluded(t, q) = IsPathIncluded(marked, q)
  BY <1>4, <1>5, SameMarksSameAnswer
<1>7. w.notOk \in SUBSET LinkPaths
  BY <1>4 DEF Scanner
<1>8. /\ \A l : l \in Bad(w, w.notOk) <=> l \in w.notOk /\ ~IsPathIncluded(w, Links[l])
      /\ \A l : l \in Bad(marked, {p})
                <=> l = p /\ l \in LinkPaths /\ ~IsPathIncluded(marked, Links[l])
  BY <1>7 DEF Bad
<1>9. \A l \in t.notOk : ~IsPathIncluded(t, Links[l])
  BY <1>5, <1>6, <1>8
<1>10. ASSUME NEW l \in t.ok  PROVE l \in s.ok \/ IsPathIncluded(t, Links[l])
  <2>1. CASE l \in w.ok
    <3>1. l \in s.ok \/ (l = p /\ l \in LinkPaths /\ l \notin Bad(marked, {p}))
      BY <1>2, <1>4, <2>1
    <3>2. QED  BY <1>6, <1>8, <3>1
  <2>2. CASE l \in w.notOk \ Bad(w, w.notOk)
    BY <1>6, <1>8, <2>2
  <2>3. QED  BY <1>5, <2>1, <2>2
<1>11. ASSUME NEW l \in LinkPaths, l \in s.ok \cup s.notOk \cup {p}
       PROVE  l \in t.ok \cup t.notOk
  <2>1. l \in w.ok \cup w.notOk
    BY <1>2, <1>4, <1>11
  <2>2. QED  BY <1>5, <2>1
<1>12. s.timers \subseteq t.timers
  BY <1>2, <1>4, <1>5
<1>13. t.notOk # s.notOk => "symlinks" \in t.timers
  BY <1>2, <1>4, <1>5
<1>14. /\ t.included = (IF p \in s.excluded THEN s.included ELSE s.included \cup {p})
       /\ t.excluded = s.excluded \ {p}
       /\ t.unreadable = s.unreadable
       /\ t.scans = s.scans \o SetToSeq({p} \cap Dirs)
  BY <1>2, <1>3, <1>4, <1>5
<1>15. IncludedFrom(t, s, p)
  BY <1>5, <1>9, <1>10, <1>11, <1>12, <1>13, <1>14 DEF IncludedFrom
<1>16. QED  BY <1>15 DEF t

ExcludedFrom(t, s, p) ==
  /\ t \in Scanner
  /\ t.included = s.included \ {p}
  /\ t.excluded = (IF p \in s.included THEN s.excluded ELSE s.excluded \cup {p})
  /\ t.unreadable = s.unreadable \ {u \in s.unreadable : Inside(u, p)}
  /\ \A l : l \in t.notOk
       <=> IsPathIncluded(t, l)
            /\ (l \in s.notOk \/ (l \in s.ok /\ ~IsPathIncluded(t, Links[l])))
  /\ \A l : l \in t.ok <=> l \in s.ok /\ IsPathIncluded(t, l) /\ IsPathIncluded(t, Links[l])
  /\ t.scans = s.scans
  /\ s.timers \subseteq t.timers
  /\ t.notOk # s.notOk => "symlinks" \in t.timers
  /\ t.unreadable # s.unreadable => "unreadables" \in t.timers

LEMMA ExcludeIs ==
  ASSUME NEW s \in Scanner, NEW p \in Checkable
  PROVE  ExcludedFrom(ExcludeInScanner(s, p), s, p)
<1> DEFINE t == ExcludeInScanner(s, p)
<1> DEFINE marked == IF p \in s.included THEN [s EXCEPT !.included = @ \ {p}]
                                          ELSE [s EXCEPT !.excluded = @ \cup {p}]
           forgotten == {u \in marked.unreadable : Inside(u, p)}
           some == forgotten # {}
           base == [marked EXCEPT !.unreadable = @ \ forgotten]
           w == Update(base, "unreadables", some)
<1>1. t = ReviewLinks(w)
  BY DEF ExcludeInScanner
<1> HIDE DEF t
<1>2. /\ marked \in Scanner
      /\ marked.excluded = IF p \in s.included THEN s.excluded ELSE s.excluded \cup {p}
      /\ marked.included = s.included \ {p}
      /\ marked.unreadable = s.unreadable /\ marked.notOk = s.notOk /\ marked.ok = s.ok
      /\ marked.scans = s.scans /\ marked.timers = s.timers
  <2>1. p \in Paths
    BY AllArePaths
  <2>2. CASE p \in s.included
    <3>1. marked = [s EXCEPT !.included = @ \ {p}]
      BY <2>2
    <3>2. s.included \ {p} \in SUBSET Paths
      BY DEF Scanner
    <3>3. marked \in Scanner
      BY <3>1, <3>2 DEF Scanner
    <3>4. QED  BY <2>2, <3>1, <3>3 DEF Scanner
  <2>3. CASE p \notin s.included
    <3>1. marked = [s EXCEPT !.excluded = @ \cup {p}] /\ s.included \ {p} = s.included
      BY <2>3
    <3>2. s.excluded \cup {p} \in SUBSET Paths
      BY <2>1 DEF Scanner
    <3>3. marked \in Scanner
      BY <3>1, <3>2 DEF Scanner
    <3>4. QED  BY <2>3, <3>1, <3>3 DEF Scanner
  <2>4. QED  BY <2>2, <2>3
<1>3. forgotten = {u \in s.unreadable : Inside(u, p)}
  BY <1>2
<1> HIDE DEF marked, forgotten
<1>4. /\ base \in Scanner
      /\ base.included = marked.included /\ base.excluded = marked.excluded
      /\ base.unreadable = marked.unreadable \ forgotten /\ base.notOk = marked.notOk
      /\ base.ok = marked.ok /\ base.scans = marked.scans /\ base.timers = marked.timers
  <2>1. marked.unreadable \ forgotten \in SUBSET Unreadable
    BY <1>2 DEF Scanner
  <2>2. base \in Scanner
    BY <1>2, <2>1 DEF Scanner
  <2>3. QED  BY <1>2, <2>2 DEF Scanner
<1> HIDE DEF base
<1>5. some \in BOOLEAN /\ "unreadables" \in Timers
  BY DEF Timers
<1> HIDE DEF some
<1>6. UpdatedFrom(w, base, "unreadables", some)
  BY <1>4, <1>5, UpdateIs
<1> HIDE DEF w
<1>7. /\ w \in Scanner
      /\ w.included = base.included /\ w.excluded = base.excluded
      /\ w.unreadable = base.unreadable
      /\ w.notOk = base.notOk /\ w.ok = base.ok /\ w.scans = base.scans
      /\ w.timers = IF some THEN base.timers \cup {"unreadables"} ELSE base.timers
  BY <1>6 DEF UpdatedFrom
<1>8. /\ t \in Scanner
      /\ t.included = w.included /\ t.excluded = w.excluded /\ t.unreadable = w.unreadable
      /\ \A l : l \in t.notOk
           <=> IsPathIncluded(w, l)
                /\ (l \in w.notOk \/ (l \in w.ok /\ ~IsPathIncluded(w, Links[l])))
      /\ \A l : l \in t.ok <=> l \in w.ok /\ IsPathIncluded(w, l) /\ IsPathIncluded(w, Links[l])
      /\ t.scans = w.scans
      /\ w.timers \subseteq t.timers
      /\ t.notOk # w.notOk => "symlinks" \in t.timers
  BY <1>1, <1>7, ReviewIs
<1>9. \A q : IsPathIncluded(t, q) = IsPathIncluded(w, q)
  BY <1>8, SameMarksSameAnswer
<1>10. /\ w.notOk = s.notOk /\ w.ok = s.ok /\ w.scans = s.scans
       /\ w.unreadable = s.unreadable \ {u \in s.unreadable : Inside(u, p)}
       /\ w.included = s.included \ {p}
       /\ w.excluded = (IF p \in s.included THEN s.excluded ELSE s.excluded \cup {p})
       /\ s.timers \subseteq w.timers
  BY <1>2, <1>3, <1>4, <1>7
<1>11. t.unreadable # s.unreadable => "unreadables" \in t.timers
  <2>1. t.unreadable # s.unreadable => some
    BY <1>2, <1>4, <1>7, <1>8 DEF some
  <2>2. QED  BY <1>7, <1>8, <2>1
<1>12. /\ \A l : l \in t.notOk
            <=> IsPathIncluded(t, l)
                 /\ (l \in s.notOk \/ (l \in s.ok /\ ~IsPathIncluded(t, Links[l])))
       /\ \A l : l \in t.ok <=> l \in s.ok /\ IsPathIncluded(t, l) /\ IsPathIncluded(t, Links[l])
  BY <1>8, <1>9, <1>10
<1>13. ExcludedFrom(t, s, p)
  BY <1>8, <1>10, <1>11, <1>12 DEF ExcludedFrom
<1>14. QED  BY <1>13 DEF t

ScannedFrom(t, s, d) ==
  /\ t \in Scanner
  /\ t.included = s.included /\ t.excluded = s.excluded
  /\ s.timers \subseteq t.timers
  /\ t.notOk # s.notOk => "symlinks" \in t.timers
  /\ t.unreadable # s.unreadable => "unreadables" \in t.timers
  /\ \/ t = s /\ ~IsPathIncluded(s, d)
     \/ /\ IsPathIncluded(s, d) /\ d \in Unreadable
        /\ t.unreadable = s.unreadable \cup {d}
        /\ t.notOk = s.notOk /\ t.ok = s.ok /\ t.scans = s.scans
     \/ /\ IsPathIncluded(s, d) /\ d \notin Unreadable
        /\ t.unreadable = s.unreadable \cup (Children(d) \cap Files)
        /\ t.notOk = s.notOk \cup Bad(s, Children(d))
        /\ t.ok = s.ok \cup ((Children(d) \cap LinkPaths) \ Bad(s, Children(d)))
        /\ t.scans = s.scans \o SetToSeq(Children(d) \cap Dirs)

LEMMA ScanIs ==
  ASSUME NEW s \in Scanner, NEW d \in Dirs
  PROVE  ScannedFrom(ScanFolder(s, d), s, d)
<1> DEFINE t == ScanFolder(s, d)
<1>0. d \in Path
  BY AllArePaths
<1>1. CASE ~IsPathIncluded(s, d)
  <2>1. t = s
    BY <1>1 DEF ScanFolder
  <2>2. QED  BY <1>1, <2>1 DEF ScannedFrom
<1>2. CASE IsPathIncluded(s, d) /\ d \in Unreadable
  <2> DEFINE base == [s EXCEPT !.unreadable = @ \cup {d}]
  <2>1. t = Update(base, "unreadables", TRUE)
    BY <1>2 DEF ScanFolder
  <2>2. /\ base \in Scanner
        /\ base.included = s.included /\ base.excluded = s.excluded
        /\ base.unreadable = s.unreadable \cup {d} /\ base.notOk = s.notOk
        /\ base.ok = s.ok /\ base.scans = s.scans /\ base.timers = s.timers
    <3>1. s.unreadable \cup {d} \in SUBSET Unreadable
      BY <1>2 DEF Scanner
    <3>2. base \in Scanner
      BY <3>1 DEF Scanner
    <3>3. QED  BY <3>2 DEF Scanner
  <2> HIDE DEF base, t
  <2>3. TRUE \in BOOLEAN /\ "unreadables" \in Timers
    BY DEF Timers
  <2>4. UpdatedFrom(t, base, "unreadables", TRUE)
    BY <2>1, <2>2, <2>3, UpdateIs
  <2>5. ScannedFrom(t, s, d)
    BY <1>2, <2>2, <2>4 DEF ScannedFrom, UpdatedFrom
  <2>6. QED  BY <2>5 DEF t
<1>3. CASE IsPathIncluded(s, d) /\ d \notin Unreadable
  <2>1. t = CheckPathsForProblems(s, Children(d)) /\ Children(d) \in SUBSET Paths
    BY <1>3 DEF Children, ScanFolder
  <2> HIDE DEF t
  <2>2. /\ t \in Scanner
        /\ t.included = s.included /\ t.excluded = s.excluded
        /\ t.unreadable = s.unreadable \cup (Children(d) \cap Files)
        /\ t.notOk = s.notOk \cup Bad(s, Children(d))
        /\ t.ok = s.ok \cup ((Children(d) \cap LinkPaths) \ Bad(s, Children(d)))
        /\ t.scans = s.scans \o SetToSeq(Children(d) \cap Dirs)
        /\ s.timers \subseteq t.timers
        /\ Bad(s, Children(d)) # {} => "symlinks" \in t.timers
        /\ Children(d) \cap Files # {} => "unreadables" \in t.timers
    <3>1. Checked(t, s, Children(d))
      BY <2>1, CheckPathsIs
    <3>2. QED  BY <3>1 DEF Checked
  <2>3. ScannedFrom(t, s, d)
    BY <1>3, <2>2 DEF ScannedFrom
  <2>4. QED  BY <2>3 DEF t
<1>4. QED  BY <1>1, <1>2, <1>3

-----------------------------------------------------------------------------
(***************************************************************************)
(* The slots keep what the scanner knows true.                             *)
(***************************************************************************)
LEMMA ScannerTypes ==
  ASSUME NEW s \in Scanner
  PROVE  /\ s.included \in SUBSET Path /\ s.excluded \in SUBSET Path
         /\ s.included \in SUBSET Paths /\ s.excluded \in SUBSET Paths
         /\ s.unreadable \in SUBSET Unreadable
         /\ s.notOk \in SUBSET LinkPaths /\ s.ok \in SUBSET LinkPaths
         /\ s.scans \in Seq(Dirs) /\ Len(s.scans) \in Nat
<1>1. s.scans \in Seq(Dirs)
  BY DEF Scanner
<1>2. QED  BY <1>1, AllArePaths, LenProperties DEF Scanner

\* More events wait than before, for every folder of a set.
LEMMA MoreScans ==
  ASSUME NEW s \in Scanner, NEW t, NEW S \in SUBSET Paths,
         t.scans = s.scans \o SetToSeq(S \cap Dirs)
  PROVE  /\ \A m, l : Waits(s, m, l) => Waits(t, m, l)
         /\ \A m, l, d : d \in S \cap Dirs /\ Inside(d, m) /\ Inside(l, d) => Waits(t, m, l)
<1> DEFINE a == s.scans
           b == SetToSeq(S \cap Dirs)
<1>1. a \in Seq(Dirs) /\ Len(a) \in Nat
  BY ScannerTypes
<1>2. /\ b \in Seq(Dirs) /\ Len(b) \in Nat
      /\ \A d \in S \cap Dirs : \E i \in 1 .. Len(b) : b[i] = d
  BY SomeInOrder, LenProperties
<1> HIDE DEF a, b
<1>3. /\ Len(a \o b) = Len(a) + Len(b)
      /\ \A i \in 1 .. Len(a) + Len(b) :
           (a \o b)[i] = IF i <= Len(a) THEN a[i] ELSE b[i - Len(a)]
  BY <1>1, <1>2, ConcatProperties
<1>4. t.scans = a \o b
  BY DEF a, b
<1>5. ASSUME NEW m, NEW l, Waits(s, m, l)  PROVE Waits(t, m, l)
  <2>1. PICK i \in 1 .. Len(a) : Inside(a[i], m) /\ Inside(l, a[i])
    BY <1>5 DEF a, Waits
  <2>2. i \in 1 .. Len(t.scans) /\ t.scans[i] = a[i]
    <3>1. i \in 1 .. Len(a) + Len(b) /\ i <= Len(a)
      BY <1>1, <1>2
    <3>2. (a \o b)[i] = a[i]
      BY <1>3, <3>1
    <3>3. QED  BY <1>3, <1>4, <3>1, <3>2
  <2>3. QED  BY <2>1, <2>2 DEF Waits
<1>6. ASSUME NEW m, NEW l, NEW d \in S \cap Dirs, Inside(d, m), Inside(l, d)  PROVE Waits(t, m, l)
  <2>1. PICK i \in 1 .. Len(b) : b[i] = d
    BY <1>2
  <2>2. Len(a) + i \in 1 .. Len(t.scans) /\ t.scans[Len(a) + i] = d
    <3>1. /\ Len(a) + i \in 1 .. Len(a) + Len(b) /\ ~(Len(a) + i <= Len(a))
          /\ Len(a) + i - Len(a) = i
      BY <1>1, <1>2
    <3>2. (a \o b)[Len(a) + i] = b[Len(a) + i - Len(a)]
      BY <1>3, <3>1
    <3>3. QED  BY <1>3, <1>4, <2>1, <3>1, <3>2
  <2>3. QED  BY <1>6, <2>2 DEF Waits
<1>7. QED  BY <1>5, <1>6

LEMMA IncludeKeeps ==
  ASSUME NEW s \in Scanner, s.included \cap s.excluded = {}, ScannerInv(s),
         NEW p \in Checkable, NEW t, IncludedFrom(t, s, p)
  PROVE  /\ t.included \cap t.excluded = {}
         /\ ScannerInv(t)
         /\ \A q : Standing(t.included, t.excluded, q) =
                    After(Standing(s.included, s.excluded, q),
                          [slot |-> "includePath", path |-> p], q)
<1>1. /\ t \in Scanner
      /\ t.included = (IF p \in s.excluded THEN s.included ELSE s.included \cup {p})
      /\ t.excluded = s.excluded \ {p}
      /\ t.unreadable = s.unreadable
      /\ \A l \in t.notOk : ~IsPathIncluded(t, Links[l])
      /\ \A l \in t.ok : l \in s.ok \/ IsPathIncluded(t, Links[l])
      /\ \A l \in LinkPaths : l \in s.ok \cup s.notOk \cup {p} => l \in t.ok \cup t.notOk
      /\ t.scans = s.scans \o SetToSeq({p} \cap Dirs)
  BY DEF IncludedFrom
<1>2. /\ FoundInSelection(s) /\ LinksFound(s)
      /\ \A l \in s.ok : IsPathIncluded(s, Links[l])
  BY DEF LinksJudged, ScannerInv
<1>3. \A q : IsPathIncluded(s, q) => IsPathIncluded(t, q)
  <2>1. s.included \subseteq t.included /\ t.excluded \subseteq s.excluded
    BY <1>1
  <2>2. QED  BY <2>1 DEF IsPathIncluded, LongestIsIn
<1>4. FoundInSelection(t)
  BY <1>1, <1>2, <1>3 DEF FoundInSelection
<1>5. LinksJudged(t)
  BY <1>1, <1>2, <1>3 DEF LinksJudged
<1>6. ASSUME NEW l \in LinkPaths, NEW m \in t.included, Governs(t, m, l)
      PROVE  l \in t.ok \cup t.notOk \/ Waits(t, m, l)
  <2>1. l \in Path /\ p \in Path /\ p \in Paths /\ m \in Path
    BY <1>1, AllArePaths, ScannerTypes
  <2>2. /\ Inside(l, m) /\ \A x \in t.excluded : Inside(l, x) => Len(x) < Len(m)
        /\ \A u \in Unreadable : ~(Inside(l, u) /\ Inside(u, m))
    BY <1>6 DEF Governs
  <2>3. CASE Governs(s, m, l)
    <3>1. l \in s.ok \cup s.notOk \/ Waits(s, m, l)
      BY <1>2, <2>3 DEF Governs, LinksFound
    <3>2. {p} \in SUBSET Paths
      BY <2>1
    <3>3. Waits(s, m, l) => Waits(t, m, l)
      BY <1>1, <3>2, MoreScans
    <3>4. QED  BY <1>1, <3>1, <3>3
  <2>4. CASE ~Governs(s, m, l)
    <3>1. Inside(l, p) /\ Inside(p, m)
      <4>1. CASE m \notin s.included
        <5>1. m = p
          BY <1>1, <4>1
        <5>2. QED  BY <2>2, <5>1, InsideItself
      <4>2. CASE m \in s.included
        <5>1. PICK x \in s.excluded : Inside(l, x) /\ ~(Len(x) < Len(m))
          BY <2>2, <2>4, <4>2 DEF Governs
        <5>2. x = p
          BY <1>1, <2>2, <5>1
        <5>3. Len(m) <= Len(p)
          <6>1. Len(m) \in Nat /\ Len(p) \in Nat
            BY <2>1, LenProperties DEF Path
          <6>2. QED  BY <5>1, <5>2, <6>1
        <5>4. QED  BY <2>1, <2>2, <5>1, <5>2, <5>3, OnOneLine
      <4>3. QED  BY <4>1, <4>2
    <3>2. p = l \/ p \in Dirs
      BY <2>1, <3>1, FoldersOnTheWay
    <3>3. CASE p = l
      BY <1>1, <3>3
    <3>4. CASE p \in Dirs
      <4> DEFINE S == {p}
      <4>1. S \in SUBSET Paths /\ p \in S \cap Dirs /\ t.scans = s.scans \o SetToSeq(S \cap Dirs)
        BY <1>1, <2>1, <3>4
      <4> HIDE DEF S
      <4>2. Waits(t, m, l)
        BY <3>1, <4>1, MoreScans
      <4>3. QED  BY <4>2
    <3>5. QED  BY <3>2, <3>3, <3>4
  <2>5. QED  BY <2>3, <2>4
<1>7. LinksFound(t)
  BY <1>6 DEF LinksFound
<1>8. t.included \cap t.excluded = {}
  BY <1>1
<1>9. ASSUME NEW q
      PROVE  Standing(t.included, t.excluded, q) =
               After(Standing(s.included, s.excluded, q), [slot |-> "includePath", path |-> p], q)
  <2>1. After(Standing(s.included, s.excluded, q), [slot |-> "includePath", path |-> p], q) =
          IF p # q THEN Standing(s.included, s.excluded, q)
          ELSE IF Standing(s.included, s.excluded, q) = 1 THEN 1
               ELSE Standing(s.included, s.excluded, q) + 1
    BY DEF After
  <2>2. QED  BY <1>1, <2>1 DEF Standing
<1>10. QED  BY <1>4, <1>5, <1>7, <1>8, <1>9 DEF ScannerInv

LEMMA ExcludeKeeps ==
  ASSUME NEW s \in Scanner, s.included \cap s.excluded = {}, ScannerInv(s),
         NEW p \in Checkable, NEW t, ExcludedFrom(t, s, p)
  PROVE  /\ t.included \cap t.excluded = {}
         /\ ScannerInv(t)
         /\ \A q : Standing(t.included, t.excluded, q) =
                    After(Standing(s.included, s.excluded, q),
                          [slot |-> "excludePath", path |-> p], q)
<1>1. /\ t \in Scanner
      /\ t.included = s.included \ {p}
      /\ t.excluded = (IF p \in s.included THEN s.excluded ELSE s.excluded \cup {p})
      /\ t.unreadable = s.unreadable \ {u \in s.unreadable : Inside(u, p)}
      /\ \A l : l \in t.notOk
           <=> IsPathIncluded(t, l)
                /\ (l \in s.notOk \/ (l \in s.ok /\ ~IsPathIncluded(t, Links[l])))
      /\ \A l : l \in t.ok <=> l \in s.ok /\ IsPathIncluded(t, l) /\ IsPathIncluded(t, Links[l])
      /\ t.scans = s.scans
  BY DEF ExcludedFrom
<1>2. /\ FoundInSelection(s) /\ LinksFound(s)
      /\ \A l \in s.notOk : ~IsPathIncluded(s, Links[l])
  BY DEF LinksJudged, ScannerInv
<1>3. t.included \subseteq s.included /\ s.excluded \subseteq t.excluded
  BY <1>1
<1>4. \A q : IsPathIncluded(t, q) => IsPathIncluded(s, q)
  BY <1>3 DEF IsPathIncluded, LongestIsIn
<1>5. ASSUME NEW u \in t.unreadable, u \in Dirs \/ Front(u) # Root
      PROVE  IsPathIncluded(t, Home(u))
  <2>1. u \in s.unreadable /\ ~Inside(u, p) /\ u \in Unreadable
    BY <1>1, ScannerTypes
  <2>2. /\ Home(u) \in Path /\ u \in Path /\ Inside(u, Home(u))
        /\ p \in Path
    BY <1>5, <2>1, AllArePaths, HomeOf
  <2>3. ~Inside(Home(u), p)
    BY <2>1, <2>2, InsideTwice
  <2>4. PICK m \in s.included :
          Inside(Home(u), m) /\ \A x \in s.excluded : Inside(Home(u), x) => Len(x) < Len(m)
    BY <1>2, <1>5, <2>1 DEF FoundInSelection, IsPathIncluded, LongestIsIn
  <2>5. m \in t.included /\ \A x \in t.excluded : Inside(Home(u), x) => Len(x) < Len(m)
    BY <1>1, <2>3, <2>4
  <2>6. QED  BY <2>4, <2>5 DEF IsPathIncluded, LongestIsIn
<1>6. FoundInSelection(t)
  BY <1>5 DEF FoundInSelection
<1>7. LinksJudged(t)
  BY <1>1, <1>2, <1>4 DEF LinksJudged
<1>8. ASSUME NEW l \in LinkPaths, NEW m \in t.included, Governs(t, m, l)
      PROVE  l \in t.ok \cup t.notOk \/ Waits(t, m, l)
  <2>1. /\ m \in s.included /\ Governs(s, m, l) /\ Inside(l, m)
        /\ \A x \in t.excluded : Inside(l, x) => Len(x) < Len(m)
    BY <1>3, <1>8 DEF Governs
  <2>2. IsPathIncluded(t, l)
    BY <2>1 DEF IsPathIncluded, LongestIsIn
  <2>3. l \in s.ok \cup s.notOk \/ Waits(s, m, l)
    BY <1>2, <2>1 DEF LinksFound
  <2>4. l \in s.ok \cup s.notOk => l \in t.ok \cup t.notOk
    BY <1>1, <2>2
  <2>5. Waits(s, m, l) => Waits(t, m, l)
    BY <1>1 DEF Waits
  <2>6. QED  BY <2>3, <2>4, <2>5
<1>9. LinksFound(t)
  BY <1>8 DEF LinksFound
<1>10. t.included \cap t.excluded = {}
  BY <1>1
<1>11. ASSUME NEW q
       PROVE  Standing(t.included, t.excluded, q) =
                After(Standing(s.included, s.excluded, q), [slot |-> "excludePath", path |-> p], q)
  <2>1. After(Standing(s.included, s.excluded, q), [slot |-> "excludePath", path |-> p], q) =
          IF p # q THEN Standing(s.included, s.excluded, q)
          ELSE IF Standing(s.included, s.excluded, q) = -1 THEN -1
               ELSE Standing(s.included, s.excluded, q) - 1
    BY DEF After
  <2>2. QED  BY <1>1, <2>1 DEF Standing
<1>12. QED  BY <1>6, <1>7, <1>9, <1>10, <1>11 DEF ScannerInv

LEMMA ScanKeeps ==
  ASSUME NEW r \in Scanner, r.scans # <<>>, ScannerInv(r),
         NEW d, d = Head(r.scans), NEW s, s = [r EXCEPT !.scans = Tail(@)],
         NEW t, ScannedFrom(t, s, d)
  PROVE  ScannerInv(t)
<1>1. /\ r.scans \in Seq(Dirs) /\ Len(r.scans) \in Nat /\ Len(r.scans) >= 1
      /\ d \in Dirs /\ d = r.scans[1] /\ Tail(r.scans) \in Seq(Dirs)
      /\ Len(Tail(r.scans)) = Len(r.scans) - 1
      /\ \A i \in 1 .. Len(r.scans) - 1 : Tail(r.scans)[i] = r.scans[i + 1]
  <2>1. r.scans \in Seq(Dirs) /\ Len(r.scans) \in Nat
    BY ScannerTypes
  <2>2. Len(r.scans) >= 1
    BY <2>1, EmptySeq
  <2>3. QED  BY <2>1, <2>2, HeadTailProperties
<1>2. /\ s \in Scanner
      /\ s.included = r.included /\ s.excluded = r.excluded /\ s.unreadable = r.unreadable
      /\ s.notOk = r.notOk /\ s.ok = r.ok /\ s.scans = Tail(r.scans)
  <2>1. s \in Scanner
    BY <1>1 DEF Scanner
  <2>2. QED  BY <2>1 DEF Scanner
<1>3. d \in Path /\ d \in Dirs /\ Children(d) \in SUBSET Paths
  BY <1>1, AllArePaths DEF Children
<1>4. /\ t \in Scanner
      /\ t.included = s.included /\ t.excluded = s.excluded
      /\ \/ t = s /\ ~IsPathIncluded(s, d)
         \/ /\ IsPathIncluded(s, d) /\ d \in Unreadable
            /\ t.unreadable = s.unreadable \cup {d}
            /\ t.notOk = s.notOk /\ t.ok = s.ok /\ t.scans = s.scans
         \/ /\ IsPathIncluded(s, d) /\ d \notin Unreadable
            /\ t.unreadable = s.unreadable \cup (Children(d) \cap Files)
            /\ t.notOk = s.notOk \cup Bad(s, Children(d))
            /\ t.ok = s.ok \cup ((Children(d) \cap LinkPaths) \ Bad(s, Children(d)))
            /\ t.scans = s.scans \o SetToSeq(Children(d) \cap Dirs)
  BY DEF ScannedFrom
<1>5. /\ \A q : IsPathIncluded(t, q) = IsPathIncluded(r, q)
      /\ \A q : IsPathIncluded(s, q) = IsPathIncluded(r, q)
  <2>1. t.included = r.included /\ t.excluded = r.excluded
    BY <1>2, <1>4
  <2>2. QED  BY <1>2, <2>1, SameMarksSameAnswer
<1>6. /\ FoundInSelection(r) /\ LinksJudged(r) /\ LinksFound(r)
  BY DEF ScannerInv
<1>7. FoundInSelection(t)
  <2>1. ASSUME NEW u \in t.unreadable, u \in Dirs \/ Front(u) # Root
        PROVE  IsPathIncluded(r, Home(u))
    <3>1. CASE u \in r.unreadable
      BY <1>6, <2>1, <3>1 DEF FoundInSelection
    <3>2. CASE u = d /\ IsPathIncluded(s, d)
      BY <1>3, <1>5, <3>2 DEF Home
    <3>3. CASE u \in Children(d) \cap Files /\ IsPathIncluded(s, d)
      <4>1. Home(u) = d
        BY <3>3, AllArePaths DEF Children, Home
      <4>2. QED  BY <1>5, <3>3, <4>1
    <3>4. QED  BY <1>2, <1>4, <2>1, <3>1, <3>2, <3>3
  <2>2. QED  BY <1>5, <2>1 DEF FoundInSelection
<1>8. LinksJudged(t)
  <2>1. \A l : l \in Bad(s, Children(d))
                <=> l \in Children(d) \cap LinkPaths /\ ~IsPathIncluded(s, Links[l])
    BY DEF Bad
  <2>2. /\ \A l \in r.notOk : ~IsPathIncluded(r, Links[l])
        /\ \A l \in r.ok : IsPathIncluded(r, Links[l])
    BY <1>6 DEF LinksJudged
  <2>3. \A l \in t.notOk : ~IsPathIncluded(r, Links[l])
    BY <1>2, <1>4, <1>5, <2>1, <2>2
  <2>4. \A l \in t.ok : IsPathIncluded(r, Links[l])
    BY <1>2, <1>4, <1>5, <2>1, <2>2
  <2>5. QED  BY <1>5, <2>3, <2>4 DEF LinksJudged
<1>9. ASSUME NEW l \in LinkPaths, NEW m \in t.included, Governs(t, m, l)
      PROVE  l \in t.ok \cup t.notOk \/ Waits(t, m, l)
  <2>1. /\ m \in r.included /\ Governs(r, m, l) /\ Inside(l, m)
        /\ \A x \in r.excluded : Inside(l, x) => Len(x) < Len(m)
        /\ \A u \in Unreadable : ~(Inside(l, u) /\ Inside(u, m))
    BY <1>2, <1>4, <1>9 DEF Governs
  <2>2. l \in Path /\ m \in Path /\ r.excluded \in SUBSET Path
    BY <2>1, AllArePaths, ScannerTypes
  <2>3. CASE l \in r.ok \cup r.notOk
    BY <1>2, <1>4, <2>3
  <2>4. CASE Waits(s, m, l)
    <3>1. CASE t.scans = s.scans
      BY <2>4, <3>1 DEF Waits
    <3>2. CASE t.scans = s.scans \o SetToSeq(Children(d) \cap Dirs)
      BY <1>2, <1>3, <2>4, <3>2, MoreScans
    <3>3. QED  BY <1>4, <3>1, <3>2
  <2>5. CASE Inside(d, m) /\ Inside(l, d)
    <3>1. IsPathIncluded(s, d)
      <4>1. ASSUME NEW x \in r.excluded, Inside(d, x)  PROVE Len(x) < Len(m)
        BY <1>3, <2>1, <2>2, <2>5, <4>1, InsideTwice
      <4>2. IsPathIncluded(r, d)
        BY <2>1, <2>5, <4>1 DEF IsPathIncluded, LongestIsIn
      <4>3. QED  BY <1>5, <4>2
    <3>2. d \notin Unreadable
      BY <2>1, <2>5
    <3>3. /\ t.notOk = s.notOk \cup Bad(s, Children(d))
          /\ t.ok = s.ok \cup ((Children(d) \cap LinkPaths) \ Bad(s, Children(d)))
          /\ t.scans = s.scans \o SetToSeq(Children(d) \cap Dirs)
      BY <1>4, <3>1, <3>2
    <3>4. PICK c \in Children(d) : Inside(l, c) /\ Inside(c, d) /\ (c = l \/ c \in Dirs)
      BY <1>3, <2>5, ChildOnTheWay
    <3>5. CASE c = l
      BY <3>3, <3>4, <3>5
    <3>6. CASE c \in Dirs
      <4>1. c \in Path
        BY <3>6, AllArePaths
      <4>2. Inside(c, m)
        BY <1>3, <2>2, <2>5, <3>4, <4>1, InsideTwice
      <4>3. c \in Children(d) \cap Dirs
        BY <3>4, <3>6
      <4>4. QED  BY <1>2, <1>3, <3>3, <3>4, <4>2, <4>3, MoreScans
    <3>7. QED  BY <3>4, <3>5, <3>6
  <2>6. Waits(r, m, l) => Waits(s, m, l) \/ (Inside(d, m) /\ Inside(l, d))
    <3>1. SUFFICES ASSUME NEW i \in 1 .. Len(r.scans),
                          Inside(r.scans[i], m), Inside(l, r.scans[i])
                   PROVE  Waits(s, m, l) \/ (Inside(d, m) /\ Inside(l, d))
      BY DEF Waits
    <3>2. CASE i = 1
      BY <1>1, <3>1, <3>2
    <3>3. CASE i # 1
      <4>1. i - 1 \in 1 .. Len(r.scans) - 1 /\ i - 1 + 1 = i
        BY <1>1, <3>3
      <4>2. i - 1 \in 1 .. Len(s.scans) /\ s.scans[i - 1] = r.scans[i]
        BY <1>1, <1>2, <4>1
      <4>3. QED  BY <3>1, <4>2 DEF Waits
    <3>4. QED  BY <3>2, <3>3
  <2>7. l \in r.ok \cup r.notOk \/ Waits(r, m, l)
    BY <1>6, <2>1 DEF LinksFound
  <2>8. QED  BY <2>3, <2>4, <2>5, <2>6, <2>7
<1>10. LinksFound(t)
  BY <1>9 DEF LinksFound
<1>11. QED  BY <1>7, <1>8, <1>10 DEF ScannerInv

-----------------------------------------------------------------------------
(***************************************************************************)
(* Reports and the message.                                                *)
(***************************************************************************)
LEMMA ReportSent ==
  ASSUME NEW T, reports \in Seq(T), NEW new \in T, reports' = Append(reports, new),
         listed' = listed, NEW list, NEW known,
         \/ new.list = list /\ new.found = known
         \/ new.list # list /\ LastReported(list, known)
  PROVE  LastReported(list, known)'
<1> DEFINE n == Len(reports)
<1>1. /\ n \in Nat /\ Len(reports') = n + 1 /\ reports'[n + 1] = new
      /\ \A i \in 1 .. n : reports'[i] = reports[i]
  BY AppendProperties, LenProperties
<1> HIDE DEF n
<1>2. CASE new.list = list /\ new.found = known
  <2>1. n + 1 \in 1 .. Len(reports') /\ \A j \in n + 1 + 1 .. Len(reports') : FALSE
    BY <1>1
  <2>2. QED  BY <1>1, <1>2, <2>1 DEF LastReported
<1>3. CASE new.list # list /\ LastReported(list, known)
  <2>1. CASE /\ \A i \in 1 .. Len(reports) : reports[i].list # list
             /\ known = listed[list]
    <3>1. ASSUME NEW i \in 1 .. Len(reports')  PROVE reports'[i].list # list
      <4>1. i \in 1 .. n \/ i = n + 1
        BY <1>1
      <4>2. QED  BY <1>1, <1>3, <2>1, <4>1 DEF n
    <3>2. QED  BY <2>1, <3>1 DEF LastReported
  <2>2. CASE \E i \in 1 .. Len(reports) :
               /\ reports[i].list = list /\ reports[i].found = known
               /\ \A j \in i + 1 .. Len(reports) : reports[j].list # list
    <3>1. PICK i \in 1 .. n :
            /\ reports[i].list = list /\ reports[i].found = known
            /\ \A j \in i + 1 .. n : reports[j].list # list
      BY <2>2 DEF n
    <3>2. i \in 1 .. Len(reports') /\ reports'[i].list = list /\ reports'[i].found = known
      BY <1>1, <3>1
    <3>3. ASSUME NEW j \in i + 1 .. Len(reports')  PROVE reports'[j].list # list
      <4>1. (j \in i + 1 .. n /\ j \in 1 .. n) \/ j = n + 1
        BY <1>1
      <4>2. QED  BY <1>1, <1>3, <3>1, <4>1
    <3>4. QED  BY <3>2, <3>3 DEF LastReported
  <2>3. QED  BY <1>3, <2>1, <2>2 DEF LastReported
<1>4. QED  BY <1>2, <1>3

LEMMA ReportReceived ==
  ASSUME NEW T, reports \in Seq(T), reports # <<>>, reports' = Tail(reports),
         NEW Lists, DOMAIN listed = Lists, NEW list \in Lists,
         listed' = [listed EXCEPT ![Head(reports).list] = Head(reports).found],
         NEW known, LastReported(list, known)
  PROVE  LastReported(list, known)'
<1> DEFINE n == Len(reports)
<1>1. /\ n \in Nat /\ n >= 1 /\ Len(reports') = n - 1 /\ Head(reports) = reports[1]
      /\ \A i \in 1 .. n - 1 : reports'[i] = reports[i + 1]
  BY EmptySeq, HeadTailProperties, LenProperties
<1>2. listed'[list] = IF reports[1].list = list THEN reports[1].found ELSE listed[list]
  BY <1>1
<1> HIDE DEF n
<1>3. CASE /\ \A i \in 1 .. Len(reports) : reports[i].list # list
           /\ known = listed[list]
  <2>1. reports[1].list # list
    BY <1>1, <1>3 DEF n
  <2>2. ASSUME NEW i \in 1 .. Len(reports')  PROVE reports'[i].list # list
    <3>1. i \in 1 .. n - 1 /\ i + 1 \in 1 .. n
      BY <1>1
    <3>2. QED  BY <1>1, <1>3, <3>1 DEF n
  <2>3. QED  BY <1>2, <1>3, <2>1, <2>2 DEF LastReported
<1>4. CASE \E i \in 1 .. Len(reports) :
             /\ reports[i].list = list /\ reports[i].found = known
             /\ \A j \in i + 1 .. Len(reports) : reports[j].list # list
  <2>1. PICK i \in 1 .. n :
          /\ reports[i].list = list /\ reports[i].found = known
          /\ \A j \in i + 1 .. n : reports[j].list # list
    BY <1>4 DEF n
  <2>2. CASE i = 1
    <3>1. listed'[list] = known
      BY <1>2, <2>1, <2>2
    <3>2. ASSUME NEW k \in 1 .. Len(reports')  PROVE reports'[k].list # list
      <4>1. k \in 1 .. n - 1 /\ k + 1 \in i + 1 .. n
        BY <1>1, <2>2
      <4>2. QED  BY <1>1, <2>1, <4>1
    <3>3. QED  BY <3>1, <3>2 DEF LastReported
  <2>3. CASE i # 1
    <3>1. i - 1 \in 1 .. n - 1 /\ i - 1 + 1 = i
      BY <1>1, <2>3
    <3>2. i - 1 \in 1 .. Len(reports') /\ reports'[i - 1] = reports[i]
      BY <1>1, <3>1
    <3>3. ASSUME NEW j \in i - 1 + 1 .. Len(reports')  PROVE reports'[j].list # list
      <4>1. j \in 1 .. n - 1 /\ j + 1 \in i + 1 .. n
        BY <1>1, <2>3
      <4>2. QED  BY <1>1, <2>1, <4>1
    <3>4. reports'[i - 1].list = list /\ reports'[i - 1].found = known
      BY <2>1, <3>2
    <3> DEFINE k == i - 1
    <3> HIDE DEF k
    <3>5. /\ k \in 1 .. Len(reports') /\ reports'[k].list = list /\ reports'[k].found = known
          /\ \A j \in k + 1 .. Len(reports') : reports'[j].list # list
      BY <3>2, <3>3, <3>4 DEF k
    <3>6. QED  BY <3>5 DEF LastReported
  <2>4. QED  BY <2>2, <2>3
<1>5. QED  BY <1>3, <1>4 DEF LastReported

Lists == [unreadables : SUBSET Unreadable, symlinks : SUBSET LinkPaths]

LEMMA FirstProblemsAre ==
  ASSUME NEW lists \in Lists
  PROVE  /\ FirstProblems(lists) \subseteq lists.unreadables \cup lists.symlinks
         /\ FirstProblems(lists) \subseteq Unreadable \cup LinkPaths
         /\ FirstProblems(lists) = {} <=> lists.unreadables = {} /\ lists.symlinks = {}
<1>1. lists.unreadables \in SUBSET Unreadable /\ lists.symlinks \in SUBSET LinkPaths
  BY DEF Lists
<1>2. CASE lists.unreadables \cap Dirs # {}
  <2>1. FirstProblems(lists) = lists.unreadables \cap Dirs
    BY <1>2 DEF FirstProblems
  <2>2. QED  BY <1>1, <1>2, <2>1
<1>3. CASE lists.unreadables \cap Dirs = {} /\ lists.unreadables # {}
  <2>1. FirstProblems(lists) = lists.unreadables
    BY <1>3 DEF FirstProblems
  <2>2. QED  BY <1>1, <1>3, <2>1
<1>4. CASE lists.unreadables = {}
  <2>1. FirstProblems(lists) = lists.symlinks
    BY <1>4 DEF FirstProblems
  <2>2. QED  BY <1>1, <1>4, <2>1
<1>5. QED  BY <1>2, <1>3, <1>4

LEMMA MessageUpdated ==
  ASSUME NEW lists \in Lists, NEW msg \in Message, NEW m \in UpdateMessage(msg, lists)
  PROVE  m \in Message /\ MessageFits(m, lists)
<1>1. PICK visible \in IsVisible(msg) :
        m \in (IF visible THEN {[msg EXCEPT !.shown = "hiding"]} ELSE Show(msg, lists))
  BY DEF UpdateMessage
<1>2. CASE visible
  <2>1. m = [msg EXCEPT !.shown = "hiding"]
    BY <1>1, <1>2
  <2>2. m \in Message /\ m.shown = "hiding"
    BY <2>1 DEF Message
  <2>3. QED  BY <2>2 DEF MessageFits
<1>3. CASE ~visible
  <2>1. m \in Show(msg, lists)
    BY <1>1, <1>3
  <2>2. CASE FirstProblems(lists) = {}
    <3>1. m = [msg EXCEPT !.problem = Root]
      BY <2>1, <2>2 DEF Show
    <3>2. m \in Message /\ m.problem = Root
      BY <3>1 DEF Message
    <3>3. QED  BY <2>2, <3>2 DEF MessageFits
  <2>3. CASE FirstProblems(lists) # {}
    <3>1. PICK p \in FirstProblems(lists) : m = [shown |-> "visible", problem |-> p]
      BY <2>1, <2>3 DEF Show
    <3>2. p \in Unreadable \cup LinkPaths
      BY FirstProblemsAre
    <3>3. m \in Message /\ m.shown = "visible" /\ m.problem = p
      BY <3>1, <3>2 DEF Message
    <3>4. QED  BY <2>3, <3>3 DEF MessageFits
  <2>4. QED  BY <2>2, <2>3
<1>4. QED  BY <1>2, <1>3

-----------------------------------------------------------------------------
(***************************************************************************)
(* Every step keeps what holds in every state.                             *)
(***************************************************************************)
LEMMA InitFits ==
  ASSUME Init
  PROVE  IInv
<1>1. /\ included = {} /\ excluded = {} /\ signals = <<>> /\ scanner = NewScanner
      /\ reports = <<>> /\ listed = [unreadables |-> {}, symlinks |-> {}]
      /\ message = [shown |-> "hidden", problem |-> Root]
  BY DEF Init, SelectionInit, ScannerInit
<1>2. /\ scanner.included = {} /\ scanner.excluded = {} /\ scanner.unreadable = {}
      /\ scanner.notOk = {} /\ scanner.ok = {} /\ scanner.timers = {}
      /\ scanner.scans = <<>>
  BY <1>1 DEF NewScanner
<1>3. TypeOK
  <2>1. scanner \in Scanner
    BY <1>1 DEF NewScanner, Scanner
  <2>2. reports \in Seq(Report) /\ signals \in Seq(Signal) /\ Len(reports) = 0
    BY <1>1, EmptySeq
  <2>3. Len(reports) <= MaxReports
    BY <2>2, PageAssumption
  <2>4. message \in Message
    BY <1>1 DEF Message
  <2>5. QED  BY <1>1, <2>1, <2>2, <2>3, <2>4 DEF TypeOK
<1>4. SignalsLead
  BY <1>1, <1>2, NoSignals, StandingType DEF SignalsLead
<1>5. MarksMatter(included, excluded)
  BY <1>1 DEF MarksMatter
<1>6. ScannerInv(scanner)
  BY <1>2 DEF ScannerInv, FoundInSelection, LinksJudged, LinksFound, Governs
<1>7. ReportsLead
  <2>1. \A i \in 1 .. Len(reports) : FALSE
    BY <1>1, EmptySeq
  <2>2. listed["unreadables"] = {} /\ listed["symlinks"] = {}
    BY <1>1
  <2>3. QED  BY <1>2, <2>1, <2>2 DEF ReportsLead, LastReported
<1>8. MessageFits(message, listed)
  <2>1. listed \in Lists /\ listed.unreadables = {} /\ listed.symlinks = {}
    BY <1>1 DEF Lists
  <2>2. FirstProblems(listed) = {}
    BY <2>1, FirstProblemsAre
  <2>3. QED  BY <1>1, <2>2 DEF MessageFits
<1>9. QED  BY <1>2, <1>3, <1>4, <1>5, <1>6, <1>7, <1>8 DEF IInv

LEMMA UserKeeps ==
  ASSUME IInv, User
  PROVE  IInv'
<1>1. /\ TypeOK /\ scanner.included \cap scanner.excluded = {} /\ SignalsLead
      /\ MarksMatter(included, excluded) /\ ScannerInv(scanner) /\ ReportsLead
      /\ MessageFits(message, listed)
  BY DEF IInv
<1>2. Marks /\ signals \in Seq(Signal)
  BY <1>1 DEF Marks, TypeOK
<1>3. /\ Marks' /\ signals' \in Seq(Signal)
      /\ MarksMatter(included', excluded')
      /\ \A start, q :
           Leads(start, signals, Standing(included, excluded, q), q)
           => Leads(start, signals', Standing(included', excluded', q), q)
  BY <1>1, <1>2, UserStep
<1>4. /\ scanner' = scanner /\ reports' = reports /\ listed' = listed /\ message' = message
  BY DEF User
<1>5. TypeOK'
  BY <1>1, <1>3, <1>4 DEF TypeOK, Marks
<1>6. SignalsLead'
  BY <1>1, <1>3, <1>4 DEF SignalsLead
<1>7. ReportsLead'
  BY <1>1, <1>4 DEF ReportsLead, LastReported
<1>8. (scanner.included \cap scanner.excluded = {})' /\ ScannerInv(scanner)'
      /\ MessageFits(message, listed)'
  BY <1>1, <1>4
<1>9. QED  BY <1>3, <1>5, <1>6, <1>7, <1>8 DEF IInv

\* The scanner starts a timer whenever it changes a list.
LEMMA ChangesAreReported ==
  ASSUME ReportsLead, reports' = reports, listed' = listed,
         scanner.timers \subseteq scanner'.timers,
         scanner'.notOk # scanner.notOk => "symlinks" \in scanner'.timers,
         scanner'.unreadable # scanner.unreadable => "unreadables" \in scanner'.timers
  PROVE  ReportsLead'
<1>1. \A list, known : LastReported(list, known) => LastReported(list, known)'
  BY DEF LastReported
<1>2. ASSUME "unreadables" \notin scanner'.timers
      PROVE  LastReported("unreadables", scanner.unreadable)'
  <2>1. LastReported("unreadables", scanner.unreadable)
    BY <1>2 DEF ReportsLead
  <2>2. scanner'.unreadable = scanner.unreadable
    BY <1>2
  <2>3. QED  BY <2>1, <2>2 DEF LastReported
<1>3. ASSUME "symlinks" \notin scanner'.timers
      PROVE  LastReported("symlinks", scanner.notOk)'
  <2>1. LastReported("symlinks", scanner.notOk)
    BY <1>3 DEF ReportsLead
  <2>2. scanner'.notOk = scanner.notOk
    BY <1>3
  <2>3. QED  BY <2>1, <2>2 DEF LastReported
<1>4. QED  BY <1>2, <1>3 DEF ReportsLead

LEMMA ScannerReceivesKeeps ==
  ASSUME IInv, ScannerReceives
  PROVE  IInv'
<1>1. /\ TypeOK /\ scanner.included \cap scanner.excluded = {} /\ SignalsLead
      /\ MarksMatter(included, excluded) /\ ScannerInv(scanner) /\ ReportsLead
      /\ MessageFits(message, listed)
  BY DEF IInv
<1>2. /\ signals # <<>> /\ signals' = Tail(signals)
      /\ Receive(Head(signals).slot, Head(signals).path)
      /\ included' = included /\ excluded' = excluded
      /\ reports' = reports /\ listed' = listed /\ message' = message
  BY DEF ScannerReceives
<1> DEFINE slot == Head(signals).slot
           p    == Head(signals).path
<1>3. signals \in Seq(Signal) /\ scanner \in Scanner
  BY <1>1 DEF TypeOK
<1>4. Head(signals) \in Signal /\ signals' \in Seq(Signal)
  BY <1>2, <1>3, HeadTailProperties
<1>5. slot \in Slots /\ p \in Checkable
  BY <1>4 DEF Signal
<1>6. \A standing, q : After(standing, Head(signals), q)
                        = After(standing, [slot |-> slot, path |-> p], q)
  BY DEF After
<1>7. scanner' = IF slot = "includePath" THEN IncludeInScanner(scanner, p)
                                         ELSE ExcludeInScanner(scanner, p)
  BY <1>2 DEF Receive
<1> HIDE DEF slot, p
<1>8. /\ scanner' \in Scanner /\ scanner.timers \subseteq scanner'.timers
      /\ scanner'.notOk # scanner.notOk => "symlinks" \in scanner'.timers
      /\ scanner'.unreadable # scanner.unreadable => "unreadables" \in scanner'.timers
      /\ scanner'.included \cap scanner'.excluded = {} /\ ScannerInv(scanner')
      /\ \A q : Standing(scanner'.included, scanner'.excluded, q) =
                  After(Standing(scanner.included, scanner.excluded, q),
                        [slot |-> slot, path |-> p], q)
  <2>1. CASE slot = "includePath"
    <3>1. IncludedFrom(scanner', scanner, p)
      <4>1. scanner' = IncludeInScanner(scanner, p)
        BY <1>7, <2>1
      <4>2. IncludedFrom(IncludeInScanner(scanner, p), scanner, p)
        BY <1>3, <1>5, IncludeIs
      <4>3. QED  BY <4>1, <4>2
    <3>2. /\ scanner'.included \cap scanner'.excluded = {} /\ ScannerInv(scanner')
          /\ \A q : Standing(scanner'.included, scanner'.excluded, q) =
                      After(Standing(scanner.included, scanner.excluded, q),
                            [slot |-> "includePath", path |-> p], q)
      BY <1>1, <1>3, <1>5, <3>1, IncludeKeeps
    <3>3. /\ scanner' \in Scanner /\ scanner.timers \subseteq scanner'.timers
          /\ scanner'.notOk # scanner.notOk => "symlinks" \in scanner'.timers
          /\ scanner'.unreadable = scanner.unreadable
      BY <3>1 DEF IncludedFrom
    <3>4. QED  BY <2>1, <3>2, <3>3
  <2>2. CASE slot = "excludePath"
    <3>1. ExcludedFrom(scanner', scanner, p)
      <4>1. scanner' = ExcludeInScanner(scanner, p)
        BY <1>7, <2>2
      <4>2. ExcludedFrom(ExcludeInScanner(scanner, p), scanner, p)
        BY <1>3, <1>5, ExcludeIs
      <4>3. QED  BY <4>1, <4>2
    <3>2. /\ scanner'.included \cap scanner'.excluded = {} /\ ScannerInv(scanner')
          /\ \A q : Standing(scanner'.included, scanner'.excluded, q) =
                      After(Standing(scanner.included, scanner.excluded, q),
                            [slot |-> "excludePath", path |-> p], q)
      BY <1>1, <1>3, <1>5, <3>1, ExcludeKeeps
    <3>3. /\ scanner' \in Scanner /\ scanner.timers \subseteq scanner'.timers
          /\ scanner'.notOk # scanner.notOk => "symlinks" \in scanner'.timers
          /\ scanner'.unreadable # scanner.unreadable => "unreadables" \in scanner'.timers
      BY <3>1 DEF ExcludedFrom
    <3>4. QED  BY <2>2, <3>2, <3>3
  <2>3. QED  BY <1>5, <2>1, <2>2 DEF Slots
<1>9. SignalsLead'
  <2>1. SUFFICES ASSUME NEW q \in Paths
                 PROVE  Leads(Standing(scanner'.included, scanner'.excluded, q), signals',
                              Standing(included', excluded', q), q)
    BY DEF SignalsLead
  <2> DEFINE start == Standing(scanner.included, scanner.excluded, q)
             end   == Standing(included, excluded, q)
  <2>2. Leads(start, signals, end, q)
    BY <1>1 DEF SignalsLead
  <2>3. start \in -1 .. 1
    BY StandingType
  <2>4. Standing(scanner'.included, scanner'.excluded, q) = After(start, Head(signals), q)
    BY <1>6, <1>8
  <2>5. Standing(included', excluded', q) = end
    BY <1>2
  <2> HIDE DEF start, end
  <2>6. Leads(After(start, Head(signals), q), Tail(signals), end, q)
    BY <1>2, <1>3, <2>2, <2>3, OneMore
  <2>7. QED  BY <1>2, <2>4, <2>5, <2>6
<1>10. ReportsLead'
  BY <1>1, <1>2, <1>8, ChangesAreReported
<1>11. TypeOK'
  BY <1>1, <1>2, <1>4, <1>8 DEF TypeOK
<1>12. MarksMatter(included, excluded)' /\ MessageFits(message, listed)'
  BY <1>1, <1>2
<1>13. QED  BY <1>8, <1>9, <1>10, <1>11, <1>12 DEF IInv

LEMMA ScannerScansKeeps ==
  ASSUME IInv, ScannerScans
  PROVE  IInv'
<1>1. /\ TypeOK /\ scanner.included \cap scanner.excluded = {} /\ SignalsLead
      /\ MarksMatter(included, excluded) /\ ScannerInv(scanner) /\ ReportsLead
      /\ MessageFits(message, listed)
  BY DEF IInv
<1> DEFINE s == [scanner EXCEPT !.scans = Tail(@)]
           d == Head(scanner.scans)
<1>2. /\ scanner.scans # <<>> /\ scanner' = ScanFolder(s, d)
      /\ included' = included /\ excluded' = excluded /\ signals' = signals
      /\ reports' = reports /\ listed' = listed /\ message' = message
  BY DEF ScannerScans, HandleScanEvent
<1>3. scanner \in Scanner /\ scanner.scans \in Seq(Dirs)
  BY <1>1 DEF TypeOK, Scanner
<1>4. d \in Dirs /\ Tail(scanner.scans) \in Seq(Dirs)
  BY <1>2, <1>3, HeadTailProperties
<1>5. s \in Scanner
  BY <1>3, <1>4 DEF Scanner
<1>6. /\ s.included = scanner.included /\ s.excluded = scanner.excluded
      /\ s.unreadable = scanner.unreadable /\ s.notOk = scanner.notOk
      /\ s.timers = scanner.timers
  BY <1>3 DEF Scanner
<1>7. ScannedFrom(scanner', s, d)
  <2> HIDE DEF s, d
  <2>1. ScannedFrom(ScanFolder(s, d), s, d)
    BY <1>4, <1>5, ScanIs
  <2>2. QED  BY <1>2, <2>1
<1>8. ScannerInv(scanner')
  BY <1>1, <1>2, <1>3, <1>7, ScanKeeps
<1> HIDE DEF s, d
<1>9. /\ scanner' \in Scanner
      /\ scanner'.included = scanner.included /\ scanner'.excluded = scanner.excluded
      /\ scanner.timers \subseteq scanner'.timers
      /\ scanner'.notOk # scanner.notOk => "symlinks" \in scanner'.timers
      /\ scanner'.unreadable # scanner.unreadable => "unreadables" \in scanner'.timers
  BY <1>6, <1>7 DEF ScannedFrom
<1>10. SignalsLead'
  BY <1>1, <1>2, <1>9 DEF SignalsLead
<1>11. ReportsLead'
  BY <1>1, <1>2, <1>9, ChangesAreReported
<1>12. TypeOK'
  BY <1>1, <1>2, <1>9 DEF TypeOK
<1>13. /\ MarksMatter(included, excluded)' /\ MessageFits(message, listed)'
       /\ (scanner.included \cap scanner.excluded = {})'
  BY <1>1, <1>2, <1>9
<1>14. QED  BY <1>8, <1>10, <1>11, <1>12, <1>13 DEF IInv

LEMMA ScannerSendsKeeps ==
  ASSUME IInv, ScannerSends
  PROVE  IInv'
<1>1. /\ TypeOK /\ scanner.included \cap scanner.excluded = {} /\ SignalsLead
      /\ MarksMatter(included, excluded) /\ ScannerInv(scanner) /\ ReportsLead
      /\ MessageFits(message, listed)
  BY DEF IInv
<1>2. /\ Len(reports) < MaxReports
      /\ included' = included /\ excluded' = excluded /\ signals' = signals
      /\ listed' = listed /\ message' = message
  BY DEF ScannerSends
<1>3. PICK timer \in Timers :
        /\ scanner' = [scanner EXCEPT !.timers = @ \ {timer}]
        /\ reports' = Append(reports,
             [ list  |-> timer,
               found |-> IF timer = "symlinks" THEN scanner.notOk ELSE scanner.unreadable ])
  BY DEF ScannerSends, SendPending
<1> DEFINE new == [ list  |-> timer,
                    found |-> IF timer = "symlinks" THEN scanner.notOk
                                                    ELSE scanner.unreadable ]
<1>4. scanner \in Scanner /\ reports \in Seq(Report)
  BY <1>1 DEF TypeOK
<1>5. /\ scanner' \in Scanner
      /\ scanner'.included = scanner.included /\ scanner'.excluded = scanner.excluded
      /\ scanner'.unreadable = scanner.unreadable /\ scanner'.notOk = scanner.notOk
      /\ scanner'.ok = scanner.ok /\ scanner'.scans = scanner.scans
      /\ scanner'.timers = scanner.timers \ {timer}
  BY <1>3, <1>4 DEF Scanner
<1>6. /\ timer \in {"unreadables", "symlinks"}
      /\ scanner.unreadable \in SUBSET Unreadable /\ scanner.notOk \in SUBSET LinkPaths
  BY <1>4 DEF Scanner, Timers
<1>7. new \in Report
  <2>1. CASE timer = "symlinks"
    BY <1>6, <2>1 DEF Report
  <2>2. CASE timer = "unreadables"
    BY <1>6, <2>2 DEF Report
  <2>3. QED  BY <1>6, <2>1, <2>2
<1>8. /\ new.list = timer
      /\ timer = "symlinks" => new.found = scanner.notOk
      /\ timer = "unreadables" => new.found = scanner.unreadable
  BY <1>6
<1>9. reports' = Append(reports, new)
  BY <1>3
<1> HIDE DEF new
<1>10. TypeOK'
  <2>1. reports' \in Seq(Report) /\ Len(reports') = Len(reports) + 1 /\ Len(reports) \in Nat
    BY <1>4, <1>7, <1>9, AppendProperties, LenProperties
  <2>2. Len(reports') <= MaxReports
    BY <1>2, <2>1, PageAssumption
  <2>3. QED  BY <1>1, <1>2, <1>5, <2>1, <2>2 DEF TypeOK
<1>11. ReportsLead'
  <2>1. ASSUME "unreadables" \notin scanner'.timers
        PROVE  LastReported("unreadables", scanner.unreadable)'
    <3> DEFINE known == scanner.unreadable
    <3>1. \/ new.list = "unreadables" /\ new.found = known
          \/ new.list # "unreadables" /\ LastReported("unreadables", known)
      <4>1. CASE timer = "unreadables"
        BY <1>8, <4>1
      <4>2. CASE timer # "unreadables"
        <5>1. LastReported("unreadables", scanner.unreadable)
          BY <1>1, <1>5, <2>1, <4>2 DEF ReportsLead
        <5>2. QED  BY <1>8, <4>2, <5>1
      <4>3. QED  BY <4>1, <4>2
    <3>2. known' = known
      BY <1>5
    <3> HIDE DEF known
    <3>3. \A k : k = known => LastReported("unreadables", k)'
      BY <1>2, <1>4, <1>7, <1>9, <3>1, ReportSent
    <3>4. QED  BY <3>2, <3>3 DEF known, LastReported
  <2>2. ASSUME "symlinks" \notin scanner'.timers
        PROVE  LastReported("symlinks", scanner.notOk)'
    <3> DEFINE known == scanner.notOk
    <3>1. \/ new.list = "symlinks" /\ new.found = known
          \/ new.list # "symlinks" /\ LastReported("symlinks", known)
      <4>1. CASE timer = "symlinks"
        BY <1>8, <4>1
      <4>2. CASE timer # "symlinks"
        <5>1. LastReported("symlinks", scanner.notOk)
          BY <1>1, <1>5, <2>2, <4>2 DEF ReportsLead
        <5>2. QED  BY <1>8, <4>2, <5>1
      <4>3. QED  BY <4>1, <4>2
    <3>2. known' = known
      BY <1>5
    <3> HIDE DEF known
    <3>3. \A k : k = known => LastReported("symlinks", k)'
      BY <1>2, <1>4, <1>7, <1>9, <3>1, ReportSent
    <3>4. QED  BY <3>2, <3>3 DEF known, LastReported
  <2>3. QED  BY <2>1, <2>2 DEF ReportsLead
<1>12. SignalsLead'
  BY <1>1, <1>2, <1>5 DEF SignalsLead
<1>13. ScannerInv(scanner')
  <2>1. /\ \A q : IsPathIncluded(scanner', q) = IsPathIncluded(scanner, q)
    BY <1>5, SameMarksSameAnswer
  <2>2. FoundInSelection(scanner') /\ LinksJudged(scanner')
    BY <1>1, <1>5, <2>1 DEF ScannerInv, FoundInSelection, LinksJudged
  <2>3. LinksFound(scanner')
    BY <1>1, <1>5 DEF ScannerInv, LinksFound, Governs, Waits
  <2>4. QED  BY <2>2, <2>3 DEF ScannerInv
<1>14. /\ MarksMatter(included, excluded)' /\ MessageFits(message, listed)'
       /\ (scanner.included \cap scanner.excluded = {})'
  BY <1>1, <1>2, <1>5
<1>15. QED  BY <1>10, <1>11, <1>12, <1>13, <1>14 DEF IInv

LEMMA ReceiveReportKeeps ==
  ASSUME IInv, ReceiveReport
  PROVE  IInv'
<1>1. /\ TypeOK /\ scanner.included \cap scanner.excluded = {} /\ SignalsLead
      /\ MarksMatter(included, excluded) /\ ScannerInv(scanner) /\ ReportsLead
  BY DEF IInv
<1>2. /\ reports # <<>> /\ reports' = Tail(reports)
      /\ listed' = [listed EXCEPT ![Head(reports).list] = Head(reports).found]
      /\ message' \in UpdateMessage(message, listed')
      /\ included' = included /\ excluded' = excluded /\ signals' = signals
      /\ scanner' = scanner
  BY DEF ReceiveReport
<1>3. /\ reports \in Seq(Report) /\ Len(reports) <= MaxReports
      /\ listed \in Lists /\ message \in Message
  BY <1>1 DEF TypeOK, Lists
<1>4. /\ Head(reports) \in Report /\ reports' \in Seq(Report)
      /\ Len(reports') <= MaxReports
  <2>1. /\ Head(reports) \in Report /\ reports' \in Seq(Report)
        /\ Len(reports') = Len(reports) - 1 /\ Len(reports) \in Nat
    BY <1>2, <1>3, HeadTailProperties, LenProperties
  <2>2. QED  BY <1>3, <2>1, PageAssumption
<1>5. listed' \in Lists
  <2> DEFINE r == Head(reports)
  <2>1. \/ r.list = "unreadables" /\ r.found \in SUBSET Unreadable
        \/ r.list = "symlinks" /\ r.found \in SUBSET LinkPaths
    BY <1>4 DEF Report
  <2>2. listed' = [listed EXCEPT ![r.list] = r.found]
    BY <1>2
  <2> HIDE DEF r
  <2>3. CASE r.list = "unreadables"
    BY <1>3, <2>1, <2>2, <2>3 DEF Lists
  <2>4. CASE r.list = "symlinks"
    BY <1>3, <2>1, <2>2, <2>4 DEF Lists
  <2>5. QED  BY <2>1, <2>3, <2>4
<1>6. message' \in Message /\ MessageFits(message', listed')
  <2>1. \A m \in UpdateMessage(message, listed') : m \in Message /\ MessageFits(m, listed')
    BY <1>3, <1>5, MessageUpdated
  <2>2. QED  BY <1>2, <2>1
<1>7. ReportsLead'
  <2>1. DOMAIN listed = {"unreadables", "symlinks"}
    BY <1>3 DEF Lists
  <2>2. \A known : \A list \in {"unreadables", "symlinks"} :
          LastReported(list, known) => LastReported(list, known)'
    BY <1>2, <1>3, <2>1, ReportReceived
  <2>3. ASSUME "unreadables" \notin scanner'.timers
        PROVE  LastReported("unreadables", scanner.unreadable)'
    <3>1. LastReported("unreadables", scanner.unreadable)
      BY <1>1, <1>2, <2>3 DEF ReportsLead
    <3>2. \A k : k = scanner.unreadable => LastReported("unreadables", k)'
      BY <2>2, <3>1
    <3>3. QED  BY <1>2, <3>2 DEF LastReported
  <2>4. ASSUME "symlinks" \notin scanner'.timers
        PROVE  LastReported("symlinks", scanner.notOk)'
    <3>1. LastReported("symlinks", scanner.notOk)
      BY <1>1, <1>2, <2>4 DEF ReportsLead
    <3>2. \A k : k = scanner.notOk => LastReported("symlinks", k)'
      BY <2>2, <3>1
    <3>3. QED  BY <1>2, <3>2 DEF LastReported
  <2>5. QED  BY <2>3, <2>4 DEF ReportsLead
<1>8. TypeOK'
  BY <1>1, <1>2, <1>4, <1>5, <1>6 DEF TypeOK, Lists
<1>9. SignalsLead'
  BY <1>1, <1>2 DEF SignalsLead
<1>10. /\ MarksMatter(included, excluded)' /\ ScannerInv(scanner)'
       /\ (scanner.included \cap scanner.excluded = {})'
  BY <1>1, <1>2
<1>11. QED  BY <1>6, <1>7, <1>8, <1>9, <1>10 DEF IInv

LEMMA HideAnimationFinishedKeeps ==
  ASSUME IInv, HideAnimationFinished
  PROVE  IInv'
<1>1. /\ TypeOK /\ scanner.included \cap scanner.excluded = {} /\ SignalsLead
      /\ MarksMatter(included, excluded) /\ ScannerInv(scanner) /\ ReportsLead
  BY DEF IInv
<1>2. /\ message' \in UpdateMessage([message EXCEPT !.shown = "hidden"], listed)
      /\ included' = included /\ excluded' = excluded /\ signals' = signals
      /\ scanner' = scanner /\ reports' = reports /\ listed' = listed
  BY DEF HideAnimationFinished
<1> DEFINE hidden == [message EXCEPT !.shown = "hidden"]
<1>3. hidden \in Message /\ listed \in Lists
  BY <1>1 DEF TypeOK, Lists, Message
<1> HIDE DEF hidden
<1>4. message' \in Message /\ MessageFits(message', listed)
  <2>1. \A m \in UpdateMessage(hidden, listed) : m \in Message /\ MessageFits(m, listed)
    BY <1>3, MessageUpdated
  <2>2. QED  BY <1>2, <2>1 DEF hidden
<1>5. TypeOK'
  BY <1>1, <1>2, <1>4 DEF TypeOK
<1>6. SignalsLead' /\ ReportsLead'
  BY <1>1, <1>2 DEF SignalsLead, ReportsLead, LastReported
<1>7. /\ MarksMatter(included, excluded)' /\ ScannerInv(scanner)'
      /\ (scanner.included \cap scanner.excluded = {})' /\ MessageFits(message, listed)'
  BY <1>1, <1>2, <1>4
<1>8. QED  BY <1>5, <1>6, <1>7 DEF IInv

LEMMA StepKeeps ==
  ASSUME IInv, [Next]_vars
  PROVE  IInv'
<1>1. CASE User
  BY <1>1, UserKeeps
<1>2. CASE ScannerReceives
  BY <1>2, ScannerReceivesKeeps
<1>3. CASE ScannerScans
  BY <1>3, ScannerScansKeeps
<1>4. CASE ScannerSends
  BY <1>4, ScannerSendsKeeps
<1>5. CASE ReceiveReport
  BY <1>5, ReceiveReportKeeps
<1>6. CASE HideAnimationFinished
  BY <1>6, HideAnimationFinishedKeeps
<1>7. CASE UNCHANGED vars
  BY <1>7 DEF vars, IInv, TypeOK, SignalsLead, ReportsLead, LastReported
<1>8. QED  BY <1>1, <1>2, <1>3, <1>4, <1>5, <1>6, <1>7 DEF Next, Worker, Page

\* What is in the queues makes up for what the scanner and the message do not know yet.
THEOREM PageInvariant == Spec => []IInv
<1>1. Init => IInv
  BY InitFits
<1>2. IInv /\ [Next]_vars => IInv'
  BY StepKeeps
<1>3. QED  BY <1>1, <1>2, PTL DEF Spec

-----------------------------------------------------------------------------
(***************************************************************************)
(* What the source page guarantees.                                        *)
(***************************************************************************)

\* The marks, the signals, the scanner and its lists, and the message stay what they
\* are declared to be: no signal is about a path without a check box, and no more
\* lists are on their way than the bound allows.
THEOREM TypeCorrect == Spec => []TypeOK
<1>1. IInv => TypeOK
  BY DEF IInv
<1>2. QED  BY <1>1, PageInvariant, PTL

LEMMA SameMarks ==
  ASSUME IInv, signals = <<>>
  PROVE  scanner.included = included /\ scanner.excluded = excluded
<1>1. /\ TypeOK /\ scanner.included \cap scanner.excluded = {} /\ SignalsLead
      /\ included \cap excluded = {}
  BY DEF IInv, MarksMatter
<1>2. /\ included \in SUBSET Paths /\ excluded \in SUBSET Paths
      /\ scanner.included \in SUBSET Paths /\ scanner.excluded \in SUBSET Paths
  BY <1>1, AllArePaths, ScannerTypes DEF TypeOK
<1>3. ASSUME NEW q \in Paths
      PROVE  Standing(scanner.included, scanner.excluded, q) = Standing(included, excluded, q)
  <2>1. Leads(Standing(scanner.included, scanner.excluded, q), <<>>,
              Standing(included, excluded, q), q)
    BY <1>1 DEF SignalsLead
  <2>2. QED  BY <2>1, NoSignals, StandingType
<1>4. \A q \in Paths : /\ q \in scanner.included <=> q \in included
                       /\ q \in scanner.excluded <=> q \in excluded
  BY <1>1, <1>3 DEF Standing
<1>5. QED  BY <1>2, <1>4

\* The sets of the scanner and those of the tree answer alike.
LEMMA SameAnswer ==
  ASSUME IInv, signals = <<>>, NEW q \in Paths
  PROVE  IsPathIncluded(scanner, q) <=> IsIncluded(q)
<1>1. /\ included \in SUBSET Path /\ excluded \in SUBSET Path /\ included \cap excluded = {}
      /\ q \in Path
  BY AllArePaths DEF IInv, TypeOK, MarksMatter
<1>2. IsPathIncluded(scanner, q) <=> LongestIsIn(q, included, excluded)
  BY SameMarks DEF IsPathIncluded
<1>3. StateIn(included, excluded, q) \in {"Included", "IncludeInherited"}
        <=> LongestIsIn(q, included, excluded)
  BY <1>1, IncludedByLongest
<1>4. QED  BY <1>2, <1>3 DEF IsIncluded, InclusionState

\* The scanner works out from the signals of FolderSelectionModel alone, each of which
\* it takes for an addition or a removal by what its own sets hold, the very marks of
\* the tree: whatever the user clicked while signals were on their way, and in whatever
\* order the members of a set were signalled.
THEOREM ScannerFollows == Spec => []ScannerInStep
<1>1. IInv => ScannerInStep
  BY SameMarks DEF ScannerInStep
<1>2. QED  BY <1>1, PageInvariant, PTL

\* When FileScanner is up to date, what it holds for unreadable is in the selection: a
\* scan that began in an earlier selection leaves nothing behind.
THEOREM NothingLeftOver == Spec => []FindsOnlyInSelection
<1>1. ASSUME IInv, signals = <<>>, NEW u \in scanner.unreadable, u \in Dirs \/ Front(u) # Root
      PROVE  InSelection(u)
  <2>1. u \in Unreadable
    BY <1>1, ScannerTypes DEF IInv, TypeOK
  <2>2. Home(u) \in Paths
    BY <2>1, HomeOf, AllArePaths
  <2>3. IsPathIncluded(scanner, Home(u))
    BY <1>1 DEF IInv, ScannerInv, FoundInSelection
  <2>4. IsIncluded(Home(u))
    BY <1>1, <2>2, <2>3, SameAnswer
  <2>5. QED  BY <2>4 DEF InSelection, Home
<1>2. IInv => FindsOnlyInSelection
  BY <1>1 DEF FindsOnlyInSelection, UpToDate
<1>3. QED  BY <1>2, PageInvariant, PTL

\* A link in the selection has a mark that governs it.
LEMMA GoverningMark ==
  ASSUME IInv, signals = <<>>, NEW l \in LinkPaths, IsIncluded(l),
         l \in included \/ \A u \in Unreadable : ~Inside(l, u)
  PROVE  \E m \in scanner.included : Governs(scanner, m, l)
<1>1. /\ l \in Paths /\ l \in Path /\ l \notin Unreadable
      /\ included \in SUBSET Path /\ excluded \in SUBSET Path /\ included \cap excluded = {}
  BY AllArePaths, FoldersAssumption DEF IInv, TypeOK, MarksMatter
<1>2. scanner.included = included /\ scanner.excluded = excluded
  BY SameMarks
<1>3. IsPathIncluded(scanner, l)
  BY <1>1, SameAnswer
<1>4. PICK m \in scanner.included :
        Inside(l, m) /\ \A x \in scanner.excluded : Inside(l, x) => Len(x) < Len(m)
  BY <1>3 DEF IsPathIncluded, LongestIsIn
<1>5. CASE \A u \in Unreadable : ~Inside(l, u)
  BY <1>4, <1>5 DEF Governs
<1>6. CASE l \in included
  <2>1. ASSUME NEW x \in scanner.excluded, Inside(l, x)  PROVE Len(x) < Len(l)
    <3>1. Len(x) < Len(m) /\ Len(m) <= Len(l) /\ Len(m) \in Nat /\ Len(l) \in Nat
      BY <1>1, <1>2, <1>4, <2>1, InsideLength
    <3>2. Len(x) \in Nat
      BY <1>1, <1>2, LenProperties DEF Path
    <3>3. QED  BY <3>1, <3>2
  <2>2. ASSUME NEW u \in Unreadable, Inside(l, u), Inside(u, l)  PROVE FALSE
    <3>1. u \in Path
      BY AllArePaths
    <3>2. u = l
      BY <1>1, <2>2, <3>1, InsideBoth
    <3>3. QED  BY <1>1, <3>2
  <2>3. Governs(scanner, l, l)
    BY <1>2, <1>6, <2>1, <2>2, InsideItself DEF Governs
  <2>4. QED  BY <1>2, <1>6, <2>3
<1>7. QED  BY <1>5, <1>6

\* When FileScanner is up to date, its mSymlinksNotOk are just those links of the
\* selection that lead out of it, as far as the folders on the way can be read: none is
\* missed that a later click turned into a problem, and none stays that a later click
\* has solved.
THEOREM LinksAreFound == Spec => []FindsLinksThatLeadOut
<1>1. ASSUME IInv, signals = <<>>, scanner.scans = <<>>, NEW l \in LinkPaths
      PROVE  /\ l \in scanner.notOk => ~IsIncluded(Links[l])
             /\ /\ IsIncluded(l) /\ ~IsIncluded(Links[l])
                /\ l \in included \/ \A u \in Unreadable : ~Inside(l, u)
                => l \in scanner.notOk
  <2>1. Links[l] \in Paths
    BY AdviceIsCheckable, AllArePaths
  <2>2. IsPathIncluded(scanner, Links[l]) <=> IsIncluded(Links[l])
    BY <1>1, <2>1, SameAnswer
  <2>3. LinksJudged(scanner) /\ LinksFound(scanner)
    BY <1>1 DEF IInv, ScannerInv
  <2>4. l \in scanner.notOk => ~IsIncluded(Links[l])
    BY <2>2, <2>3 DEF LinksJudged
  <2>5. ASSUME IsIncluded(l), ~IsIncluded(Links[l]),
               l \in included \/ \A u \in Unreadable : ~Inside(l, u)
        PROVE  l \in scanner.notOk
    <3>1. PICK m \in scanner.included : Governs(scanner, m, l)
      BY <1>1, <2>5, GoverningMark
    <3>2. ~Waits(scanner, m, l)
      <4>1. Len(scanner.scans) = 0
        BY <1>1, EmptySeq
      <4>2. QED  BY <4>1 DEF Waits
    <3>3. l \in scanner.ok \cup scanner.notOk
      BY <2>3, <3>1, <3>2 DEF LinksFound
    <3>4. l \notin scanner.ok
      BY <2>2, <2>3, <2>5 DEF LinksJudged
    <3>5. QED  BY <3>3, <3>4
  <2>6. QED  BY <2>4, <2>5
<1>2. IInv => FindsLinksThatLeadOut
  BY <1>1 DEF FindsLinksThatLeadOut, UpToDate
<1>3. QED  BY <1>2, PageInvariant, PTL

\* FolderSelectionWidget ends up with a message about a problem that there is, if there
\* is one, and with none otherwise, whatever came while the last one was being hidden.
THEOREM MessageCatchesUp == Spec => []MessageIsCurrent
<1>1. ASSUME IInv, scanner.timers = {}, reports = <<>>, message.shown # "hiding"
      PROVE  IF scanner.unreadable \cup scanner.notOk = {} THEN message.problem = Root
             ELSE /\ message.shown = "visible"
                  /\ message.problem \in scanner.unreadable \cup scanner.notOk
  <2>1. \A i \in 1 .. Len(reports) : FALSE
    BY <1>1, EmptySeq
  <2>2. listed.unreadables = scanner.unreadable /\ listed.symlinks = scanner.notOk
    <3>1. /\ LastReported("unreadables", scanner.unreadable)
          /\ LastReported("symlinks", scanner.notOk)
      BY <1>1 DEF IInv, ReportsLead
    <3>2. listed["unreadables"] = scanner.unreadable /\ listed["symlinks"] = scanner.notOk
      BY <2>1, <3>1 DEF LastReported
    <3>3. QED  BY <3>2
  <2>3. listed \in Lists
    BY <1>1 DEF IInv, TypeOK, Lists
  <2>4. IF FirstProblems(listed) = {} THEN message.problem = Root
        ELSE message.shown = "visible" /\ message.problem \in FirstProblems(listed)
    BY <1>1 DEF IInv, MessageFits
  <2>5. /\ FirstProblems(listed) \subseteq listed.unreadables \cup listed.symlinks
        /\ FirstProblems(listed) = {} <=> listed.unreadables = {} /\ listed.symlinks = {}
    BY <2>3, FirstProblemsAre
  <2>6. QED  BY <2>2, <2>4, <2>5
<1>2. IInv => MessageIsCurrent
  BY <1>1 DEF MessageIsCurrent
<1>3. QED  BY <1>2, PageInvariant, PTL

\* A click on a check box is about the whole subtree: IncludePath() and ExcludePath() of
\* FolderSelectionModel, which touch only the marks below and may add none at all, make
\* every path below what the box says and leave the state of all others alone.
THEOREM ClickMeansSubtree == Spec => CheckBoxMeansSubtree
<1>1. ASSUME IInv, NEW p \in Checkable \ {Root}, Toggle(p)
      PROVE  Selected' = IF p \in Selected THEN Selected \ Below(p)
                                           ELSE Selected \cup Below(p)
  <2> DEFINE on == ~IsIncluded(p)
  <2>1. /\ Marks /\ MarksMatter(included, excluded) /\ signals \in Seq(Signal)
    BY <1>1 DEF IInv, TypeOK, Marks
  <2>2. on \in BOOLEAN
    OBVIOUS
  <2>3. IF on THEN IncludePath(p) ELSE ExcludePath(p)
    BY <1>1 DEF Toggle
  <2>4. p \in Selected <=> ~on
    BY DEF Selected
  <2> HIDE DEF on
  <2>5. /\ Marks' /\ MarksMatter(included', excluded')
        /\ \A q \in Path :
             LongestIsIn(q, included', excluded')
               <=> (Inside(q, p) /\ on) \/ (~Inside(q, p) /\ LongestIsIn(q, included, excluded))
    BY <2>1, <2>2, <2>3, ClickStep
  <2>6. /\ included \in SUBSET Path /\ excluded \in SUBSET Path
        /\ included' \in SUBSET Path /\ excluded' \in SUBSET Path
        /\ included \cap excluded = {} /\ included' \cap excluded' = {}
    BY <2>1, <2>5, AllArePaths DEF Marks, MarksMatter
  <2>7. ASSUME NEW q \in Checkable
        PROVE  /\ q \in Path
               /\ q \in Below(p) <=> Inside(q, p)
               /\ q \in Selected <=> LongestIsIn(q, included, excluded)
               /\ q \in Selected' <=> LongestIsIn(q, included', excluded')
    <3>1. q \in Path /\ p \in Path
      BY AllArePaths
    <3>2. q \in Below(p) <=> Inside(q, p)
      <4>1. Len(p) \in Nat
        BY <3>1, LenProperties DEF Path
      <4>2. IsPrefix(p, p)
        BY <3>1, <4>1, PrefixAt
      <4>3. QED  BY <4>2 DEF Below, Inside
    <3>3. q \in Selected <=> LongestIsIn(q, included, excluded)
      BY <2>6, <3>1, IncludedByLongest DEF Selected, IsIncluded, InclusionState
    <3>4. q \in Selected' <=> LongestIsIn(q, included', excluded')
      <4>1. StateIn(included', excluded', q) \in {"Included", "IncludeInherited"}
              <=> LongestIsIn(q, included', excluded')
        BY <2>6, <3>1, IncludedByLongest
      <4>2. QED  BY <4>1 DEF Selected, IsIncluded, InclusionState
    <3>5. QED  BY <3>1, <3>2, <3>3, <3>4
  <2>8. Selected \subseteq Checkable /\ Selected' \subseteq Checkable /\ Below(p) \subseteq Checkable
    BY DEF Selected, Below
  <2>9. \A q \in Checkable : q \in Selected' <=> (q \in Below(p) /\ on)
                                                 \/ (q \notin Below(p) /\ q \in Selected)
    BY <2>5, <2>7
  <2>10. CASE on
    BY <2>4, <2>8, <2>9, <2>10
  <2>11. CASE ~on
    BY <2>4, <2>8, <2>9, <2>11
  <2>12. QED  BY <2>10, <2>11
<1>2. IInv => [\A p \in Checkable \ {Root} :
                 Toggle(p) => Selected' = IF p \in Selected THEN Selected \ Below(p)
                                          ELSE Selected \cup Below(p)]_selection
  BY <1>1
<1>3. QED  BY <1>2, PageInvariant, PTL DEF CheckBoxMeansSubtree

-----------------------------------------------------------------------------
(***************************************************************************)
(* The list of drives.  What is not as Solid said it was will be the       *)
(* subject of a signal that is on its way.                                 *)
(***************************************************************************)
SolidSignal ==
  [kind : {"added"}, of : Drives]
  \cup [kind : {"removed", "accessible", "inaccessible"}, of : Volumes]

\* A row is connected to the volume whose UUID it has, or to none.
Row == {row \in [uuid : Volumes, udi : Volumes \cup {None}] : row.udi \in {row.uuid, None}}

DriveType ==
  /\ plugged \in SUBSET Drives /\ mounted \in SUBSET {v \in Volumes : IsThere(v)}
  /\ solid \in Seq(SolidSignal) /\ toAdd \in Seq(Drives)
  /\ items \in Seq(Row)
  /\ selected \in Volumes \cup {None} /\ current \in Volumes \cup {None}
  /\ saved \in Volumes \cup {None}
  /\ accessible \in BOOLEAN

\* After the k-th signal comes one of these kinds about v.
Reported(sigs, kinds, v, k) ==
  \E j \in k + 1 .. Len(sigs) : sigs[j].kind \in kinds /\ sigs[j].of = v

Losses == {"removed", "inaccessible"}

Distinct(list) == \A i, j \in 1 .. Len(list) : list[i].uuid = list[j].uuid => i = j

Holds(list, v) == \E i \in 1 .. Len(list) : list[i].uuid = v
Shows(list, v) == \E i \in 1 .. Len(list) : list[i].uuid = v /\ list[i].udi = v

\* What is shown as connected is there, or that it has gone will be reported.
GoneIsReported(sigs, list, there) ==
  \A v \in Volumes : Shows(list, v) => DriveOf[v] \in there \/ Reported(sigs, {"removed"}, v, 0)

\* What is reported to be accessible still is, or the contrary will be reported after it.
LossIsReported(sigs, usable) ==
  \A k \in 1 .. Len(sigs) :
    sigs[k].kind = "accessible" => sigs[k].of \in usable \/ Reported(sigs, Losses, sigs[k].of, k)

\* So it is with the volume selected, if it is held to be accessible.
FlagIsRight(sigs, list, usable, v) ==
  /\ v # None /\ Shows(list, v)
  /\ v \in usable \/ Reported(sigs, Losses, v, 0)

DriveInv ==
  /\ DriveType
  /\ Distinct(items)
  /\ \A v \in {saved, selected} \ {None} : Holds(items, v)
  /\ GoneIsReported(solid, items, plugged)
  /\ LossIsReported(solid, mounted)
  /\ accessible => FlagIsRight(solid, items, mounted, selected)

-----------------------------------------------------------------------------
\* Rows and queues that become longer and shorter.
LEMMA MoreReported ==
  ASSUME NEW T, NEW s \in Seq(T), NEW t \in Seq(T)
  PROVE  /\ \A kinds, v : \A k \in Nat : Reported(s, kinds, v, k) => Reported(s \o t, kinds, v, k)
         /\ \A kinds, v : Reported(t, kinds, v, 0)
                            => \A k \in 0 .. Len(s) : Reported(s \o t, kinds, v, k)
<1>1. /\ Len(s) \in Nat /\ Len(t) \in Nat /\ Len(s \o t) = Len(s) + Len(t)
      /\ \A i \in 1 .. Len(s) + Len(t) : (s \o t)[i] = IF i <= Len(s) THEN s[i] ELSE t[i - Len(s)]
  BY ConcatProperties, LenProperties
<1>2. ASSUME NEW kinds, NEW v, NEW k \in Nat, Reported(s, kinds, v, k)
      PROVE  Reported(s \o t, kinds, v, k)
  <2>1. PICK j \in k + 1 .. Len(s) : s[j].kind \in kinds /\ s[j].of = v
    BY <1>2 DEF Reported
  <2>2. j \in k + 1 .. Len(s \o t) /\ (s \o t)[j] = s[j]
    BY <1>1, <2>1
  <2>3. QED  BY <2>1, <2>2 DEF Reported
<1>3. ASSUME NEW kinds, NEW v, Reported(t, kinds, v, 0), NEW k \in 0 .. Len(s)
      PROVE  Reported(s \o t, kinds, v, k)
  <2>1. PICK j \in 1 .. Len(t) : t[j].kind \in kinds /\ t[j].of = v
    BY <1>3 DEF Reported
  <2>2. Len(s) + j \in k + 1 .. Len(s \o t) /\ (s \o t)[Len(s) + j] = t[j]
    <3>1. Len(s) + j \in k + 1 .. Len(s) + Len(t) /\ Len(s) + j \in 1 .. Len(s) + Len(t)
          /\ ~(Len(s) + j <= Len(s)) /\ Len(s) + j - Len(s) = j
      BY <1>1, <2>1
    <3>2. QED  BY <1>1, <3>1
  <2>3. QED  BY <2>1, <2>2 DEF Reported
<1>4. QED  BY <1>2, <1>3

LEMMA NextReported ==
  ASSUME NEW T, NEW s \in Seq(T), s # <<>>
  PROVE  /\ \A kinds, v : \A k \in Nat :
              Reported(s, kinds, v, k + 1) => Reported(Tail(s), kinds, v, k)
         /\ \A kinds, v : Reported(s, kinds, v, 0)
              => (Head(s).kind \in kinds /\ Head(s).of = v) \/ Reported(Tail(s), kinds, v, 0)
<1> DEFINE n == Len(s)
<1>1. n \in Nat /\ n >= 1 /\ Head(s) = s[1] /\ Len(Tail(s)) = n - 1
      /\ \A i \in 1 .. n - 1 : Tail(s)[i] = s[i + 1]
  BY EmptySeq, HeadTailProperties, LenProperties
<1> HIDE DEF n
<1>2. ASSUME NEW kinds, NEW v, NEW k \in Nat, NEW j \in k + 2 .. n,
             s[j].kind \in kinds, s[j].of = v
      PROVE  Reported(Tail(s), kinds, v, k)
  <2>1. j - 1 \in k + 1 .. n - 1 /\ j - 1 \in 1 .. n - 1 /\ j - 1 + 1 = j
    BY <1>1
  <2>2. Tail(s)[j - 1] = s[j]
    BY <1>1, <2>1
  <2>3. j - 1 \in k + 1 .. Len(Tail(s))
    BY <1>1, <2>1
  <2>4. QED  BY <1>2, <2>2, <2>3 DEF Reported
<1>3. ASSUME NEW kinds, NEW v, NEW k \in Nat, Reported(s, kinds, v, k + 1)
      PROVE  Reported(Tail(s), kinds, v, k)
  <2>1. PICK j \in k + 1 + 1 .. n : s[j].kind \in kinds /\ s[j].of = v
    BY <1>3 DEF Reported, n
  <2>2. j \in k + 2 .. n
    BY <1>1, <2>1
  <2>3. QED  BY <1>2, <2>1, <2>2
<1>4. ASSUME NEW kinds, NEW v, Reported(s, kinds, v, 0),
             ~(Head(s).kind \in kinds /\ Head(s).of = v)
      PROVE  Reported(Tail(s), kinds, v, 0)
  <2>1. PICK j \in 1 .. n : s[j].kind \in kinds /\ s[j].of = v
    BY <1>4 DEF Reported, n
  <2>2. j # 1
    BY <1>1, <1>4, <2>1
  <2>3. j \in 0 + 2 .. n
    BY <1>1, <2>1, <2>2
  <2>4. QED  BY <1>2, <2>1, <2>3
<1>5. QED  BY <1>3, <1>4

\* The signals about a set of drives or of volumes.
LEMMA Announced ==
  ASSUME solid \in Seq(SolidSignal), NEW kind, NEW S, IsFiniteSet(S),
         [kind : {kind}, of : S] \subseteq SolidSignal, Announce(kind, S)
  PROVE  \E e \in Seq(SolidSignal) :
           /\ solid' = solid \o e
           /\ \A i \in 1 .. Len(e) : e[i].kind = kind /\ e[i].of \in S
           /\ \A kinds : \A x \in S : kind \in kinds => Reported(e, kinds, x, 0)
<1>1. PICK order \in SetToSeqs(S) :
        solid' = solid \o [i \in DOMAIN order |-> [kind |-> kind, of |-> order[i]]]
  BY DEF Announce
<1> DEFINE n == Len(order)
           e == [i \in DOMAIN order |-> [kind |-> kind, of |-> order[i]]]
<1>2. order \in Seq(S) /\ \A x \in S : \E i \in 1 .. n : order[i] = x
  BY AnyOrder
<1>3. n \in Nat /\ DOMAIN order = 1 .. n /\ \A i \in 1 .. n : order[i] \in S
  BY <1>2, ElementOfSeq, LenProperties
<1> HIDE DEF n
<1>4. /\ e \in [1 .. n -> SolidSignal]
      /\ \A i \in 1 .. n : e[i].kind = kind /\ e[i].of = order[i]
  BY <1>3
<1>5. solid' = solid \o e
  BY <1>1
<1> HIDE DEF e
<1>6. e \in Seq(SolidSignal) /\ Len(e) = n
  BY <1>3, <1>4
<1>7. ASSUME NEW kinds, NEW x \in S, kind \in kinds  PROVE Reported(e, kinds, x, 0)
  <2>1. PICK i \in 1 .. n : order[i] = x
    BY <1>2
  <2>2. i \in 0 + 1 .. Len(e) /\ e[i].kind \in kinds /\ e[i].of = x
    BY <1>4, <1>6, <1>7, <2>1
  <2>3. QED  BY <2>2 DEF Reported
<1>8. QED  BY <1>3, <1>4, <1>5, <1>6, <1>7

LEMMA RowsAre ==
  ASSUME NEW list \in Seq(Row)
  PROVE  /\ Len(list) \in Nat /\ DOMAIN list = 1 .. Len(list)
         /\ \A i \in 1 .. Len(list) : /\ list[i] \in Row /\ list[i].uuid \in Volumes
                                      /\ list[i].udi \in {list[i].uuid, None}
         /\ \A v \in Volumes : Shows(list, v) <=> \E i \in 1 .. Len(list) : list[i].udi = v
<1>1. Len(list) \in Nat /\ DOMAIN list = 1 .. Len(list)
  BY LenProperties
<1>2. \A i \in 1 .. Len(list) : list[i] \in Row
  BY ElementOfSeq
<1>3. \A row \in Row : row.uuid \in Volumes /\ row.udi \in {row.uuid, None}
  BY DEF Row
<1>4. QED  BY <1>1, <1>2, <1>3, DriveAssumption DEF Shows

\* What becomes of the list when the volumes of a drive are added.
Added(new, list, there) ==
  /\ new \in Seq(Row)
  /\ Distinct(new)
  /\ \A v \in Volumes : Holds(new, v) <=> Holds(list, v) \/ v \in there
  /\ \A v \in Volumes : Shows(new, v) <=> Shows(list, v) \/ v \in there
  /\ list = <<>> /\ new # <<>> => new[1].uuid \in there

LEMMA VolumesAdded ==
  ASSUME items \in Seq(Row), Distinct(items), NEW there \in SUBSET Volumes, AddVolumes(there)
  PROVE  Added(items', items, there)
<1> DEFINE m    == Len(items)
           new  == {v \in there : WithUuid(v) = {}}
           old  == [i \in DOMAIN items |->
                      IF items[i].uuid \in there THEN [items[i] EXCEPT !.udi = items[i].uuid]
                                                 ELSE items[i]]
<1>1. PICK order \in SetToSeqs(new) :
        items' = old \o [i \in DOMAIN order |-> [uuid |-> order[i], udi |-> order[i]]]
  BY DEF AddVolumes
<1> DEFINE n    == Len(order)
           more == [i \in DOMAIN order |-> [uuid |-> order[i], udi |-> order[i]]]
<1>2. /\ m \in Nat /\ DOMAIN items = 1 .. m
      /\ \A i \in 1 .. m : /\ items[i] \in Row /\ items[i].uuid \in Volumes
                           /\ items[i].udi \in {items[i].uuid, None}
  BY RowsAre
<1>3. IsFiniteSet(new)
  BY DriveAssumption, FS_Subset
<1>4. \A v \in there : v \in new <=> \A i \in 1 .. m : items[i].uuid # v
  BY <1>2 DEF WithUuid
<1>5. /\ order \in Seq(new)
      /\ \A v \in new : \E i \in 1 .. n : order[i] = v
      /\ \A i, j \in 1 .. n : i # j => order[i] # order[j]
  BY <1>3, AnyOrder
<1>6. n \in Nat /\ DOMAIN order = 1 .. n /\ \A i \in 1 .. n : order[i] \in new
  BY <1>5, ElementOfSeq, LenProperties
<1>7. new \subseteq there
  OBVIOUS
<1> HIDE DEF m, n, new
<1>8. /\ old \in [1 .. m -> Row]
      /\ \A i \in 1 .. m :
           /\ old[i].uuid = items[i].uuid
           /\ old[i].udi = IF items[i].uuid \in there THEN items[i].uuid ELSE items[i].udi
  <2>1. ASSUME NEW i \in 1 .. m
        PROVE  /\ old[i] \in Row /\ old[i].uuid = items[i].uuid
               /\ old[i].udi = IF items[i].uuid \in there THEN items[i].uuid ELSE items[i].udi
    <3>1. items[i] \in [uuid : Volumes, udi : Volumes \cup {None}]
      BY <1>2 DEF Row
    <3>2. CASE items[i].uuid \in there
      <4>1. old[i] = [items[i] EXCEPT !.udi = items[i].uuid]
        BY <1>2, <3>2
      <4>2. QED  BY <3>1, <3>2, <4>1 DEF Row
    <3>3. CASE items[i].uuid \notin there
      <4>1. old[i] = items[i]
        BY <1>2, <3>3
      <4>2. QED  BY <1>2, <3>3, <4>1
    <3>4. QED  BY <3>2, <3>3
  <2>2. DOMAIN old = 1 .. m
    BY <1>2
  <2>3. QED  BY <2>1, <2>2
<1>9. /\ more \in [1 .. n -> Row]
      /\ \A i \in 1 .. n : more[i].uuid = order[i] /\ more[i].udi = order[i]
  BY <1>6, <1>7 DEF Row
<1>10. items' = old \o more
  BY <1>1
<1> HIDE DEF old, more
<1>11. /\ old \in Seq(Row) /\ Len(old) = m /\ more \in Seq(Row) /\ Len(more) = n
  BY <1>2, <1>6, <1>8, <1>9
<1>12. /\ items' \in Seq(Row) /\ Len(items') = m + n
       /\ \A i \in 1 .. m + n : items'[i] = IF i <= m THEN old[i] ELSE more[i - m]
  BY <1>10, <1>11, ConcatProperties
<1>13. \A i \in 1 .. m : i \in 1 .. m + n /\ items'[i] = old[i]
  BY <1>2, <1>6, <1>12
<1>14. \A i \in 1 .. n : i + m \in 1 .. m + n /\ items'[i + m] = more[i]
  <2>1. TAKE i \in 1 .. n
  <2>2. i + m \in 1 .. m + n /\ ~(i + m <= m) /\ i + m - m = i
    BY <1>2, <1>6
  <2>3. QED  BY <1>2, <1>6, <1>12, <2>2
<1>15. \A k \in 1 .. m + n : k \in 1 .. m \/ \E i \in 1 .. n : k = i + m
  <2>1. TAKE k \in 1 .. m + n
  <2>2. CASE k <= m
    BY <1>2, <1>6, <2>2
  <2>3. CASE k > m
    <3>1. k - m \in 1 .. n /\ k = k - m + m
      BY <1>2, <1>6, <2>3
    <3>2. QED  BY <3>1
  <2>4. QED  BY <1>2, <1>6, <2>2, <2>3
<1>16. Distinct(items')
  <2>1. SUFFICES ASSUME NEW j \in 1 .. m + n, NEW k \in 1 .. m + n,
                        items'[j].uuid = items'[k].uuid
                 PROVE  j = k
    BY <1>12 DEF Distinct
  <2>2. CASE j \in 1 .. m /\ k \in 1 .. m
    BY <1>8, <1>13, <2>1, <2>2 DEF Distinct, m
  <2>3. CASE j \in 1 .. m /\ \E i \in 1 .. n : k = i + m
    <3>1. PICK i \in 1 .. n : k = i + m
      BY <2>3
    <3>2. items'[k].uuid = order[i] /\ items'[j].uuid = items[j].uuid
      BY <1>8, <1>9, <1>13, <1>14, <2>3, <3>1
    <3>3. QED  BY <1>4, <1>6, <1>7, <2>1, <2>3, <3>2
  <2>4. CASE k \in 1 .. m /\ \E i \in 1 .. n : j = i + m
    <3>1. PICK i \in 1 .. n : j = i + m
      BY <2>4
    <3>2. items'[j].uuid = order[i] /\ items'[k].uuid = items[k].uuid
      BY <1>8, <1>9, <1>13, <1>14, <2>4, <3>1
    <3>3. QED  BY <1>4, <1>6, <1>7, <2>1, <2>4, <3>2
  <2>5. CASE (\E i \in 1 .. n : j = i + m) /\ (\E i \in 1 .. n : k = i + m)
    <3>1. PICK a \in 1 .. n, b \in 1 .. n : j = a + m /\ k = b + m
      BY <2>5
    <3>2. order[a] = order[b]
      BY <1>9, <1>14, <2>1, <3>1
    <3>3. QED  BY <1>5, <3>1, <3>2
  <2>6. QED  BY <1>15, <2>2, <2>3, <2>4, <2>5
<1>17. ASSUME NEW v \in Volumes  PROVE Holds(items', v) <=> Holds(items, v) \/ v \in there
  <2>1. ASSUME Holds(items, v)  PROVE Holds(items', v)
    BY <1>8, <1>12, <1>13, <2>1 DEF Holds, m
  <2>2. ASSUME v \in new  PROVE Holds(items', v)
    <3>1. PICK i \in 1 .. n : order[i] = v
      BY <1>5, <2>2 DEF n
    <3>2. i + m \in 1 .. m + n /\ items'[i + m].uuid = v
      BY <1>9, <1>14, <3>1
    <3>3. QED  BY <1>12, <3>2 DEF Holds
  <2>3. ASSUME v \in there, v \notin new  PROVE Holds(items, v)
    BY <1>4, <2>3 DEF Holds, m
  <2>4. ASSUME Holds(items', v)  PROVE Holds(items, v) \/ v \in there
    <3>1. PICK k \in 1 .. m + n : items'[k].uuid = v
      BY <1>12, <2>4 DEF Holds
    <3>2. CASE k \in 1 .. m
      BY <1>8, <1>13, <3>1, <3>2 DEF Holds, m
    <3>3. CASE \E i \in 1 .. n : k = i + m
      BY <1>6, <1>7, <1>9, <1>14, <3>1, <3>3
    <3>4. QED  BY <1>15, <3>2, <3>3
  <2>5. QED  BY <2>1, <2>2, <2>3, <2>4
<1>18. ASSUME NEW v \in Volumes  PROVE Shows(items', v) <=> Shows(items, v) \/ v \in there
  <2>1. ASSUME NEW i \in 1 .. m, items[i].uuid = v, items[i].udi = v \/ v \in there
        PROVE  Shows(items', v)
    BY <1>8, <1>12, <1>13, <2>1 DEF Shows
  <2>2. ASSUME v \in new  PROVE Shows(items', v)
    <3>1. PICK i \in 1 .. n : order[i] = v
      BY <1>5, <2>2 DEF n
    <3>2. i + m \in 1 .. m + n /\ items'[i + m].uuid = v /\ items'[i + m].udi = v
      BY <1>9, <1>14, <3>1
    <3>3. QED  BY <1>12, <3>2 DEF Shows
  <2>3. ASSUME v \in there, v \notin new  PROVE \E i \in 1 .. m : items[i].uuid = v
    BY <1>4, <2>3
  <2>4. ASSUME Shows(items', v)  PROVE Shows(items, v) \/ v \in there
    <3>1. PICK k \in 1 .. m + n : items'[k].uuid = v /\ items'[k].udi = v
      BY <1>12, <2>4 DEF Shows
    <3>2. CASE k \in 1 .. m
      BY <1>8, <1>13, <3>1, <3>2 DEF Shows, m
    <3>3. CASE \E i \in 1 .. n : k = i + m
      BY <1>6, <1>7, <1>9, <1>14, <3>1, <3>3
    <3>4. QED  BY <1>15, <3>2, <3>3
  <2>5. Shows(items, v) => Shows(items', v)
    BY <2>1 DEF Shows, m
  <2>6. QED  BY <2>1, <2>2, <2>3, <2>4, <2>5
<1>19. ASSUME items = <<>>, items' # <<>>  PROVE items'[1].uuid \in there
  <2>1. m = 0
    BY <1>19, EmptySeq DEF m
  <2>2. n >= 1
    BY <1>6, <1>12, <1>19, <2>1, EmptySeq
  <2>3. items'[1 + m].uuid = order[1] /\ order[1] \in there
    BY <1>6, <1>7, <1>9, <1>14, <2>2
  <2>4. QED  BY <2>1, <2>3
<1>20. QED  BY <1>12, <1>16, <1>17, <1>18, <1>19 DEF Added

\* What becomes of the list when the row of a volume is removed, or shows no longer that
\* it is connected.
Dropped(new, list, v) ==
  /\ new \in Seq(Row)
  /\ Distinct(new)
  /\ \A x \in Volumes : Holds(new, x) <=> Holds(list, x) /\ x # v
  /\ \A x \in Volumes : Shows(new, x) <=> Shows(list, x) /\ x # v

Disconnected(new, list, v) ==
  /\ new \in Seq(Row)
  /\ Distinct(new)
  /\ \A x \in Volumes : Holds(new, x) <=> Holds(list, x)
  /\ \A x \in Volumes : Shows(new, x) <=> Shows(list, x) /\ x # v

LEMMA RowRemoved ==
  ASSUME NEW list \in Seq(Row), Distinct(list), NEW i \in 1 .. Len(list)
  PROVE  Dropped(RemoveAt(list, i), list, list[i].uuid)
<1> DEFINE n   == Len(list)
           new == RemoveAt(list, i)
           a   == SubSeq(list, 1, i - 1)
           b   == SubSeq(list, i + 1, n)
<1>1. n \in Nat /\ \A j \in 1 .. n : list[j] \in Row
  BY RowsAre
<1>2. new = a \o b
  BY DEF RemoveAt
<1> HIDE DEF n, new
<1>3. /\ a \in Seq(Row) /\ Len(a) = i - 1
      /\ \A j \in 1 .. i - 1 : a[j] = list[j]
  <2>1. \A j \in 1 .. i - 1 : list[j] \in Row
    BY <1>1 DEF n
  <2>2. /\ a \in Seq(Row) /\ Len(a) = (IF 1 <= i - 1 THEN i - 1 - 1 + 1 ELSE 0)
        /\ \A j \in 1 .. i - 1 - 1 + 1 : a[j] = list[1 + j - 1]
    BY <1>1, <2>1, SubSeqProperties DEF n
  <2>3. QED  BY <1>1, <2>2 DEF n
<1>4. /\ b \in Seq(Row) /\ Len(b) = n - i
      /\ \A j \in 1 .. n - i : b[j] = list[i + j]
  <2>1. \A j \in i + 1 .. n : list[j] \in Row
    BY <1>1 DEF n
  <2>2. /\ b \in Seq(Row) /\ Len(b) = (IF i + 1 <= n THEN n - (i + 1) + 1 ELSE 0)
        /\ \A j \in 1 .. n - (i + 1) + 1 : b[j] = list[i + 1 + j - 1]
    BY <1>1, <2>1, SubSeqProperties DEF n
  <2>3. QED  BY <1>1, <2>2 DEF n
<1> HIDE DEF a, b
<1>5. /\ new \in Seq(Row) /\ Len(new) = n - 1
      /\ \A j \in 1 .. n - 1 : new[j] = IF j < i THEN list[j] ELSE list[j + 1]
  <2>1. /\ new \in Seq(Row) /\ Len(new) = Len(a) + Len(b)
        /\ \A j \in 1 .. Len(a) + Len(b) : new[j] = IF j <= Len(a) THEN a[j] ELSE b[j - Len(a)]
    BY <1>2, <1>3, <1>4, ConcatProperties
  <2>2. Len(a) + Len(b) = n - 1
    BY <1>1, <1>3, <1>4 DEF n
  <2>3. ASSUME NEW j \in 1 .. n - 1
        PROVE  new[j] = IF j < i THEN list[j] ELSE list[j + 1]
    <3>1. CASE j < i
      <4>1. j \in 1 .. i - 1 /\ j <= Len(a)
        BY <1>1, <1>3, <3>1 DEF n
      <4>2. QED  BY <1>3, <2>1, <2>2, <3>1, <4>1
    <3>2. CASE ~(j < i)
      <4>1. j - Len(a) \in 1 .. n - i /\ ~(j <= Len(a)) /\ i + (j - Len(a)) = j + 1
        BY <1>1, <1>3, <3>2 DEF n
      <4>2. new[j] = b[j - Len(a)]
        BY <2>1, <2>2, <4>1
      <4>3. QED  BY <1>4, <3>2, <4>1, <4>2
    <3>3. QED  BY <3>1, <3>2
  <2>4. QED  BY <2>1, <2>2, <2>3
<1>6. \A j \in 1 .. n : j # i => \E k \in 1 .. n - 1 : new[k] = list[j]
  <2>1. SUFFICES ASSUME NEW j \in 1 .. n, j # i  PROVE \E k \in 1 .. n - 1 : new[k] = list[j]
    OBVIOUS
  <2>2. CASE j < i
    <3>1. j \in 1 .. n - 1
      BY <1>1, <2>2 DEF n
    <3>2. QED  BY <1>5, <2>2, <3>1
  <2>3. CASE j > i
    <3>1. j - 1 \in 1 .. n - 1 /\ ~(j - 1 < i) /\ j - 1 + 1 = j
      BY <1>1, <2>3 DEF n
    <3>2. QED  BY <1>5, <3>1
  <2>4. QED  BY <1>1, <2>1, <2>2, <2>3 DEF n
<1>7. \A k \in 1 .. n - 1 : \E j \in 1 .. n : j # i /\ new[k] = list[j]
                                              /\ j = IF k < i THEN k ELSE k + 1
  <2>1. TAKE k \in 1 .. n - 1
  <2>2. CASE k < i
    <3>1. k \in 1 .. n /\ k # i
      BY <1>1, <2>2 DEF n
    <3>2. QED  BY <1>5, <2>2, <3>1
  <2>3. CASE ~(k < i)
    <3>1. k + 1 \in 1 .. n /\ k + 1 # i
      BY <1>1, <2>3 DEF n
    <3>2. QED  BY <1>5, <2>3, <3>1
  <2>4. QED  BY <2>2, <2>3
<1>8. \A j \in 1 .. n : list[j].uuid = list[i].uuid => j = i
  BY DEF Distinct, n
<1>9. Distinct(new)
  <2>1. SUFFICES ASSUME NEW k \in 1 .. n - 1, NEW l \in 1 .. n - 1, new[k].uuid = new[l].uuid
                 PROVE  k = l
    BY <1>5 DEF Distinct
  <2>2. PICK j \in 1 .. n : j # i /\ new[k] = list[j] /\ j = IF k < i THEN k ELSE k + 1
    BY <1>7
  <2>3. PICK m \in 1 .. n : m # i /\ new[l] = list[m] /\ m = IF l < i THEN l ELSE l + 1
    BY <1>7
  <2>4. j = m
    BY <2>1, <2>2, <2>3 DEF Distinct, n
  <2>5. QED  BY <1>1, <2>2, <2>3, <2>4 DEF n
<1>10. ASSUME NEW x
       PROVE  /\ Holds(new, x) <=> Holds(list, x) /\ x # list[i].uuid
              /\ Shows(new, x) <=> Shows(list, x) /\ x # list[i].uuid
  <2>1. ASSUME NEW k \in 1 .. n - 1, new[k].uuid = x
        PROVE  /\ x # list[i].uuid /\ Holds(list, x)
               /\ new[k].udi = x => Shows(list, x)
    <3>1. PICK j \in 1 .. n : j # i /\ new[k] = list[j]
      BY <1>7
    <3>2. QED  BY <1>8, <2>1, <3>1 DEF Holds, Shows, n
  <2>2. ASSUME NEW j \in 1 .. n, list[j].uuid = x, x # list[i].uuid
        PROVE  /\ Holds(new, x)
               /\ list[j].udi = x => Shows(new, x)
    <3>1. PICK k \in 1 .. n - 1 : new[k] = list[j]
      BY <1>6, <2>2
    <3>2. QED  BY <1>5, <2>2, <3>1 DEF Holds, Shows
  <2>3. Holds(new, x) => Holds(list, x) /\ x # list[i].uuid
    BY <1>5, <2>1 DEF Holds
  <2>4. Shows(new, x) => Shows(list, x) /\ x # list[i].uuid
    BY <1>5, <2>1 DEF Shows
  <2>5. Holds(list, x) /\ x # list[i].uuid => Holds(new, x)
    BY <2>2 DEF Holds, n
  <2>6. Shows(list, x) /\ x # list[i].uuid => Shows(new, x)
    BY <2>2 DEF Shows, n
  <2>7. QED  BY <2>3, <2>4, <2>5, <2>6
<1>11. Dropped(new, list, list[i].uuid)
  BY <1>5, <1>9, <1>10 DEF Dropped
<1>12. QED  BY <1>11 DEF new

LEMMA RowDisconnected ==
  ASSUME NEW list \in Seq(Row), Distinct(list), NEW i \in 1 .. Len(list)
  PROVE  Disconnected([list EXCEPT ![i].udi = None], list, list[i].uuid)
<1> DEFINE n   == Len(list)
           new == [list EXCEPT ![i].udi = None]
<1>1. /\ n \in Nat /\ DOMAIN list = 1 .. n
      /\ \A j \in 1 .. n : list[j] \in Row /\ list[j].uuid \in Volumes
  BY RowsAre
<1> HIDE DEF n
<1>2. i \in 1 .. n
  BY DEF n
<1>3. \A j \in 1 .. n : j # i => new[j] = list[j]
  BY <1>1
<1>4. list[i] \in [uuid : Volumes, udi : Volumes \cup {None}]
  BY <1>1, <1>2 DEF Row
<1>5. new[i] = [list[i] EXCEPT !.udi = None]
  BY <1>1, <1>2
<1>6. new[i] \in Row /\ new[i].uuid = list[i].uuid /\ new[i].udi = None
  BY <1>4, <1>5 DEF Row
<1>7. DOMAIN new = 1 .. n /\ \A j \in 1 .. n : new[j] \in Row
  BY <1>1, <1>3, <1>6
<1>8. new \in [1 .. n -> Row]
  <2>1. new = [j \in 1 .. n |-> new[j]]
    BY <1>1
  <2> HIDE DEF new
  <2>2. QED  BY <1>7, <2>1
<1> HIDE DEF new
<1>9. new \in Seq(Row) /\ Len(new) = n
  BY <1>1, <1>8
<1>10. \A j \in 1 .. n : new[j].uuid = list[j].uuid
  BY <1>3, <1>6
<1>11. Distinct(new)
  BY <1>9, <1>10 DEF Distinct, n
<1>12. \A x : Holds(new, x) <=> Holds(list, x)
  BY <1>9, <1>10 DEF Holds, n
<1>13. \A j \in 1 .. n : list[j].uuid = list[i].uuid => j = i
  BY <1>2 DEF Distinct, n
<1>14. None \notin Volumes
  BY DriveAssumption
<1>15. ASSUME NEW x \in Volumes  PROVE Shows(new, x) <=> Shows(list, x) /\ x # list[i].uuid
  <2>1. ASSUME Shows(new, x)  PROVE Shows(list, x) /\ x # list[i].uuid
    <3>1. PICK j \in 1 .. n : new[j].uuid = x /\ new[j].udi = x
      BY <1>9, <2>1 DEF Shows
    <3>2. j # i
      BY <1>6, <1>14, <3>1
    <3>3. QED  BY <1>3, <1>13, <3>1, <3>2 DEF Shows, n
  <2>2. ASSUME Shows(list, x), x # list[i].uuid  PROVE Shows(new, x)
    <3>1. PICK j \in 1 .. n : list[j].uuid = x /\ list[j].udi = x
      BY <2>2 DEF Shows, n
    <3>2. QED  BY <1>3, <1>9, <2>2, <3>1 DEF Shows
  <2>3. QED  BY <2>1, <2>2
<1>16. Disconnected(new, list, list[i].uuid)
  BY <1>9, <1>11, <1>12, <1>15 DEF Disconnected
<1>17. QED  BY <1>16 DEF new

-----------------------------------------------------------------------------
\* The hardware changes, and Solid will say so.
LEMMA HardwareChanges ==
  ASSUME DriveInv, NEW e \in Seq(SolidSignal), solid' = solid \o e,
         plugged' \in SUBSET Drives, mounted' \in SUBSET {v \in Volumes : DriveOf[v] \in plugged'},
         \A i \in 1 .. Len(e) : e[i].kind = "accessible" => e[i].of \in mounted',
         \A v \in mounted \ mounted' : Reported(e, Losses, v, 0),
         \A v \in Volumes : DriveOf[v] \in plugged \ plugged' => Reported(e, {"removed"}, v, 0),
         toAdd' = toAdd, items' = items, selected' = selected, current' = current,
         accessible' = accessible, saved' = saved
  PROVE  DriveInv'
<1>1. /\ DriveType /\ Distinct(items) /\ \A v \in {saved, selected} \ {None} : Holds(items, v)
      /\ GoneIsReported(solid, items, plugged) /\ LossIsReported(solid, mounted)
      /\ accessible => FlagIsRight(solid, items, mounted, selected)
  BY DEF DriveInv
<1>2. solid \in Seq(SolidSignal) /\ Len(solid) \in Nat /\ Len(e) \in Nat
  BY <1>1, LenProperties DEF DriveType
<1>3. /\ solid' \in Seq(SolidSignal) /\ Len(solid') = Len(solid) + Len(e)
      /\ \A k \in 1 .. Len(solid) + Len(e) :
           solid'[k] = IF k <= Len(solid) THEN solid[k] ELSE e[k - Len(solid)]
  BY <1>2, ConcatProperties
<1>4. /\ \A kinds, v : \A k \in Nat : Reported(solid, kinds, v, k) => Reported(solid', kinds, v, k)
      /\ \A kinds, v : Reported(e, kinds, v, 0)
                         => \A k \in 0 .. Len(solid) : Reported(solid', kinds, v, k)
  BY <1>2, MoreReported
<1>5. DriveType'
  BY <1>1, <1>3 DEF DriveType, IsThere
<1>6. GoneIsReported(solid', items', plugged')
  <2>1. SUFFICES ASSUME NEW v \in Volumes, Shows(items, v), DriveOf[v] \notin plugged'
                 PROVE  Reported(solid', {"removed"}, v, 0)
    BY DEF GoneIsReported
  <2>2. CASE DriveOf[v] \in plugged
    BY <1>2, <1>4, <2>1, <2>2
  <2>3. CASE DriveOf[v] \notin plugged
    BY <1>1, <1>4, <2>1, <2>3 DEF GoneIsReported
  <2>4. QED  BY <2>2, <2>3
<1>7. LossIsReported(solid', mounted')
  <2>1. SUFFICES ASSUME NEW k \in 1 .. Len(solid) + Len(e), solid'[k].kind = "accessible",
                        solid'[k].of \notin mounted'
                 PROVE  Reported(solid', Losses, solid'[k].of, k)
    BY <1>3 DEF LossIsReported
  <2>2. CASE k <= Len(solid)
    <3>1. k \in 1 .. Len(solid) /\ k \in 0 .. Len(solid) /\ k \in Nat /\ solid'[k] = solid[k]
      BY <1>2, <1>3, <2>2
    <3>2. CASE solid[k].of \in mounted
      BY <1>4, <2>1, <3>1, <3>2
    <3>3. CASE solid[k].of \notin mounted
      BY <1>1, <1>4, <2>1, <3>1, <3>3 DEF LossIsReported
    <3>4. QED  BY <3>2, <3>3
  <2>3. CASE k > Len(solid)
    <3>1. k - Len(solid) \in 1 .. Len(e) /\ solid'[k] = e[k - Len(solid)]
      BY <1>2, <1>3, <2>3
    <3>2. QED  BY <2>1, <3>1
  <2>4. QED  BY <1>2, <2>2, <2>3
<1>8. accessible' => FlagIsRight(solid', items', mounted', selected')
  <2>1. SUFFICES ASSUME FlagIsRight(solid, items, mounted, selected)
                 PROVE  FlagIsRight(solid', items, mounted', selected)
    BY <1>1
  <2>2. CASE selected \in mounted \ mounted'
    BY <1>2, <1>4, <2>1, <2>2 DEF FlagIsRight
  <2>3. CASE selected \notin mounted \ mounted'
    BY <1>4, <2>1, <2>3 DEF FlagIsRight
  <2>4. QED  BY <2>2, <2>3
<1>9. Distinct(items') /\ \A v \in {saved', selected'} \ {None} : Holds(items', v)
  BY <1>1
<1>10. QED  BY <1>5, <1>6, <1>7, <1>8, <1>9 DEF DriveInv

LEMMA PlugKeeps ==
  ASSUME DriveInv, NEW d \in Drives, Plug(d) \/ Unplug(d)
  PROVE  DriveInv'
<1>1. DriveType /\ solid \in Seq(SolidSignal) /\ mounted \subseteq Volumes
  BY DEF DriveInv, DriveType
<1>2. /\ toAdd' = toAdd /\ items' = items /\ selected' = selected /\ current' = current
      /\ accessible' = accessible /\ saved' = saved
  BY DEF Plug, Unplug, widget
<1>3. CASE Plug(d)
  <2>1. plugged' = plugged \cup {d} /\ mounted' = mounted /\ Announce("added", {d})
    BY <1>3 DEF Plug
  <2>2. IsFiniteSet({d}) /\ [kind : {"added"}, of : {d}] \subseteq SolidSignal
    BY FS_Singleton DEF SolidSignal
  <2>3. PICK e \in Seq(SolidSignal) :
          solid' = solid \o e /\ \A i \in 1 .. Len(e) : e[i].kind = "added"
    BY <1>1, <2>1, <2>2, Announced
  <2>4. /\ plugged' \in SUBSET Drives
        /\ mounted' \in SUBSET {v \in Volumes : DriveOf[v] \in plugged'}
    BY <1>1, <2>1 DEF DriveType, IsThere
  <2>5. /\ \A v \in mounted \ mounted' : FALSE
        /\ plugged \ plugged' = {}
    BY <2>1
  <2>6. QED  BY <1>2, <2>3, <2>4, <2>5, HardwareChanges
<1>4. CASE Unplug(d)
  <2>1. plugged' = plugged \ {d} /\ mounted' = mounted \ Of(d) /\ Announce("removed", Of(d))
    BY <1>4 DEF Unplug
  <2>2. /\ IsFiniteSet(Of(d)) /\ [kind : {"removed"}, of : Of(d)] \subseteq SolidSignal
        /\ Of(d) \subseteq Volumes
    BY DriveAssumption, FS_Subset DEF SolidSignal, Of
  <2>3. PICK e \in Seq(SolidSignal) :
          /\ solid' = solid \o e
          /\ \A i \in 1 .. Len(e) : e[i].kind = "removed"
          /\ \A kinds : \A x \in Of(d) : "removed" \in kinds => Reported(e, kinds, x, 0)
    <3> HIDE DEF Of
    <3>1. QED  BY <1>1, <2>1, <2>2, Announced
  <2>4. /\ plugged' \in SUBSET Drives
        /\ mounted' \in SUBSET {v \in Volumes : DriveOf[v] \in plugged'}
    BY <1>1, <2>1 DEF DriveType, IsThere, Of
  <2>5. \A v \in mounted \ mounted' : Reported(e, Losses, v, 0)
    BY <2>1, <2>3 DEF Losses
  <2>6. \A v \in Volumes : DriveOf[v] \in plugged \ plugged' => Reported(e, {"removed"}, v, 0)
    BY <2>1, <2>3 DEF Of
  <2>7. \A i \in 1 .. Len(e) : e[i].kind = "accessible" => e[i].of \in mounted'
    BY <2>3
  <2>8. QED  BY <1>2, <2>3, <2>4, <2>5, <2>6, <2>7, HardwareChanges
<1>5. QED  BY <1>3, <1>4

LEMMA MountKeeps ==
  ASSUME DriveInv, NEW v \in Volumes, Mount(v) \/ Unmount(v)
  PROVE  DriveInv'
<1>1. DriveType /\ solid \in Seq(SolidSignal)
  BY DEF DriveInv, DriveType
<1>2. /\ plugged' = plugged /\ toAdd' = toAdd /\ items' = items /\ selected' = selected
      /\ current' = current /\ accessible' = accessible /\ saved' = saved
  BY DEF Mount, Unmount, widget
<1>3. plugged' \in SUBSET Drives /\ plugged \ plugged' = {} /\ IsFiniteSet({v})
  BY <1>1, <1>2, FS_Singleton DEF DriveType
<1>4. CASE Mount(v)
  <2>1. mounted' = mounted \cup {v} /\ IsThere(v) /\ Announce("accessible", {v})
    BY <1>4 DEF Mount
  <2>2. [kind : {"accessible"}, of : {v}] \subseteq SolidSignal
    BY DEF SolidSignal
  <2>3. PICK e \in Seq(SolidSignal) :
          solid' = solid \o e /\ \A i \in 1 .. Len(e) : e[i].of \in {v}
    BY <1>1, <1>3, <2>1, <2>2, Announced
  <2>4. mounted' \in SUBSET {x \in Volumes : DriveOf[x] \in plugged'}
    BY <1>1, <1>2, <2>1 DEF DriveType, IsThere
  <2>5. /\ \A x \in mounted \ mounted' : FALSE
        /\ \A i \in 1 .. Len(e) : e[i].of \in mounted'
    BY <2>1, <2>3
  <2>6. QED  BY <1>2, <1>3, <2>3, <2>4, <2>5, HardwareChanges
<1>5. CASE Unmount(v)
  <2>1. mounted' = mounted \ {v} /\ Announce("inaccessible", {v})
    BY <1>5 DEF Unmount
  <2>2. [kind : {"inaccessible"}, of : {v}] \subseteq SolidSignal
    BY DEF SolidSignal
  <2>3. PICK e \in Seq(SolidSignal) :
          /\ solid' = solid \o e
          /\ \A i \in 1 .. Len(e) : e[i].kind = "inaccessible"
          /\ \A kinds : \A x \in {v} : "inaccessible" \in kinds => Reported(e, kinds, x, 0)
    <3> DEFINE S == {v}
    <3>1. IsFiniteSet(S) /\ [kind : {"inaccessible"}, of : S] \subseteq SolidSignal
          /\ Announce("inaccessible", S)
      BY <1>3, <2>1, <2>2
    <3> HIDE DEF S
    <3>2. \E e \in Seq(SolidSignal) :
            /\ solid' = solid \o e
            /\ \A i \in 1 .. Len(e) : e[i].kind = "inaccessible" /\ e[i].of \in S
            /\ \A kinds : \A x \in S : "inaccessible" \in kinds => Reported(e, kinds, x, 0)
      BY <1>1, <3>1, Announced
    <3>3. QED  BY <3>2 DEF S
  <2>4. mounted' \in SUBSET {x \in Volumes : DriveOf[x] \in plugged'}
    BY <1>1, <1>2, <2>1 DEF DriveType, IsThere
  <2>5. \A x \in mounted \ mounted' : Reported(e, Losses, x, 0)
    BY <2>1, <2>3 DEF Losses
  <2>6. \A i \in 1 .. Len(e) : e[i].kind = "accessible" => e[i].of \in mounted'
    BY <2>3
  <2>7. QED  BY <1>2, <1>3, <2>3, <2>4, <2>5, <2>6, HardwareChanges
<1>6. QED  BY <1>4, <1>5

-----------------------------------------------------------------------------
\* A signal is delivered.
LEMMA SignalTaken ==
  ASSUME DriveInv, NEW kind, NextIs(kind)
  PROVE  /\ solid' \in Seq(SolidSignal) /\ Head(solid) \in SolidSignal /\ Head(solid).kind = kind
         /\ LossIsReported(solid', mounted)
         /\ kind = "accessible" => \/ Head(solid).of \in mounted
                                   \/ Reported(solid', Losses, Head(solid).of, 0)
         /\ \A v : Reported(solid, {"removed"}, v, 0)
                     => (kind = "removed" /\ Head(solid).of = v)
                        \/ Reported(solid', {"removed"}, v, 0)
         /\ \A v : Reported(solid, Losses, v, 0)
                     => (kind \in Losses /\ Head(solid).of = v)
                        \/ Reported(solid', Losses, v, 0)
<1>1. /\ solid \in Seq(SolidSignal) /\ LossIsReported(solid, mounted)
      /\ solid # <<>> /\ solid' = Tail(solid) /\ Head(solid).kind = kind
  BY DEF DriveInv, DriveType, NextIs
<1>2. /\ Len(solid) \in Nat /\ Len(solid) >= 1 /\ Head(solid) = solid[1]
      /\ Len(solid') = Len(solid) - 1
      /\ \A i \in 1 .. Len(solid) - 1 : solid'[i] = solid[i + 1]
      /\ solid' \in Seq(SolidSignal) /\ Head(solid) \in SolidSignal
  BY <1>1, EmptySeq, HeadTailProperties, LenProperties
<1>3. /\ \A kinds, v : \A k \in Nat :
           Reported(solid, kinds, v, k + 1) => Reported(solid', kinds, v, k)
      /\ \A kinds, v : Reported(solid, kinds, v, 0)
           => (Head(solid).kind \in kinds /\ Head(solid).of = v) \/ Reported(solid', kinds, v, 0)
  BY <1>1, NextReported
<1>4. LossIsReported(solid', mounted)
  <2>1. SUFFICES ASSUME NEW k \in 1 .. Len(solid) - 1, solid'[k].kind = "accessible",
                        solid'[k].of \notin mounted
                 PROVE  Reported(solid', Losses, solid'[k].of, k)
    BY <1>2 DEF LossIsReported
  <2>2. k + 1 \in 1 .. Len(solid) /\ solid'[k] = solid[k + 1] /\ k \in Nat
    BY <1>2
  <2>3. Reported(solid, Losses, solid[k + 1].of, k + 1)
    BY <1>1, <2>1, <2>2 DEF LossIsReported
  <2>4. QED  BY <1>3, <2>2, <2>3
<1>5. kind = "accessible" => Head(solid).of \in mounted \/ Reported(solid', Losses, Head(solid).of, 0)
  <2>1. SUFFICES ASSUME kind = "accessible", Head(solid).of \notin mounted
                 PROVE  Reported(solid', Losses, Head(solid).of, 0)
    OBVIOUS
  <2>2. 1 \in 1 .. Len(solid)
    BY <1>2
  <2>3. Reported(solid, Losses, solid[1].of, 1)
    BY <1>1, <1>2, <2>1, <2>2 DEF LossIsReported
  <2>4. Reported(solid, Losses, Head(solid).of, 0 + 1)
    BY <1>2, <2>3
  <2>5. QED  BY <1>3, <2>4
<1>6. QED  BY <1>1, <1>2, <1>3, <1>4, <1>5

\* A row is shown as connected if findItem() finds its volume by the UDI.
LEMMA FoundByUdi ==
  ASSUME items \in Seq(Row), NEW v \in Volumes
  PROVE  /\ Shows(items, v) <=> WithUdi(v) # {}
         /\ Holds(items, v) <=> WithUuid(v) # {}
         /\ Shows(items, v) => Holds(items, v)
<1>1. DOMAIN items = 1 .. Len(items)
  BY RowsAre
<1>2. Shows(items, v) <=> \E i \in 1 .. Len(items) : items[i].udi = v
  BY RowsAre
<1>3. QED  BY <1>1, <1>2 DEF WithUdi, WithUuid, Holds, Shows

LEMMA DeviceAddedKeeps ==
  ASSUME DriveInv, DeviceAdded
  PROVE  DriveInv'
<1>1. /\ DriveType /\ Distinct(items) /\ \A v \in {saved, selected} \ {None} : Holds(items, v)
      /\ GoneIsReported(solid, items, plugged)
      /\ accessible => FlagIsRight(solid, items, mounted, selected)
  BY DEF DriveInv
<1> DEFINE d == Head(solid).of
<1>2. /\ NextIs("added") /\ toAdd' = IF Contains(toAdd, d) THEN toAdd ELSE Append(toAdd, d)
      /\ plugged' = plugged /\ mounted' = mounted /\ items' = items /\ selected' = selected
      /\ current' = current /\ accessible' = accessible /\ saved' = saved
  BY DEF DeviceAdded, hardware, widget
<1>3. /\ solid' \in Seq(SolidSignal) /\ LossIsReported(solid', mounted)
      /\ \A v : Reported(solid, {"removed"}, v, 0) => Reported(solid', {"removed"}, v, 0)
      /\ \A v : Reported(solid, Losses, v, 0) => Reported(solid', Losses, v, 0)
  BY <1>2, SignalTaken DEF Losses
<1>4. d \in Drives
  <2>1. Head(solid) \in SolidSignal /\ Head(solid).kind = "added"
    BY <1>2, SignalTaken
  <2>2. QED  BY <2>1 DEF SolidSignal
<1>5. toAdd' \in Seq(Drives)
  <2>1. toAdd \in Seq(Drives)
    BY <1>1 DEF DriveType
  <2>2. Append(toAdd, d) \in Seq(Drives)
    BY <1>4, <2>1, AppendProperties
  <2>3. QED  BY <1>2, <2>1, <2>2
<1>6. DriveType'
  BY <1>1, <1>2, <1>3, <1>5 DEF DriveType, IsThere
<1>7. GoneIsReported(solid', items', plugged')
  BY <1>1, <1>2, <1>3 DEF GoneIsReported
<1>8. accessible' => FlagIsRight(solid', items', mounted', selected')
  BY <1>1, <1>2, <1>3 DEF FlagIsRight
<1>9. QED  BY <1>1, <1>2, <1>3, <1>6, <1>7, <1>8 DEF DriveInv

LEMMA AccessabilityChangedKeeps ==
  ASSUME DriveInv, AccessabilityChanged
  PROVE  DriveInv'
<1>1. /\ DriveType /\ Distinct(items) /\ \A v \in {saved, selected} \ {None} : Holds(items, v)
      /\ GoneIsReported(solid, items, plugged)
      /\ accessible => FlagIsRight(solid, items, mounted, selected)
  BY DEF DriveInv
<1> DEFINE v == Head(solid).of
<1>2. /\ \/ NextIs("accessible")
            /\ accessible' = IF WithUdi(v) = {} THEN accessible ELSE v = selected
         \/ NextIs("inaccessible")
            /\ accessible' = (accessible /\ WithUdi(v) = {})
      /\ plugged' = plugged /\ mounted' = mounted /\ toAdd' = toAdd /\ items' = items
      /\ selected' = selected /\ current' = current /\ saved' = saved
  BY DEF AccessabilityChanged, hardware
<1>3. PICK kind \in {"accessible", "inaccessible"} : NextIs(kind)
  BY <1>2
<1>4. /\ solid' \in Seq(SolidSignal) /\ Head(solid) \in SolidSignal /\ Head(solid).kind = kind
      /\ LossIsReported(solid', mounted)
      /\ kind = "accessible" => v \in mounted \/ Reported(solid', Losses, v, 0)
      /\ \A x : Reported(solid, {"removed"}, x, 0) => Reported(solid', {"removed"}, x, 0)
      /\ \A x : Reported(solid, Losses, x, 0)
                  => (kind \in Losses /\ v = x) \/ Reported(solid', Losses, x, 0)
  BY <1>3, SignalTaken
<1>5. v \in Volumes
  BY <1>3, <1>4 DEF SolidSignal
<1> HIDE DEF v
<1>6. items \in Seq(Row)
  BY <1>1 DEF DriveType
<1>7. accessible' => FlagIsRight(solid', items, mounted, selected)
  <2>1. SUFFICES ASSUME accessible'  PROVE FlagIsRight(solid', items, mounted, selected)
    OBVIOUS
  <2>2. CASE kind = "accessible"
    <3>1. accessible' = IF WithUdi(v) = {} THEN accessible ELSE v = selected
      BY <1>2, <1>4, <2>2 DEF NextIs
    <3>2. CASE WithUdi(v) = {}
      BY <1>1, <1>4, <2>1, <2>2, <3>1, <3>2 DEF FlagIsRight, Losses
    <3>3. CASE WithUdi(v) # {}
      <4>1. v = selected /\ Shows(items, v)
        BY <1>5, <1>6, <2>1, <3>1, <3>3, FoundByUdi
      <4>2. v # None
        BY <1>5, DriveAssumption
      <4>3. QED  BY <1>4, <2>2, <4>1, <4>2 DEF FlagIsRight
    <3>4. QED  BY <3>2, <3>3
  <2>3. CASE kind = "inaccessible"
    <3>1. accessible' = (accessible /\ WithUdi(v) = {})
      BY <1>2, <1>4, <2>3 DEF NextIs
    <3>2. FlagIsRight(solid, items, mounted, selected) /\ ~Shows(items, v)
      BY <1>1, <1>5, <1>6, <2>1, <3>1, FoundByUdi
    <3>3. v # selected
      BY <3>2 DEF FlagIsRight
    <3>4. QED  BY <1>4, <3>2, <3>3 DEF FlagIsRight
  <2>4. QED  BY <1>3, <2>2, <2>3
<1>8. accessible' \in BOOLEAN
  <2>1. accessible \in BOOLEAN
    BY <1>1 DEF DriveType
  <2>2. QED  BY <1>2, <2>1
<1>9. DriveType'
  BY <1>1, <1>2, <1>4, <1>8 DEF DriveType, IsThere
<1>10. GoneIsReported(solid', items', plugged')
  BY <1>1, <1>2, <1>4 DEF GoneIsReported
<1>11. QED  BY <1>1, <1>2, <1>4, <1>7, <1>9, <1>10 DEF DriveInv

LEMMA DelayedDeviceAddedKeeps ==
  ASSUME DriveInv, DelayedDeviceAdded
  PROVE  DriveInv'
<1>1. /\ DriveType /\ Distinct(items) /\ \A v \in {saved, selected} \ {None} : Holds(items, v)
      /\ GoneIsReported(solid, items, plugged) /\ LossIsReported(solid, mounted)
      /\ accessible => FlagIsRight(solid, items, mounted, selected)
  BY DEF DriveInv
<1>2. /\ mounted \in SUBSET {v \in Volumes : IsThere(v)} /\ items \in Seq(Row)
      /\ toAdd \in Seq(Drives) /\ accessible \in BOOLEAN
      /\ selected \in Volumes \cup {None} /\ saved \in Volumes \cup {None}
      /\ solid \in Seq(SolidSignal)
  BY <1>1 DEF DriveType
<1> DEFINE d     == Head(toAdd)
           there == IF d \in plugged THEN Of(d) ELSE {}
           first == items = <<>> /\ items' # <<>>
<1>3. /\ toAdd # <<>> /\ toAdd' = Tail(toAdd) /\ AddVolumes(there)
      /\ plugged' = plugged /\ mounted' = mounted /\ solid' = solid
      /\ current' = current /\ saved' = saved
      /\ selected' = IF first THEN items'[1].uuid ELSE selected
      /\ accessible' = IF first THEN selected' \in mounted
                       ELSE accessible \/ (\E v \in Of(d) \cap mounted : v = selected)
  BY DEF DelayedDeviceAdded, hardware
<1>4. there \subseteq Volumes /\ \A v \in there : IsThere(v)
  BY DEF Of, IsThere
<1>5. \A v \in Of(d) \cap mounted : v \in there
  BY <1>2 DEF Of, IsThere
<1>6. toAdd' \in Seq(Drives)
  BY <1>2, <1>3, HeadTailProperties
<1> HIDE DEF there, first, d
<1>7. Added(items', items, there)
  BY <1>1, <1>2, <1>3, <1>4, VolumesAdded
<1>8. /\ items' \in Seq(Row) /\ Distinct(items')
      /\ \A v \in Volumes : Holds(items', v) <=> Holds(items, v) \/ v \in there
      /\ \A v \in Volumes : Shows(items', v) <=> Shows(items, v) \/ v \in there
      /\ first => items'[1].uuid \in there
  BY <1>7 DEF Added, first
<1>9. CASE first
  <2>1. selected' \in there /\ selected' \in Volumes /\ selected' # None
    BY <1>3, <1>4, <1>8, <1>9, DriveAssumption
  <2>2. accessible' = (selected' \in mounted) /\ accessible' \in BOOLEAN
    BY <1>3, <1>9
  <2>3. FlagIsRight(solid', items', mounted', selected') \/ ~accessible'
    BY <1>3, <1>8, <2>1, <2>2 DEF FlagIsRight
  <2>4. DriveType'
    BY <1>1, <1>3, <1>6, <1>8, <2>1, <2>2 DEF DriveType, IsThere
  <2>5. GoneIsReported(solid', items', plugged')
    BY <1>1, <1>3, <1>4, <1>8 DEF GoneIsReported, IsThere
  <2>6. \A v \in {saved', selected'} \ {None} : Holds(items', v)
    BY <1>1, <1>2, <1>3, <1>8, <2>1
  <2>7. QED  BY <1>1, <1>3, <1>8, <2>3, <2>4, <2>5, <2>6 DEF DriveInv
<1>10. CASE ~first
  <2>1. /\ selected' = selected
        /\ accessible' = (accessible \/ \E v \in Of(d) \cap mounted : v = selected)
    BY <1>3, <1>10
  <2>2. accessible' \in BOOLEAN
    BY <2>1, <1>2
  <2>3. ASSUME accessible'  PROVE FlagIsRight(solid', items', mounted', selected')
    <3>1. CASE accessible
      BY <1>1, <1>2, <1>3, <1>8, <2>1, <3>1 DEF FlagIsRight
    <3>2. CASE \E v \in Of(d) \cap mounted : v = selected
      <4>1. selected \in there /\ selected \in mounted /\ selected \in Volumes
        BY <1>4, <1>5, <3>2
      <4>2. selected # None
        BY <4>1, DriveAssumption
      <4>3. QED  BY <1>3, <1>8, <2>1, <4>1, <4>2 DEF FlagIsRight
    <3>3. QED  BY <2>1, <2>3, <3>1, <3>2
  <2>4. DriveType'
    BY <1>1, <1>3, <1>6, <1>8, <2>1, <2>2 DEF DriveType, IsThere
  <2>5. GoneIsReported(solid', items', plugged')
    BY <1>1, <1>3, <1>4, <1>8 DEF GoneIsReported, IsThere
  <2>6. \A v \in {saved', selected'} \ {None} : Holds(items', v)
    BY <1>1, <1>2, <1>3, <1>8, <2>1
  <2>7. QED  BY <1>1, <1>3, <1>8, <2>3, <2>4, <2>5, <2>6 DEF DriveInv
<1>11. QED  BY <1>9, <1>10

\* What is selected anew is held to be accessible only if it is.
LEMMA SelectionUpdated ==
  ASSUME DriveInv, NEW v \in Volumes \cup {None}, UpdateSelection(v, items)
  PROVE  /\ selected' = v /\ accessible' \in BOOLEAN
         /\ accessible' => v # None /\ Shows(items, v) /\ v \in mounted
<1>1. items \in Seq(Row) /\ mounted \subseteq Volumes
  BY DEF DriveInv, DriveType
<1>2. /\ selected' = v
      /\ accessible' = \E i \in 1 .. Len(items) : items[i].uuid = v /\ items[i].udi \in mounted
  BY <1>1, RowsAre DEF UpdateSelection
<1>3. ASSUME NEW i \in 1 .. Len(items), items[i].uuid = v, items[i].udi \in mounted
      PROVE  v # None /\ Shows(items, v) /\ v \in mounted
  <2>1. items[i].uuid \in Volumes /\ items[i].udi \in {items[i].uuid, None}
    BY <1>1, RowsAre
  <2>2. items[i].udi = v /\ v # None
    BY <1>1, <1>3, <2>1, DriveAssumption
  <2>3. QED  BY <1>3, <2>2 DEF Shows
<1>4. QED  BY <1>2, <1>3

\* Qt's choice of a neighbour for the row removed.
LEMMA RemoveRowSelects ==
  ASSUME DriveInv, NEW i \in 1 .. Len(items), RemoveRow(i)
  PROVE  LET v == items[i].uuid
         IN  /\ Dropped(items', items, v)
             /\ current' \in Volumes \cup {None} /\ selected' \in Volumes \cup {None}
             /\ accessible' \in BOOLEAN
             /\ \/ selected' = selected /\ accessible' = accessible /\ selected # v
                \/ /\ selected' # None => selected' # v /\ Holds(items, selected')
                   /\ accessible' => /\ selected' # None /\ Shows(items, selected')
                                     /\ selected' \in mounted
<1> DEFINE v == items[i].uuid
           j == IF i < Len(items) THEN i + 1 ELSE i - 1
           w == items[j].uuid
<1>1. /\ items \in Seq(Row) /\ Distinct(items)
      /\ current \in Volumes \cup {None} /\ selected \in Volumes \cup {None}
      /\ accessible \in BOOLEAN
  BY DEF DriveInv, DriveType
<1>2. Len(items) \in Nat /\ \A k \in 1 .. Len(items) : items[k].uuid \in Volumes
  BY <1>1, RowsAre
<1>3. Dropped(items', items, v)
  <2>1. items' = RemoveAt(items, i)
    BY DEF RemoveRow
  <2>2. QED  BY <1>1, <2>1, RowRemoved
<1>4. w = IF i < Len(items) THEN items[i + 1].uuid ELSE items[i - 1].uuid
  OBVIOUS
<1>5. CASE current = v /\ Len(items) > 1
  <2>1. j \in 1 .. Len(items) /\ j # i
    BY <1>2, <1>5
  <2> HIDE DEF j
  <2>2. w \in Volumes /\ w # v /\ Holds(items, w)
    BY <1>1, <1>2, <2>1 DEF Distinct, Holds
  <2>3. current' = w /\ UpdateSelection(w, items)
    BY <1>4, <1>5 DEF RemoveRow
  <2> HIDE DEF w
  <2>4. /\ selected' = w /\ accessible' \in BOOLEAN
        /\ accessible' => w # None /\ Shows(items, w) /\ w \in mounted
    BY <2>2, <2>3, SelectionUpdated
  <2>5. QED  BY <1>3, <2>2, <2>3, <2>4
<1>6. CASE /\ ~(current = v /\ Len(items) > 1)
           /\ \/ current = v /\ Len(items) = 1
              \/ current # v /\ selected = v
  <2>1. current' \in {None, current} /\ UpdateSelection(None, items)
    <3>1. CASE current = v /\ Len(items) = 1
      BY <1>6, <3>1 DEF RemoveRow
    <3>2. CASE current # v /\ selected = v
      BY <1>6, <3>2 DEF RemoveRow
    <3>3. QED  BY <1>6, <3>1, <3>2
  <2>2. /\ selected' = None /\ accessible' \in BOOLEAN
        /\ accessible' => None # None
    BY <2>1, SelectionUpdated
  <2>3. QED  BY <1>1, <1>3, <2>1, <2>2
<1>7. CASE /\ ~(current = v /\ Len(items) > 1) /\ ~(current = v /\ Len(items) = 1)
           /\ ~(current # v /\ selected = v)
  <2>1. current' = current /\ selected' = selected /\ accessible' = accessible
    BY <1>7 DEF RemoveRow
  <2>2. Len(items) > 1 \/ Len(items) = 1
    BY <1>2
  <2>3. current # v
    BY <1>7, <2>2
  <2>4. QED  BY <1>1, <1>3, <1>7, <2>1, <2>3
<1>8. QED  BY <1>5, <1>6, <1>7

LEMMA DeviceRemovedKeeps ==
  ASSUME DriveInv, DeviceRemoved
  PROVE  DriveInv'
<1>1. /\ DriveType /\ Distinct(items) /\ \A v \in {saved, selected} \ {None} : Holds(items, v)
      /\ GoneIsReported(solid, items, plugged)
      /\ accessible => FlagIsRight(solid, items, mounted, selected)
  BY DEF DriveInv
<1> DEFINE v == Head(solid).of
<1>2. /\ NextIs("removed")
      /\ \/ WithUdi(v) = {} /\ UNCHANGED widget
         \/ \E i \in WithUdi(v) :
              \/ /\ v = saved
                 /\ items' = [items EXCEPT ![i].udi = None]
                 /\ accessible' = (accessible /\ selected # v)
                 /\ UNCHANGED <<selected, current>>
              \/ v # saved /\ RemoveRow(i)
      /\ plugged' = plugged /\ mounted' = mounted /\ toAdd' = toAdd /\ saved' = saved
  BY DEF DeviceRemoved, hardware
<1>3. /\ solid' \in Seq(SolidSignal) /\ Head(solid) \in SolidSignal
      /\ Head(solid).kind = "removed" /\ LossIsReported(solid', mounted)
      /\ \A x : Reported(solid, {"removed"}, x, 0) => v = x \/ Reported(solid', {"removed"}, x, 0)
      /\ \A x : Reported(solid, Losses, x, 0) => v = x \/ Reported(solid', Losses, x, 0)
  BY <1>2, SignalTaken
<1>4. v \in Volumes /\ v # None
  BY <1>3, DriveAssumption DEF SolidSignal
<1> HIDE DEF v
<1>5. /\ items \in Seq(Row) /\ accessible \in BOOLEAN
      /\ selected \in Volumes \cup {None} /\ saved \in Volumes \cup {None}
  BY <1>1 DEF DriveType
<1>6. \* What is enough of the list and the selection.
      ASSUME /\ items' \in Seq(Row) /\ Distinct(items')
             /\ \A x \in Volumes : Shows(items', x) => Shows(items, x) /\ x # v
             /\ current' \in Volumes \cup {None} /\ selected' \in Volumes \cup {None}
             /\ accessible' \in BOOLEAN
             /\ \A x \in {saved', selected'} \ {None} : Holds(items', x)
             /\ accessible' => /\ selected' # None /\ Shows(items', selected')
                               /\ selected' \in mounted \/ Reported(solid, Losses, selected', 0)
      PROVE  DriveInv'
  <2>1. DriveType'
    BY <1>1, <1>2, <1>3, <1>6 DEF DriveType, IsThere
  <2>2. GoneIsReported(solid', items', plugged')
    BY <1>1, <1>2, <1>3, <1>6 DEF GoneIsReported
  <2>3. accessible' => FlagIsRight(solid', items', mounted', selected')
    <3>1. SUFFICES ASSUME accessible'
                   PROVE  FlagIsRight(solid', items', mounted', selected')
      OBVIOUS
    <3>2. /\ selected' # None /\ Shows(items', selected') /\ selected' # v
      BY <1>6, <3>1
    <3>3. selected' \in mounted \/ Reported(solid', Losses, selected', 0)
      BY <1>3, <1>6, <3>1, <3>2
    <3>4. QED  BY <1>2, <3>2, <3>3 DEF FlagIsRight
  <2>4. QED  BY <1>2, <1>3, <1>6, <2>1, <2>2, <2>3 DEF DriveInv
<1>7. CASE WithUdi(v) = {} /\ UNCHANGED widget
  <2>1. /\ items' = items /\ selected' = selected /\ current' = current
        /\ accessible' = accessible
    BY <1>7 DEF widget
  <2>2. ~Shows(items, v)
    BY <1>4, <1>5, <1>7, FoundByUdi
  <2>3. current \in Volumes \cup {None}
    BY <1>1 DEF DriveType
  <2>4. accessible' => /\ selected' # None /\ Shows(items', selected')
                       /\ selected' \in mounted \/ Reported(solid, Losses, selected', 0)
    BY <1>1, <2>1 DEF FlagIsRight
  <2>5. QED  BY <1>1, <1>2, <1>5, <1>6, <2>1, <2>2, <2>3, <2>4
<1>8. ASSUME NEW i \in WithUdi(v), v = saved,
             items' = [items EXCEPT ![i].udi = None],
             accessible' = (accessible /\ selected # v), UNCHANGED <<selected, current>>
      PROVE  DriveInv'
  <2>1. i \in 1 .. Len(items) /\ items[i].uuid = v
    BY <1>4, <1>5, <1>8, RowsAre DEF WithUdi
  <2>2. Disconnected(items', items, v)
    BY <1>1, <1>5, <1>8, <2>1, RowDisconnected
  <2>3. /\ items' \in Seq(Row) /\ Distinct(items')
        /\ \A x \in Volumes : Holds(items', x) <=> Holds(items, x)
        /\ \A x \in Volumes : Shows(items', x) <=> Shows(items, x) /\ x # v
    BY <2>2 DEF Disconnected
  <2>4. current' \in Volumes \cup {None} /\ selected' = selected /\ accessible' \in BOOLEAN
    BY <1>1, <1>8 DEF DriveType
  <2>5. accessible' => /\ selected' # None /\ Shows(items', selected')
                       /\ selected' \in mounted \/ Reported(solid, Losses, selected', 0)
    <3>1. SUFFICES ASSUME accessible'
                   PROVE  /\ selected # None /\ Shows(items', selected)
                          /\ selected \in mounted \/ Reported(solid, Losses, selected, 0)
      BY <2>4
    <3>2. accessible /\ selected # v
      BY <1>8, <3>1
    <3>3. FlagIsRight(solid, items, mounted, selected)
      BY <1>1, <3>2
    <3>4. QED  BY <1>5, <2>3, <3>2, <3>3 DEF FlagIsRight
  <2>6. \A x \in {saved', selected'} \ {None} : Holds(items', x)
    BY <1>1, <1>2, <1>5, <2>3, <2>4
  <2>7. QED  BY <1>5, <1>6, <2>3, <2>4, <2>5, <2>6
<1>9. ASSUME NEW i \in WithUdi(v), v # saved, RemoveRow(i)
      PROVE  DriveInv'
  <2>1. i \in 1 .. Len(items) /\ items[i].uuid = v
    BY <1>4, <1>5, <1>9, RowsAre DEF WithUdi
  <2>2. /\ Dropped(items', items, v)
        /\ current' \in Volumes \cup {None} /\ selected' \in Volumes \cup {None}
        /\ accessible' \in BOOLEAN
        /\ \/ selected' = selected /\ accessible' = accessible /\ selected # v
           \/ /\ selected' # None => selected' # v /\ Holds(items, selected')
              /\ accessible' => /\ selected' # None /\ Shows(items, selected')
                                /\ selected' \in mounted
    BY <1>9, <2>1, RemoveRowSelects
  <2>3. /\ items' \in Seq(Row) /\ Distinct(items')
        /\ \A x \in Volumes : Holds(items', x) <=> Holds(items, x) /\ x # v
        /\ \A x \in Volumes : Shows(items', x) <=> Shows(items, x) /\ x # v
    BY <2>2 DEF Dropped
  <2>4. selected' # None => selected' # v /\ Holds(items, selected')
    BY <1>1, <2>2
  <2>5. \A x \in {saved', selected'} \ {None} : Holds(items', x)
    BY <1>1, <1>2, <1>5, <1>9, <2>2, <2>3, <2>4
  <2>6. accessible' => /\ selected' # None /\ Shows(items', selected')
                       /\ selected' \in mounted \/ Reported(solid, Losses, selected', 0)
    <3>1. CASE selected' = selected /\ accessible' = accessible /\ selected # v
      BY <1>1, <1>5, <2>3, <3>1 DEF FlagIsRight
    <3>2. CASE accessible' => /\ selected' # None /\ Shows(items, selected')
                              /\ selected' \in mounted
      BY <2>2, <2>3, <2>4, <3>2
    <3>3. QED  BY <2>2, <3>1, <3>2
  <2>7. QED  BY <1>6, <2>2, <2>3, <2>5, <2>6
<1>10. QED  BY <1>2, <1>7, <1>8, <1>9

-----------------------------------------------------------------------------
\* What the user and the dialog do leaves the hardware and the list alone.
LEMMA UserKeepsDrives ==
  ASSUME DriveInv, UNCHANGED <<hardware, solid, toAdd, items>>,
         current' \in Volumes \cup {None}, selected' \in Volumes \cup {None},
         saved' \in Volumes \cup {None}, accessible' \in BOOLEAN,
         \A v \in {saved', selected'} \ {None} : Holds(items, v),
         accessible' => FlagIsRight(solid, items, mounted, selected')
  PROVE  DriveInv'
<1>1. /\ DriveType /\ Distinct(items) /\ GoneIsReported(solid, items, plugged)
      /\ LossIsReported(solid, mounted)
  BY DEF DriveInv
<1>2. /\ plugged' = plugged /\ mounted' = mounted /\ solid' = solid /\ toAdd' = toAdd
      /\ items' = items
  BY DEF hardware
<1>3. DriveType'
  BY <1>1, <1>2 DEF DriveType, IsThere
<1>4. QED  BY <1>1, <1>2, <1>3 DEF DriveInv

LEMMA SelectKeeps ==
  ASSUME DriveInv, NEW i, Select(i)
  PROVE  DriveInv'
<1>1. /\ items \in Seq(Row) /\ saved \in Volumes \cup {None}
      /\ \A v \in {saved, selected} \ {None} : Holds(items, v)
  BY DEF DriveInv, DriveType
<1> DEFINE v == items[i].uuid
<1>2. /\ i \in DOMAIN items /\ current' = v /\ UpdateSelection(v, items)
      /\ saved' = saved /\ UNCHANGED <<hardware, solid, toAdd, items>>
  BY DEF Select
<1>3. v \in Volumes /\ Holds(items, v)
  BY <1>1, <1>2, RowsAre DEF Holds
<1> HIDE DEF v
<1>4. /\ selected' = v /\ accessible' \in BOOLEAN
      /\ accessible' => v # None /\ Shows(items, v) /\ v \in mounted
  BY <1>2, <1>3, SelectionUpdated
<1>5. \A x \in {saved', selected'} \ {None} : Holds(items, x)
  BY <1>1, <1>2, <1>3, <1>4
<1>6. accessible' => FlagIsRight(solid, items, mounted, selected')
  BY <1>4 DEF FlagIsRight
<1>7. QED  BY <1>1, <1>2, <1>3, <1>4, <1>5, <1>6, UserKeepsDrives

LEMMA SetSelectedDriveKeeps ==
  ASSUME DriveInv, SetSelectedDrive
  PROVE  DriveInv'
<1>1. /\ saved \in Volumes \cup {None} /\ current \in Volumes \cup {None}
      /\ \A v \in {saved, selected} \ {None} : Holds(items, v)
  BY DEF DriveInv, DriveType
<1>2. /\ UpdateSelection(saved, items) /\ current' \in {current, saved}
      /\ saved' = saved /\ UNCHANGED <<hardware, solid, toAdd, items>>
  BY DEF SetSelectedDrive
<1>3. /\ selected' = saved /\ accessible' \in BOOLEAN
      /\ accessible' => saved # None /\ Shows(items, saved) /\ saved \in mounted
  BY <1>1, <1>2, SelectionUpdated
<1>4. \A x \in {saved', selected'} \ {None} : Holds(items, x)
  BY <1>1, <1>2, <1>3
<1>5. accessible' => FlagIsRight(solid, items, mounted, selected')
  BY <1>3 DEF FlagIsRight
<1>6. QED  BY <1>1, <1>2, <1>3, <1>4, <1>5, UserKeepsDrives

LEMMA SaveKeeps ==
  ASSUME DriveInv, Save
  PROVE  DriveInv'
<1>1. /\ selected \in Volumes \cup {None} /\ current \in Volumes \cup {None}
      /\ accessible \in BOOLEAN
      /\ \A v \in {saved, selected} \ {None} : Holds(items, v)
      /\ accessible => FlagIsRight(solid, items, mounted, selected)
  BY DEF DriveInv, DriveType
<1>2. /\ saved' = selected /\ selected' = selected /\ current' = current
      /\ accessible' = accessible /\ UNCHANGED <<hardware, solid, toAdd, items>>
  BY DEF Save, widget
<1>3. QED  BY <1>1, <1>2, UserKeepsDrives

LEMMA DriveInitFits ==
  ASSUME DriveInit
  PROVE  DriveInv
<1>1. /\ plugged \in SUBSET Drives /\ mounted \in SUBSET {v \in Volumes : IsThere(v)}
      /\ solid = <<>> /\ toAdd \in SetToSeqs(plugged) /\ saved \in Volumes \cup {None}
      /\ items = (IF saved = None THEN <<>> ELSE <<[uuid |-> saved, udi |-> None]>>)
      /\ selected = None /\ current = None /\ accessible = FALSE
  BY DEF DriveInit
<1>2. toAdd \in Seq(Drives)
  <2>1. toAdd \in [1 .. Cardinality(plugged) -> plugged]
    BY <1>1 DEF SetToSeqs
  <2>2. Cardinality(plugged) \in Nat
    BY <1>1, DriveAssumption, FS_CardinalityType, FS_Subset
  <2>3. toAdd \in Seq(plugged)
    BY <2>1, <2>2
  <2>4. QED  BY <1>1, <2>3
<1>3. /\ items \in Seq(Row) /\ Distinct(items)
      /\ saved # None => Holds(items, saved)
      /\ \A v \in Volumes : ~Shows(items, v)
  <2>1. CASE saved = None
    <3>1. items = <<>> /\ Len(items) = 0
      BY <1>1, <2>1
    <3>2. QED  BY <2>1, <3>1 DEF Distinct, Shows
  <2>2. CASE saved # None
    <3> DEFINE row == [uuid |-> saved, udi |-> None]
    <3>1. row \in Row /\ row.uuid = saved /\ row.udi = None
      BY <1>1, <2>2 DEF Row
    <3>2. items = <<row>>
      BY <1>1, <2>2
    <3> HIDE DEF row
    <3>3. items \in Seq(Row) /\ Len(items) = 1 /\ items[1] = row
      BY <3>1, <3>2
    <3>4. Distinct(items) /\ Holds(items, saved)
      BY <3>1, <3>3 DEF Distinct, Holds
    <3>5. \A v \in Volumes : ~Shows(items, v)
      BY <3>1, <3>3, DriveAssumption DEF Shows
    <3>6. QED  BY <3>3, <3>4, <3>5
  <2>3. QED  BY <2>1, <2>2
<1>4. solid \in Seq(SolidSignal) /\ Len(solid) = 0
  BY <1>1
<1>5. DriveType
  BY <1>1, <1>2, <1>3, <1>4 DEF DriveType
<1>6. GoneIsReported(solid, items, plugged) /\ LossIsReported(solid, mounted)
  BY <1>3, <1>4 DEF GoneIsReported, LossIsReported
<1>7. QED  BY <1>1, <1>3, <1>5, <1>6 DEF DriveInv

LEMMA DriveStepKeeps ==
  ASSUME DriveInv, [DriveNext]_driveVars
  PROVE  DriveInv'
<1>1. CASE \E d \in Drives : Plug(d) \/ Unplug(d)
  BY <1>1, PlugKeeps
<1>2. CASE \E v \in Volumes : Mount(v) \/ Unmount(v)
  BY <1>2, MountKeeps
<1>3. CASE DeviceAdded
  BY <1>3, DeviceAddedKeeps
<1>4. CASE DelayedDeviceAdded
  BY <1>4, DelayedDeviceAddedKeeps
<1>5. CASE DeviceRemoved
  BY <1>5, DeviceRemovedKeeps
<1>6. CASE AccessabilityChanged
  BY <1>6, AccessabilityChangedKeeps
<1>7. CASE \E i \in 1 .. Cardinality(Volumes) : Select(i)
  BY <1>7, SelectKeeps
<1>8. CASE SetSelectedDrive
  BY <1>8, SetSelectedDriveKeeps
<1>9. CASE Save
  BY <1>9, SaveKeeps
<1>10. CASE UNCHANGED driveVars
  BY <1>10 DEF driveVars, hardware, widget, DriveInv, DriveType, IsThere
<1>11. QED
  BY <1>1, <1>2, <1>3, <1>4, <1>5, <1>6, <1>7, <1>8, <1>9, <1>10 DEF DriveNext, DriveSlots

\* Whatever the list shows that is not so, Solid is about to correct.
THEOREM DrivesInvariant == DriveSpec => []DriveInv
<1>1. DriveInit => DriveInv
  BY DriveInitFits
<1>2. DriveInv /\ [DriveNext]_driveVars => DriveInv'
  BY DriveStepKeeps
<1>3. QED  BY <1>1, <1>2, PTL DEF DriveSpec

\* DriveSelection offers no drive as accessible, once Solid's signals have arrived, but
\* the one that is selected and mounted: in whatever order drives are plugged in, mounted
\* and pulled out, rows removed and the selection moved by Qt or by the user.
THEOREM NoneElseIsOffered == DriveSpec => []AccessibleIsSelected
<1>1. DriveInv => AccessibleIsSelected
  <2>1. SUFFICES ASSUME DriveInv, solid = <<>>, accessible
                 PROVE  selected # None /\ selected \in mounted
    BY DEF AccessibleIsSelected, Settled
  <2>2. ~Reported(solid, Losses, selected, 0)
    BY <2>1, EmptySeq DEF Reported
  <2>3. QED  BY <2>1, <2>2 DEF DriveInv, FlagIsRight
<1>2. QED  BY <1>1, DrivesInvariant, PTL

\* deviceRemoved() takes neither the drive that the plan was saved with out of the list
\* nor the one that is selected after it.
THEOREM SavedStaysListed == DriveSpec => []SavedIsListed
<1>1. DriveInv => SavedIsListed
  <2>1. SUFFICES ASSUME DriveInv, NEW v \in {saved, selected} \ {None}
                 PROVE  WithUuid(v) # {}
    BY DEF SavedIsListed
  <2>2. items \in Seq(Row) /\ v \in Volumes /\ Holds(items, v)
    BY <2>1 DEF DriveInv, DriveType
  <2>3. QED  BY <2>2, FoundByUdi
<1>2. QED  BY <1>1, DrivesInvariant, PTL

\* The list has one row for a volume, however often its drive comes back, and when
\* Solid's signals have arrived shows none as connected that has gone.
THEOREM ListFollows == DriveSpec => []ListMatches
<1>1. DriveInv => ListMatches
  <2>1. SUFFICES ASSUME DriveInv  PROVE ListMatches
    OBVIOUS
  <2>2. /\ items \in Seq(Row) /\ Distinct(items) /\ GoneIsReported(solid, items, plugged)
    BY <2>1 DEF DriveInv, DriveType
  <2>3. DOMAIN items = 1 .. Len(items)
    BY <2>2, RowsAre
  <2>4. ASSUME solid = <<>>, NEW i \in 1 .. Len(items), items[i].udi # None
        PROVE  IsThere(items[i].udi)
    <3>1. items[i].udi \in Volumes /\ items[i].udi = items[i].uuid
      BY <2>2, <2>4, RowsAre
    <3>2. Shows(items, items[i].udi)
      BY <3>1 DEF Shows
    <3>3. ~Reported(solid, {"removed"}, items[i].udi, 0)
      BY <2>4, EmptySeq DEF Reported
    <3>4. QED  BY <2>2, <3>1, <3>2, <3>3 DEF GoneIsReported, IsThere
  <2>5. QED  BY <2>2, <2>3, <2>4 DEF ListMatches, Distinct, Settled
<1>2. QED  BY <1>1, DrivesInvariant, PTL

=============================================================================
