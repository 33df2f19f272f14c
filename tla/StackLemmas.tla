----------------------------- MODULE StackLemmas -----------------------------
(***************************************************************************)
(* What proofs about stacks of branches need: induction and recursion up a *)
(* tree of parents, and what merge bases and rebases make of revisions.    *)
(*                                                                         *)
(* Induction is over sets: a set of branches that has every branch whose   *)
(* parent it has, has all.  Of a function that is defined by recursion,    *)
(* like the branches below a branch, it is shown first that there is one.  *)
(***************************************************************************)
EXTENDS Revisions, Integers, FiniteSets, TLAPS, WellFoundedInduction, SequenceTheorems

\* A set of numbers has a least one.
LEMMA LeastNumber ==
    ASSUME NEW T, T \subseteq Nat, T # {}
    PROVE  \E n \in T : \A m \in T : n <= m
<1>1. PICK n \in T : \A m \in T : ~(<<m, n>> \in OpToRel(<, Nat))
  BY NatLessThanWellFounded, WFMin
<1>2. \A m \in T : ~(m < n)
  BY <1>1 DEF OpToRel
<1> QED
  BY <1>2

-----------------------------------------------------------------------------
(* Parents.                                                                *)

\* In the order ord of the branches B every branch comes after its parent.
Sorted(par, ord, B, root) ==
    /\ root \notin B /\ par \in [B -> B \cup {root}]
    /\ ord \in Seq(B) /\ \A b \in B : \E i \in 1 .. Len(ord) : ord[i] = b
    /\ \A i \in 1 .. Len(ord) :
          par[ord[i]] = root \/ \E j \in 1 .. Len(ord) : j < i /\ ord[j] = par[ord[i]]

\* Induction up the branches.
LEMMA TreeInduction ==
    ASSUME NEW par, NEW ord, NEW B, NEW root, Sorted(par, ord, B, root), NEW T,
           \A b \in B : par[b] = root \/ par[b] \in T => b \in T
    PROVE  B \subseteq T
<1> DEFINE Bad == {i \in 1 .. Len(ord) : ord[i] \notin T}
<1>1. SUFFICES Bad = {}
  BY DEF Sorted
<1>2. SUFFICES ASSUME Bad # {} PROVE FALSE
  OBVIOUS
<1>3. Len(ord) \in Nat /\ \A i \in 1 .. Len(ord) : ord[i] \in B
  BY LenProperties, ElementOfSeq DEF Sorted
<1>4. Bad \subseteq Nat
  BY <1>3
<1>5. \E i \in Bad : \A j \in Bad : i <= j
  <2> HIDE DEF Bad
  <2> QED
    BY <1>2, <1>4, LeastNumber
<1>6. PICK i \in Bad : \A j \in Bad : i <= j
  BY <1>5
<1>7. i \in 1 .. Len(ord) /\ ord[i] \notin T /\ ord[i] \in B
  BY <1>3
<1>8. \A j \in 1 .. Len(ord) : j < i => ord[j] \in T
  BY <1>3, <1>6, <1>7
<1>9. par[ord[i]] = root \/ par[ord[i]] \in T
  BY <1>7, <1>8 DEF Sorted
<1> QED
  BY <1>7, <1>9

\* What a branch is given, of what its parent was given.
Steps(B, V) == [B -> [V -> V]]

\* The function f gives v to the root and F's values to the branches B.
Recursion(f, par, B, root, V, v, F) ==
    /\ f \in [B \cup {root} -> V]
    /\ f[root] = v /\ \A b \in B : f[b] = F[b][f[par[b]]]

\* Recursion up the branches.
LEMMA TreeRecursion ==
    ASSUME NEW par, NEW ord, NEW B, NEW root, Sorted(par, ord, B, root),
           NEW V, NEW v, v \in V, NEW F, F \in Steps(B, V)
    PROVE  \E f : Recursion(f, par, B, root, V, v, F)
<1> USE DEF Steps
<1> DEFINE N == B \cup {root}
           Upto(f, n) == /\ f[root] = v
                         /\ \A i \in 1 .. n : f[ord[i]] = F[ord[i]][f[par[ord[i]]]]
           Bad == {n \in 0 .. Len(ord) : ~\E f \in [N -> V] : Upto(f, n)}
<1>1. Len(ord) \in Nat /\ \A i \in 1 .. Len(ord) : ord[i] \in B
  BY LenProperties, ElementOfSeq DEF Sorted
<1>2. Bad = {}
  <2> SUFFICES ASSUME Bad # {} PROVE FALSE
    OBVIOUS
  <2>1. Bad \subseteq Nat
    BY <1>1
  <2>2. \E n \in Bad : \A m \in Bad : n <= m
    <3> HIDE DEF Bad
    <3> QED
      BY <2>1, LeastNumber
  <2>3. PICK n \in Bad : \A m \in Bad : n <= m
    BY <2>2
  <2>4. n \in 0 .. Len(ord) /\ ~\E f \in [N -> V] : Upto(f, n)
    BY <2>3
  <2>5. n # 0
    <3>1. [x \in N |-> v] \in [N -> V] /\ Upto([x \in N |-> v], 0)
      OBVIOUS
    <3> QED
      <4> HIDE DEF Upto, N
      <4> QED
        BY <2>4, <3>1
  <2>6. n - 1 \in 0 .. Len(ord) /\ n \in 1 .. Len(ord)
    BY <1>1, <2>4, <2>5
  <2>7. n - 1 \notin Bad
    <3> HIDE DEF Bad
    <3> QED
      BY <1>1, <2>3, <2>6
  <2>8. PICK f \in [N -> V] : Upto(f, n - 1)
    <3> HIDE DEF Upto, N
    <3> QED
      BY <2>6, <2>7
  <2> DEFINE b == ord[n]
  <2>9. b \in B /\ b # root /\ par[b] \in N
    BY <1>1, <2>6 DEF Sorted
  <2>10. CASE \E i \in 1 .. n - 1 : ord[i] = b
    <3>1. \A i \in 1 .. n : i \in 1 .. n - 1 \/ i = n
      BY <2>6
    <3>2. Upto(f, n)
      BY <3>1, <2>8, <2>10
    <3> QED
      <4> HIDE DEF Upto, N
      <4> QED
        BY <2>4, <3>2
  <2>11. CASE \A i \in 1 .. n - 1 : ord[i] # b
    <3> DEFINE g == [f EXCEPT ![b] = F[b][f[par[b]]]]
    <3>1. \A j \in 1 .. Len(ord) : j < n => ord[j] # b
      BY <1>1, <2>6, <2>11
    <3>2. par[b] # b
      BY <3>1, <2>6, <2>9 DEF Sorted
    <3>3. \A i \in 1 .. n - 1 : par[ord[i]] # b
      <4> SUFFICES ASSUME NEW i \in 1 .. n - 1, par[ord[i]] = b PROVE FALSE
        OBVIOUS
      <4>1. i \in 1 .. Len(ord) /\ i < n
        BY <2>6
      <4>2. PICK j \in 1 .. Len(ord) : j < i /\ ord[j] = par[ord[i]]
        BY <4>1, <2>9 DEF Sorted
      <4>3. j < n
        BY <1>1, <2>6, <4>1, <4>2
      <4> QED
        BY <3>1, <4>2, <4>3
    <3>4. F[b][f[par[b]]] \in V
      BY <2>8, <2>9
    <3>5. g \in [N -> V] /\ g[root] = v
      BY <2>8, <2>9, <3>4
    <3>6. g[b] = F[b][g[par[b]]]
      BY <2>8, <2>9, <3>2
    <3>7. \A i \in 1 .. n - 1 : g[ord[i]] = F[ord[i]][g[par[ord[i]]]]
      <4> SUFFICES ASSUME NEW i \in 1 .. n - 1
                   PROVE  g[ord[i]] = F[ord[i]][g[par[ord[i]]]]
        OBVIOUS
      <4>1. i \in 1 .. Len(ord)
        BY <2>6
      <4>2. ord[i] \in N /\ par[ord[i]] \in N /\ ord[i] # b /\ par[ord[i]] # b
        BY <1>1, <4>1, <2>11, <3>3 DEF Sorted
      <4>3. g[ord[i]] = f[ord[i]] /\ g[par[ord[i]]] = f[par[ord[i]]]
        BY <4>2
      <4> QED
        BY <2>8, <4>3
    <3> HIDE DEF g
    <3>8. \A i \in 1 .. n : i \in 1 .. n - 1 \/ i = n
      BY <2>6
    <3>9. Upto(g, n)
      BY <3>5, <3>6, <3>7, <3>8
    <3> QED
      <4> HIDE DEF Upto, N
      <4> QED
        BY <2>4, <3>5, <3>9
  <2> QED
    BY <2>10, <2>11
<1>3. Len(ord) \in 0 .. Len(ord) /\ Len(ord) \notin Bad
  <2> HIDE DEF Bad
  <2> QED
    BY <1>1, <1>2
<1>4. PICK f \in [N -> V] : Upto(f, Len(ord))
  <2> HIDE DEF Upto, N
  <2> QED
    BY <1>3
<1>5. ASSUME NEW b \in B PROVE f[b] = F[b][f[par[b]]]
  <2>1. PICK i \in 1 .. Len(ord) : ord[i] = b
    BY DEF Sorted
  <2> QED
    BY <1>4, <2>1
<1> QED
  BY <1>4, <1>5 DEF Recursion

\* Every branch of B has the root below it: a set that a branch is in when its
\* parent is in it, or is the root, has every branch.
Tree(par, B, root) ==
    /\ root \notin B /\ par \in [B -> B \cup {root}]
    /\ \A T \in SUBSET B : (\A b \in B : par[b] \in T \cup {root} => b \in T) => T = B

\* Recursion up the branches, with no order of them at hand.
LEMMA RootRecursion ==
    ASSUME NEW par, NEW B, NEW root, Tree(par, B, root),
           NEW V, NEW v, v \in V, NEW F, F \in Steps(B, V)
    PROVE  \E f : Recursion(f, par, B, root, V, v, F)
<1> USE DEF Steps
<1> DEFINE N == B \cup {root}
           Partial(D, f) == /\ D \subseteq B /\ \A b \in D : par[b] \in D \cup {root}
                            /\ f \in [N -> V] /\ f[root] = v
                            /\ \A b \in D : f[b] = F[b][f[par[b]]]
           Has(b, f) == \E D \in SUBSET B : b \in D /\ Partial(D, f)
           T == {b \in B : \E f \in [N -> V] : Has(b, f)}
<1>1. root \notin B /\ par \in [B -> N]
  BY DEF Tree
<1>2. ASSUME NEW D, NEW f, Partial(D, f), NEW E, NEW g, Partial(E, g), NEW x \in D \cap E
      PROVE  f[x] = g[x]
  <2> DEFINE A == {b \in B : b \in D \cap E => f[b] = g[b]}
  <2>1. ASSUME NEW b \in B, par[b] \in A \cup {root} PROVE b \in A
    <3>1. CASE b \in D \cap E
      <4>1. f[par[b]] = g[par[b]]
        BY <1>1, <1>2, <2>1, <3>1
      <4> QED
        BY <1>2, <3>1, <4>1
    <3> QED
      BY <3>1
  <2>2. A \in SUBSET B
    OBVIOUS
  <2>3. A = B
    <3> HIDE DEF A
    <3> QED
      BY <2>1, <2>2 DEF Tree
  <2> QED
    BY <1>2, <2>3
<1>3. ASSUME NEW b \in B, par[b] \in T \cup {root} PROVE b \in T
  <2>1. PICK D \in SUBSET B, f \in [N -> V] : Partial(D, f) /\ par[b] \in D \cup {root}
    <3>1. CASE par[b] = root
      <4>1. Partial({}, [x \in N |-> v])
        OBVIOUS
      <4> QED
        <5> HIDE DEF Partial, N
        <5> QED
          BY <3>1, <4>1
    <3>2. CASE par[b] \in T
      BY <3>2
    <3> QED
      BY <1>3, <3>1, <3>2
  <2>2. CASE b \in D
    BY <2>1, <2>2
  <2>3. CASE b \notin D
    <3> DEFINE g == [f EXCEPT ![b] = F[b][f[par[b]]]]
    <3>1. par[b] \in N /\ b # root /\ F[b][f[par[b]]] \in V
      BY <1>1, <2>1
    <3>2. g \in [N -> V] /\ \A x \in N : x # b => g[x] = f[x]
      BY <3>1
    <3>3. g[b] = F[b][f[par[b]]] /\ par[b] # b
      BY <1>1, <2>1, <2>3, <3>1
    <3>4. \A x \in D : x # b /\ par[x] # b /\ par[x] \in N /\ x \in N
      BY <1>1, <2>1, <2>3
    <3> HIDE DEF g
    <3>5. g[root] = v /\ g[par[b]] = f[par[b]]
      BY <2>1, <3>1, <3>2, <3>3
    <3>6. \A x \in D : g[x] = F[x][g[par[x]]]
      BY <2>1, <3>2, <3>4
    <3>7. Partial(D \cup {b}, g)
      BY <2>1, <3>2, <3>3, <3>5, <3>6
    <3> QED
      <4> HIDE DEF Partial, N
      <4> QED
        BY <3>2, <3>7
  <2> QED
    BY <2>2, <2>3
<1>4. T = B
  <2>1. T \in SUBSET B
    OBVIOUS
  <2> HIDE DEF T
  <2> QED
    BY <1>3, <2>1 DEF Tree
<1> DEFINE pick == [b \in B |-> CHOOSE f \in [N -> V] : Has(b, f)]
           h == [x \in N |-> IF x = root THEN v ELSE pick[x][x]]
<1>5. ASSUME NEW b \in B PROVE pick[b] \in [N -> V] /\ Has(b, pick[b])
  <2>1. \E f \in [N -> V] : Has(b, f)
    BY <1>4
  <2> HIDE DEF Has, N
  <2> QED
    BY <2>1
<1> HIDE DEF pick
<1>6. h \in [N -> V] /\ h[root] = v /\ \A b \in B : h[b] = pick[b][b]
  BY <1>1, <1>5
<1> HIDE DEF h
<1>7. ASSUME NEW b \in B PROVE h[b] = F[b][h[par[b]]]
  <2>1. PICK D \in SUBSET B : b \in D /\ Partial(D, pick[b])
    BY <1>5
  <2>2. pick[b][b] = F[b][pick[b][par[b]]]
    BY <2>1
  <2>3. pick[b][par[b]] = h[par[b]]
    <3>1. CASE par[b] = root
      BY <1>6, <2>1, <3>1
    <3>2. CASE par[b] # root
      <4>1. par[b] \in D /\ par[b] \in B
        BY <2>1, <3>2
      <4>2. PICK E \in SUBSET B : par[b] \in E /\ Partial(E, pick[par[b]])
        BY <1>5, <4>1
      <4>3. pick[b][par[b]] = pick[par[b]][par[b]]
        <5> HIDE DEF Partial
        <5> QED
          BY <1>2, <2>1, <4>1, <4>2
      <4> QED
        BY <1>6, <4>1, <4>3
    <3> QED
      BY <3>1, <3>2
  <2> QED
    BY <1>6, <2>2, <2>3
<1> QED
  BY <1>6, <1>7 DEF Recursion

-----------------------------------------------------------------------------
(* Revisions.                                                              *)

\* Of every branch, it and the branches below it.
Beneath(par, B, root) ==
    LET up[x \in B \cup {root}] == IF x = root THEN {} ELSE {x} \cup up[par[x]] IN up

\* What is below a branch that is below another is below that one too; and no
\* branch is below its parent.
LEMMA BeneathIs ==
    ASSUME NEW par, NEW B, NEW root, Tree(par, B, root)
    PROVE  LET up == Beneath(par, B, root)
           IN /\ up[root] = {} /\ \A b \in B : up[b] = {b} \cup up[par[b]]
              /\ \A x \in B \cup {root} : /\ up[x] \subseteq B
                                         /\ \A c \in up[x] : up[c] \subseteq up[x]
              /\ \A b \in B : b \notin up[par[b]]
<1> DEFINE F == [b \in B |-> [s \in SUBSET B |-> {b} \cup s]]
           IsUp(u) == u = [x \in B \cup {root} |-> IF x = root THEN {} ELSE {x} \cup u[par[x]]]
           up == CHOOSE u : IsUp(u)
           S == {b \in B : up[b] \subseteq B}
           T == {b \in B : \A c \in up[b] : up[c] \subseteq up[b]}
           A == {b \in B : b \notin up[par[b]]}
<1>1. root \notin B /\ par \in [B -> B \cup {root}]
  BY DEF Tree
<1>2. F \in Steps(B, SUBSET B) /\ {} \in SUBSET B
  BY DEF Steps
<1>3. \A b \in B, s \in SUBSET B : F[b][s] = {b} \cup s
  OBVIOUS
<1> HIDE DEF F
<1>4. PICK f : Recursion(f, par, B, root, SUBSET B, {}, F)
  BY <1>2, RootRecursion
<1>5. /\ f \in [B \cup {root} -> SUBSET B] /\ f[root] = {}
      /\ \A b \in B : f[b] = {b} \cup f[par[b]]
  BY <1>1, <1>3, <1>4 DEF Recursion
<1>6. IsUp(f)
  BY <1>1, <1>5
<1>7. IsUp(up)
  <2> HIDE DEF IsUp
  <2> QED
    BY <1>6
<1>8. Beneath(par, B, root) = up
  BY DEF Beneath
<1> HIDE DEF up
<1>9. up[root] = {} /\ \A b \in B : up[b] = {b} \cup up[par[b]]
  BY <1>1, <1>7
<1>10. \A b \in B : par[b] \in S \cup {root} => b \in S
  BY <1>9
<1>11. S = B
  <2>1. S \in SUBSET B
    OBVIOUS
  <2> HIDE DEF S
  <2> QED
    BY <1>10, <2>1 DEF Tree
<1>12. \A b \in B : par[b] \in T \cup {root} => b \in T
  BY <1>9
<1>13. T = B
  <2>1. T \in SUBSET B
    OBVIOUS
  <2> HIDE DEF T
  <2> QED
    BY <1>12, <2>1 DEF Tree
<1>14. \A x \in B \cup {root} : up[x] \subseteq B /\ \A c \in up[x] : up[c] \subseteq up[x]
  BY <1>9, <1>11, <1>13
<1>15. ASSUME NEW b \in B, par[b] \in A \cup {root} PROVE b \in A
  <2>1. CASE par[b] = root
    BY <1>9, <2>1
  <2>2. CASE par[b] \in A
    <3> SUFFICES ASSUME b \in up[par[b]] PROVE FALSE
      OBVIOUS
    <3>1. par[b] \in B /\ par[b] \notin up[par[par[b]]] /\ par[par[b]] \in B \cup {root}
      BY <1>1, <2>2
    <3>2. up[par[b]] = {par[b]} \cup up[par[par[b]]]
      BY <1>9, <3>1
    <3>3. par[b] \in up[b]
      BY <1>9, <3>2
    <3>4. b = par[b] \/ b \in up[par[par[b]]]
      BY <3>2
    <3> QED
      BY <1>14, <3>1, <3>3, <3>4
  <2> QED
    BY <1>15, <2>1, <2>2
<1>16. A = B
  <2>1. A \in SUBSET B
    OBVIOUS
  <2> HIDE DEF A
  <2> QED
    BY <1>15, <2>1 DEF Tree
<1> QED
  BY <1>8, <1>9, <1>14, <1>16

\* Numbers in their order are a tree of their own.
LEMMA Interval ==
    ASSUME NEW m \in Nat, NEW n \in Nat, m <= n
    PROVE  Sorted([i \in m + 1 .. n |-> i - 1], [k \in 1 .. n - m |-> m + k], m + 1 .. n, m)
<1> DEFINE I == m + 1 .. n
           ord == [k \in 1 .. n - m |-> m + k]
           par == [i \in I |-> i - 1]
<1>1. ord \in Seq(I) /\ Len(ord) = n - m
  <2>1. ord \in [1 .. n - m -> I] /\ n - m \in Nat
    OBVIOUS
  <2> HIDE DEF ord, I
  <2> QED
    BY <2>1, SeqDef
<1>2. par \in [I -> I \cup {m}] /\ m \notin I
  OBVIOUS
<1>3. \A i \in 1 .. n - m : ord[i] = m + i /\ par[ord[i]] = m + i - 1
  OBVIOUS
<1>4. \A b \in I : b - m \in 1 .. n - m /\ ord[b - m] = b
  OBVIOUS
<1>5. ASSUME NEW i \in 1 .. n - m, par[ord[i]] # m
      PROVE  \E j \in 1 .. n - m : j < i /\ ord[j] = par[ord[i]]
  <2>1. i - 1 \in 1 .. n - m /\ i - 1 < i /\ ord[i - 1] = m + (i - 1)
    BY <1>3, <1>5
  <2> QED
    BY <1>3, <2>1
<1> HIDE DEF I, ord, par
<1>6. Sorted(par, ord, I, m)
  BY <1>1, <1>2, <1>4, <1>5 DEF Sorted
<1> QED
  BY <1>6 DEF I, ord, par

\* A commit adds its patch.
LEMMA AppendSet ==
    ASSUME NEW S, NEW r \in Seq(S), NEW p \in S
    PROVE  ToSet(Append(r, p)) = ToSet(r) \cup {p}
<1>1. Len(r) \in Nat /\ DOMAIN r = 1 .. Len(r) /\ DOMAIN Append(r, p) = 1 .. Len(r) + 1
  BY LenProperties, AppendProperties
<1>2. \A i \in 1 .. Len(r) : Append(r, p)[i] = r[i]
  BY AppendProperties
<1>3. Append(r, p)[Len(r) + 1] = p
  BY AppendProperties
<1> QED
  BY <1>1, <1>2, <1>3 DEF ToSet


\* An ancestor, patch by patch.
LEMMA AncestorElements ==
    ASSUME NEW S, NEW r \in Seq(S), NEW s \in Seq(S)
    PROVE  IsAncestor(r, s) <=> Len(r) <= Len(s) /\ \A i \in 1 .. Len(r) : r[i] = s[i]
<1>1. Len(r) \in Nat /\ Len(s) \in Nat
  BY LenProperties
<1>2. (\A i \in 1 .. Len(r) : r[i] \in S) /\ \A i \in 1 .. Len(s) : s[i] \in S
  BY ElementOfSeq
<1>3. SubSeq(r, 1, Len(r)) = r
  <2>1. /\ SubSeq(r, 1, Len(r)) \in Seq(S) /\ Len(SubSeq(r, 1, Len(r))) = Len(r)
        /\ \A i \in 1 .. Len(r) : SubSeq(r, 1, Len(r))[i] = r[i]
    BY <1>1, <1>2, SubSeqProperties
  <2> QED
    BY <2>1, SeqEqual
<1>4. ASSUME Len(r) <= Len(s)
      PROVE  /\ SubSeq(s, 1, Len(r)) \in Seq(S) /\ Len(SubSeq(s, 1, Len(r))) = Len(r)
             /\ \A i \in 1 .. Len(r) : SubSeq(s, 1, Len(r))[i] = s[i]
  BY <1>1, <1>2, <1>4, SubSeqProperties
<1>5. ASSUME IsAncestor(r, s)
      PROVE  Len(r) <= Len(s) /\ \A i \in 1 .. Len(r) : r[i] = s[i]
  BY <1>3, <1>4, <1>5 DEF IsAncestor, IsPrefix
<1>6. ASSUME Len(r) <= Len(s), \A i \in 1 .. Len(r) : r[i] = s[i]
      PROVE  IsAncestor(r, s)
  <2>1. SubSeq(s, 1, Len(r)) = r
    BY <1>4, <1>6, SeqEqual
  <2> QED
    BY <1>3, <1>6, <2>1 DEF IsAncestor, IsPrefix
<1> QED
  BY <1>5, <1>6

LEMMA AncestorSelf ==
    ASSUME NEW S, NEW r \in Seq(S)
    PROVE  IsAncestor(r, r)
BY LenProperties, AncestorElements

LEMMA AncestorOfAncestor ==
    ASSUME NEW S, NEW q \in Seq(S), NEW r \in Seq(S), NEW s \in Seq(S),
           IsAncestor(q, r), IsAncestor(r, s)
    PROVE  IsAncestor(q, s)
<1>1. Len(q) \in Nat /\ Len(r) \in Nat /\ Len(s) \in Nat
  BY LenProperties
<1>2. /\ Len(q) <= Len(r) /\ \A i \in 1 .. Len(q) : q[i] = r[i]
      /\ Len(r) <= Len(s) /\ \A i \in 1 .. Len(r) : r[i] = s[i]
  BY AncestorElements
<1>3. Len(q) <= Len(s) /\ \A i \in 1 .. Len(q) : i \in 1 .. Len(r)
  BY <1>1, <1>2
<1> QED
  BY <1>2, <1>3, AncestorElements

\* Of two ancestors the shorter one is an ancestor of the other.
LEMMA AncestorsCompare ==
    ASSUME NEW S, NEW q \in Seq(S), NEW r \in Seq(S), NEW s \in Seq(S),
           IsAncestor(q, s), IsAncestor(r, s), Len(q) <= Len(r)
    PROVE  IsAncestor(q, r)
<1>1. Len(q) \in Nat /\ Len(r) \in Nat /\ Len(s) \in Nat
  BY LenProperties
<1>2. (\A i \in 1 .. Len(q) : q[i] = s[i]) /\ \A i \in 1 .. Len(r) : r[i] = s[i]
  BY AncestorElements
<1>3. \A i \in 1 .. Len(q) : i \in 1 .. Len(r)
  BY <1>1
<1> QED
  BY <1>2, <1>3, AncestorElements

\* An ancestor that is not shorter is the revision itself.
LEMMA AncestorEqual ==
    ASSUME NEW S, NEW r \in Seq(S), NEW s \in Seq(S), IsAncestor(r, s), Len(s) <= Len(r)
    PROVE  r = s
<1>1. Len(r) \in Nat /\ Len(s) \in Nat
  BY LenProperties
<1>2. Len(r) = Len(s) /\ \A i \in 1 .. Len(r) : r[i] = s[i]
  BY <1>1, AncestorElements
<1> QED
  BY <1>2, SeqEqual

\* ... and extends the revision it is made on.
LEMMA AppendExtends ==
    ASSUME NEW S, NEW q \in Seq(S), NEW r \in Seq(S), NEW p \in S, IsAncestor(q, r)
    PROVE  IsAncestor(q, Append(r, p))
<1>1. Len(q) \in Nat /\ Len(r) \in Nat /\ Len(Append(r, p)) = Len(r) + 1 /\ Len(q) <= Len(r)
  BY LenProperties, AppendProperties DEF IsAncestor, IsPrefix
<1>2. \A i \in 1 .. Len(q) : r[i] \in S /\ Append(r, p)[i] = r[i]
  BY <1>1, ElementOfSeq, AppendProperties
<1>3. /\ SubSeq(r, 1, Len(q)) \in Seq(S) /\ SubSeq(Append(r, p), 1, Len(q)) \in Seq(S)
      /\ Len(SubSeq(r, 1, Len(q))) = Len(q) /\ Len(SubSeq(Append(r, p), 1, Len(q))) = Len(q)
      /\ \A i \in 1 .. Len(q) : SubSeq(r, 1, Len(q))[i] = SubSeq(Append(r, p), 1, Len(q))[i]
  BY <1>1, <1>2, SubSeqProperties
<1>4. SubSeq(r, 1, Len(q)) = SubSeq(Append(r, p), 1, Len(q))
  BY <1>3, SeqEqual
<1> QED
  BY <1>1, <1>4 DEF IsAncestor, IsPrefix

\* The patches of a revision above the first n.
Above(r, n) == {r[j] : j \in n + 1 .. Len(r)}

\* A commit adds no more above than its patch.
LEMMA AppendAbove ==
    ASSUME NEW S, NEW r \in Seq(S), NEW p \in S, NEW n \in Nat
    PROVE  Above(Append(r, p), n) \subseteq Above(r, n) \cup {p}
<1>1. Len(r) \in Nat /\ Len(Append(r, p)) = Len(r) + 1
  BY LenProperties, AppendProperties
<1>2. (\A i \in 1 .. Len(r) : Append(r, p)[i] = r[i]) /\ Append(r, p)[Len(r) + 1] = p
  BY AppendProperties
<1>3. ASSUME NEW i \in n + 1 .. Len(r) + 1
      PROVE  i = Len(r) + 1 \/ (i \in 1 .. Len(r) /\ i \in n + 1 .. Len(r))
  BY <1>1
<1> QED
  BY <1>1, <1>2, <1>3 DEF Above

\* What a branch is made on is a part of it.
LEMMA AncestorSet ==
    ASSUME NEW S, NEW r \in Seq(S), NEW s \in Seq(S), IsAncestor(r, s)
    PROVE  ToSet(r) \subseteq ToSet(s)
<1>1. /\ Len(r) \in Nat /\ Len(s) \in Nat /\ Len(r) <= Len(s)
      /\ DOMAIN r = 1 .. Len(r) /\ DOMAIN s = 1 .. Len(s) /\ r = SubSeq(s, 1, Len(r))
  BY LenProperties DEF IsAncestor, IsPrefix
<1>2. \A i \in 1 .. Len(r) : s[i] \in S
  BY <1>1, ElementOfSeq
<1>3. \A i \in 1 .. Len(r) : SubSeq(s, 1, Len(r))[i] = s[i]
  BY <1>1, <1>2, SubSeqProperties
<1> QED
  BY <1>1, <1>3 DEF ToSet

LEMMA FrontSet ==
    ASSUME NEW S, NEW r \in Seq(S)
    PROVE  /\ ToSet(Front(r)) \subseteq ToSet(r)
           /\ r # <<>> => ToSet(r) \subseteq ToSet(Front(r)) \cup {Last(r)}
<1> DEFINE n == Len(r) - 1
           f == Front(r)
<1>1. /\ Len(r) \in Nat /\ n \in Int /\ n <= Len(r) /\ DOMAIN r = 1 .. Len(r)
      /\ \A i \in 1 .. n : r[i] \in S
  BY LenProperties, ElementOfSeq
<1>2. f = SubSeq(r, 1, n)
  BY DEF Front
<1> HIDE DEF n, f
<1>3. /\ f \in Seq(S) /\ Len(f) = (IF 1 <= n THEN n - 1 + 1 ELSE 0)
      /\ \A i \in 1 .. n - 1 + 1 : f[i] = r[1 + i - 1]
  BY <1>1, <1>2, SubSeqProperties
<1>4. Len(f) = (IF 1 <= n THEN n ELSE 0) /\ \A i \in 1 .. n : f[i] = r[i]
  BY <1>1, <1>3
<1>5. DOMAIN f = 1 .. Len(f)
  BY <1>3, LenProperties
<1>6. 1 .. Len(f) = 1 .. n
  BY <1>1, <1>4
<1>7. ToSet(f) \subseteq ToSet(r)
  BY <1>1, <1>4, <1>5, <1>6 DEF ToSet
<1>8. ASSUME NEW i \in 1 .. Len(r), i # Len(r) PROVE i \in 1 .. n
  <2>1. Len(r) \in Nat /\ n = Len(r) - 1
    BY <1>1 DEF n
  <2> QED
    BY <1>8, <2>1
<1>9. ToSet(r) \subseteq ToSet(f) \cup {Last(r)}
  BY <1>1, <1>4, <1>5, <1>6, <1>8 DEF ToSet, Last
<1> QED
  BY <1>7, <1>9 DEF f

\* What a rebase makes: a revision that begins with the new base, and that has
\* the patches of both, but for those that were left below or are there already.
LEMMA PickedIs ==
    ASSUME NEW S, NEW D, NEW onto \in Seq(S), NEW from \in Seq(S), NEW n \in 0 .. Len(from)
    PROVE  /\ Picked(onto, D, from, n) \in Seq(S)
           /\ IsAncestor(onto, Picked(onto, D, from, n))
           /\ ToSet(Picked(onto, D, from, n)) = ToSet(onto) \cup (Above(from, n) \ D)
           /\ Above(Picked(onto, D, from, n), Len(onto)) \subseteq Above(from, n)
<1> DEFINE L == Len(from)
           I == n + 1 .. L
           par == [i \in I |-> i - 1]
           ord == [k \in 1 .. L - n |-> n + k]
           F == [i \in I |-> [q \in Seq(S) |-> IF from[i] \in D THEN q ELSE Append(q, from[i])]]
           Picks(u) == u = [i \in n .. L |->
                              IF i = n THEN onto
                              ELSE IF from[i] \in D THEN u[i - 1] ELSE Append(u[i - 1], from[i])]
           up == CHOOSE u : Picks(u)
<1>1. L \in Nat /\ n \in Nat /\ n <= L /\ \A i \in I : from[i] \in S
  BY LenProperties, ElementOfSeq
<1>2. I \cup {n} = n .. L /\ n \notin I /\ \A i \in I : i - 1 \in n .. L
  BY <1>1
<1>3. Sorted(par, ord, I, n)
  BY <1>1, Interval
<1>4. F \in Steps(I, Seq(S))
  BY <1>1 DEF Steps
<1>5. \A i \in I, q \in Seq(S) : F[i][q] = IF from[i] \in D THEN q ELSE Append(q, from[i])
  OBVIOUS
<1>6. \A i \in I : par[i] = i - 1
  OBVIOUS
<1> HIDE DEF I, F, par, ord
<1>7. \E f : Recursion(f, par, I, n, Seq(S), onto, F)
  <2>1. onto \in Seq(S)
    OBVIOUS
  <2> QED
    BY <1>3, <1>4, <2>1, TreeRecursion
<1>8. PICK f : /\ f \in [I \cup {n} -> Seq(S)]
               /\ f[n] = onto /\ \A i \in I : f[i] = F[i][f[par[i]]]
  BY <1>7 DEF Recursion
<1>9. \A i \in n .. L : f[i] \in Seq(S)
  BY <1>2, <1>8
<1>10. ASSUME NEW i \in I
       PROVE  f[i] = IF from[i] \in D THEN f[i - 1] ELSE Append(f[i - 1], from[i])
  <2>1. f[i] = F[i][f[i - 1]] /\ f[i - 1] \in Seq(S)
    BY <1>2, <1>6, <1>8, <1>9
  <2> QED
    BY <1>5, <2>1
<1>11. Picks(f)
  BY <1>2, <1>8, <1>10
<1>12. Picks(up)
  <2> HIDE DEF Picks
  <2> QED
    BY <1>11
<1>13. Picked(onto, D, from, n) = up[L]
  BY DEF Picked
<1> HIDE DEF up
<1>14. /\ up[n] = onto
       /\ \A i \in I : up[i] = IF from[i] \in D THEN up[i - 1] ELSE Append(up[i - 1], from[i])
  BY <1>1, <1>2, <1>12
<1> HIDE DEF Picks, L
<1> DEFINE Good(i) == /\ up[i] \in Seq(S)
                      /\ IsAncestor(onto, up[i])
                      /\ ToSet(up[i]) = ToSet(onto) \cup ({from[j] : j \in n + 1 .. i} \ D)
                      /\ Above(up[i], Len(onto)) \subseteq {from[j] : j \in n + 1 .. i}
           T == {i \in I : Good(i)}
<1>15. Good(n)
  <2>1. n + 1 .. n = {}
    BY <1>1
  <2>2. IsAncestor(onto, onto)
    BY LenProperties DEF IsAncestor, IsPrefix
  <2>3. Above(onto, Len(onto)) = {}
    BY LenProperties DEF Above
  <2> QED
    BY <1>14, <2>1, <2>2, <2>3
<1>16. ASSUME NEW i \in I, Good(i - 1) PROVE Good(i)
  <2>1. i \in n + 1 .. L /\ i \in Nat
    BY <1>1 DEF I
  <2>2. {from[j] : j \in n + 1 .. i} = {from[j] : j \in n + 1 .. i - 1} \cup {from[i]}
    BY <1>1, <2>1
  <2>3. CASE from[i] \in D
    BY <1>14, <1>16, <2>2, <2>3
  <2>4. CASE from[i] \notin D
    <3>1. up[i] = Append(up[i - 1], from[i]) /\ from[i] \in S
      BY <1>1, <1>14, <2>4
    <3>2. up[i] \in Seq(S)
      BY <1>16, <3>1
    <3>3. ToSet(up[i]) = ToSet(up[i - 1]) \cup {from[i]}
      BY <1>16, <3>1, AppendSet
    <3>4. IsAncestor(onto, up[i])
      BY <1>16, <3>1, AppendExtends
    <3>5. Above(up[i], Len(onto)) \subseteq Above(up[i - 1], Len(onto)) \cup {from[i]}
      BY <1>16, <3>1, AppendAbove, LenProperties
    <3> QED
      BY <1>16, <2>2, <2>4, <3>2, <3>3, <3>4, <3>5
  <2> QED
    BY <2>3, <2>4
<1> HIDE DEF Good
<1>17. \A i \in I : par[i] = n \/ par[i] \in T => i \in T
  BY <1>6, <1>15, <1>16
<1>18. I \subseteq T
  <2> HIDE DEF T
  <2> QED
    BY <1>3, <1>17, TreeInduction
<1>19. Good(L)
  BY <1>1, <1>2, <1>15, <1>18 
<1> QED
  BY <1>13, <1>19 DEF Good, L, Above

LEMMA CherryPickIs ==
    ASSUME NEW S, NEW onto \in Seq(S), NEW from \in Seq(S), NEW n \in 0 .. Len(from)
    PROVE  /\ CherryPick(onto, from, n) \in Seq(S)
           /\ IsAncestor(onto, CherryPick(onto, from, n))
           /\ ToSet(CherryPick(onto, from, n)) = ToSet(onto) \cup Above(from, n)
           /\ Above(CherryPick(onto, from, n), Len(onto)) \subseteq Above(from, n)
<1>1. ASSUME NEW D
      PROVE  /\ Picked(onto, D, from, n) \in Seq(S)
             /\ IsAncestor(onto, Picked(onto, D, from, n))
             /\ ToSet(Picked(onto, D, from, n)) = ToSet(onto) \cup (Above(from, n) \ D)
             /\ Above(Picked(onto, D, from, n), Len(onto)) \subseteq Above(from, n)
  BY PickedIs
<1>2. /\ CherryPick(onto, from, n) \in Seq(S)
      /\ IsAncestor(onto, CherryPick(onto, from, n))
      /\ ToSet(CherryPick(onto, from, n)) = ToSet(onto) \cup (Above(from, n) \ ToSet(onto))
      /\ Above(CherryPick(onto, from, n), Len(onto)) \subseteq Above(from, n)
  BY <1>1 DEF CherryPick
<1> QED
  BY <1>2

\* Two revisions have a merge base, which is a part of both.
LEMMA MergeBaseIs ==
    ASSUME NEW S, NEW r \in Seq(S), NEW s \in Seq(S)
    PROVE  /\ MergeBase(r, s) \in Seq(S)
           /\ IsAncestor(MergeBase(r, s), r) /\ IsAncestor(MergeBase(r, s), s)
           /\ \A q \in Seq(S) :
                 IsAncestor(q, r) /\ IsAncestor(q, s) => IsAncestor(q, MergeBase(r, s))
<1> DEFINE C == CommonPrefixes({r, s})
           Gaps == {n \in Nat : \E c \in C : n = Len(r) - Len(c)}
           Longest(c) == \A d \in C : Len(d) <= Len(c)
<1>1. Len(r) \in Nat /\ Len(s) \in Nat
      /\ (\A i \in 1 .. Len(r) : r[i] \in S) /\ (\A i \in 1 .. Len(s) : s[i] \in S)
  BY LenProperties, ElementOfSeq
<1>2. ASSUME NEW c \in C
      PROVE  c \in Seq(S) /\ IsAncestor(c, r) /\ IsAncestor(c, s) /\ Len(c) \in 0 .. Len(r)
  <2>1. IsPrefix(c, r) /\ IsPrefix(c, s)
    BY DEF CommonPrefixes
  <2>2. PICK t \in {r, s} : c \in Prefixes(t)
    BY DEF CommonPrefixes
  <2>3. PICK l \in 0 .. Len(t) : c = SubSeq(t, 1, l)
    BY <2>2 DEF Prefixes
  <2>4. c \in Seq(S)
    <3>1. \A i \in 1 .. l : t[i] \in S
      BY <1>1, <2>2, <2>3
    <3>2. l \in Int
      BY <1>1, <2>2, <2>3
    <3> QED
      BY <2>3, <3>1, <3>2, SubSeqProperties
  <2>5. Len(c) \in Nat /\ Len(c) <= Len(r)
    BY <2>1, <2>4, LenProperties DEF IsPrefix
  <2> QED
    BY <1>1, <2>1, <2>4, <2>5 DEF IsAncestor
<1>3. <<>> \in C
  <2>1. /\ SubSeq(r, 1, 0) = <<>> /\ SubSeq(s, 1, 0) = <<>>
        /\ SubSeq(<<>>, 1, 0) = <<>> /\ Len(<<>>) = 0
    BY SubSeqEmpty
  <2>2. <<>> \in Prefixes(r)
    BY <1>1, <2>1 DEF Prefixes
  <2>3. IsPrefix(<<>>, r) /\ IsPrefix(<<>>, s)
    BY <1>1, <2>1 DEF IsPrefix
  <2> QED
    BY <2>2, <2>3 DEF CommonPrefixes
<1> HIDE DEF C
<1>4. PICK n \in Gaps : \A m \in Gaps : n <= m
  <2>1. Gaps # {}
    <3>1. Len(r) - Len(<<>>) \in Gaps
      BY <1>1, <1>2, <1>3
    <3> QED
      BY <3>1
  <2>2. Gaps \subseteq Nat
    OBVIOUS
  <2> HIDE DEF Gaps
  <2> QED
    BY <2>1, <2>2, LeastNumber
<1>5. PICK c \in C : n = Len(r) - Len(c)
  BY <1>4
<1>6. ASSUME NEW d \in C PROVE Len(d) <= Len(c)
  <2>1. Len(r) - Len(d) \in Gaps
    BY <1>1, <1>2
  <2>2. n <= Len(r) - Len(d)
    <3> HIDE DEF Gaps
    <3> QED
      BY <1>4, <2>1
  <2> QED
    BY <1>1, <1>2, <1>5, <2>2
<1>7. MergeBase(r, s) = CHOOSE d \in C : Longest(d)
  BY DEF MergeBase, LongestCommonPrefix, C
<1>8. MergeBase(r, s) \in C /\ Longest(MergeBase(r, s))
  <2>1. \E d \in C : Longest(d)
    BY <1>6
  <2> HIDE DEF Longest
  <2> QED
    BY <1>7, <2>1
<1>9. ASSUME NEW q \in Seq(S), IsAncestor(q, r), IsAncestor(q, s)
      PROVE  IsAncestor(q, MergeBase(r, s))
  <2>1. Len(q) \in Nat /\ Len(q) <= Len(r) /\ IsPrefix(q, r) /\ IsPrefix(q, s)
    BY <1>9, LenProperties DEF IsAncestor, IsPrefix
  <2>2. q = SubSeq(r, 1, Len(q))
    <3>1. \A i \in 1 .. Len(q) : r[i] \in S /\ q[i] = r[i]
      BY <1>1, <1>9, <2>1, AncestorElements
    <3>2. /\ SubSeq(r, 1, Len(q)) \in Seq(S) /\ Len(SubSeq(r, 1, Len(q))) = Len(q)
          /\ \A i \in 1 .. Len(q) : SubSeq(r, 1, Len(q))[i] = r[i]
      BY <2>1, <3>1, SubSeqProperties
    <3> QED
      BY <3>1, <3>2, SeqEqual
  <2>3. q \in C
    <3>1. Len(q) \in 0 .. Len(r)
      BY <1>1, <2>1
    <3>2. q \in Prefixes(r)
      BY <2>2, <3>1 DEF Prefixes
    <3> QED
      BY <2>1, <3>2 DEF C, CommonPrefixes
  <2>4. Len(q) <= Len(MergeBase(r, s))
    BY <1>8, <2>3
  <2> QED
    BY <1>2, <1>8, <1>9, <2>4, AncestorsCompare
<1> QED
  BY <1>2, <1>8, <1>9

\* What a branch has above where it meets old: all but what old has.
LEMMA AboveMergeBase ==
    ASSUME NEW S, NEW old \in Seq(S), NEW from \in Seq(S)
    PROVE  LET n == Len(MergeBase(old, from))
           IN /\ n \in 0 .. Len(from)
              /\ Above(from, n) \subseteq ToSet(from)
              /\ ToSet(from) \subseteq ToSet(old) \cup Above(from, n)
<1> DEFINE m == MergeBase(old, from)
           n == Len(m)
<1>1. m \in Seq(S) /\ IsAncestor(m, old) /\ IsAncestor(m, from)
  BY MergeBaseIs
<1>2. /\ Len(from) \in Nat /\ DOMAIN from = 1 .. Len(from)
      /\ Len(old) \in Nat /\ DOMAIN old = 1 .. Len(old)
  BY LenProperties
<1> HIDE DEF m
<1>3. n \in 0 .. Len(from) /\ n \in 0 .. Len(old)
  BY <1>1, <1>2, LenProperties DEF IsAncestor, IsPrefix
<1>4. \A i \in 1 .. n : from[i] = old[i]
  <2>1. SubSeq(from, 1, n) = SubSeq(old, 1, n)
    BY <1>1 DEF IsAncestor, IsPrefix
  <2>2. \A i \in 1 .. n : from[i] \in S /\ old[i] \in S
    BY <1>2, <1>3, ElementOfSeq
  <2>3. \A i \in 1 .. n : SubSeq(from, 1, n)[i] = from[i] /\ SubSeq(old, 1, n)[i] = old[i]
    BY <1>3, <2>2, SubSeqProperties
  <2> QED
    BY <2>1, <2>3
<1>5. Above(from, n) \subseteq ToSet(from)
  BY <1>2, <1>3 DEF ToSet, Above
<1>6. ToSet(from) \subseteq ToSet(old) \cup Above(from, n)
  <2> SUFFICES ASSUME NEW i \in 1 .. Len(from)
               PROVE  from[i] \in ToSet(old) \cup Above(from, n)
    BY <1>2 DEF ToSet
  <2>1. CASE i <= n
    <3>1. i \in 1 .. n /\ i \in DOMAIN old /\ from[i] = old[i]
      BY <1>2, <1>3, <1>4, <2>1
    <3> QED
      BY <3>1 DEF ToSet
  <2>2. CASE i > n
    BY <1>3, <2>2 DEF Above
  <2> QED
    BY <1>2, <1>3, <2>1, <2>2
<1> QED
  BY <1>3, <1>5, <1>6 DEF m

\* What a rebase makes, with the merge base in its place.
LEMMA ReplayIs ==
    ASSUME NEW S, NEW onto \in Seq(S), NEW old \in Seq(S), NEW from \in Seq(S)
    PROVE  /\ Replay(onto, old, from) \in Seq(S)
           /\ IsAncestor(onto, Replay(onto, old, from))
           /\ ToSet(Replay(onto, old, from)) \subseteq ToSet(onto) \cup ToSet(from)
           /\ ToSet(from) \subseteq ToSet(Replay(onto, old, from)) \cup ToSet(old)
<1> DEFINE n == Len(MergeBase(old, from))
<1>1. /\ n \in 0 .. Len(from) /\ Above(from, n) \subseteq ToSet(from)
      /\ ToSet(from) \subseteq ToSet(old) \cup Above(from, n)
  BY AboveMergeBase
<1>2. Replay(onto, old, from) = CherryPick(onto, from, n)
  BY DEF Replay
<1> HIDE DEF n
<1>3. /\ CherryPick(onto, from, n) \in Seq(S)
      /\ IsAncestor(onto, CherryPick(onto, from, n))
      /\ ToSet(CherryPick(onto, from, n)) = ToSet(onto) \cup Above(from, n)
  BY <1>1, CherryPickIs
<1> QED
  BY <1>1, <1>2, <1>3

\* What a rebase makes that leaves out more than the new base has.
LEMMA PickedOwn ==
    ASSUME NEW S, NEW D, NEW onto \in Seq(S), NEW old \in Seq(S), NEW from \in Seq(S)
    PROVE  LET r == Picked(onto, D, from, Len(MergeBase(old, from)))
           IN /\ r \in Seq(S)
              /\ ToSet(onto) \subseteq ToSet(r) /\ ToSet(r) \subseteq ToSet(onto) \cup ToSet(from)
              /\ ToSet(from) \subseteq ToSet(r) \cup ToSet(old) \cup D
<1> DEFINE n == Len(MergeBase(old, from))
<1>1. /\ n \in 0 .. Len(from) /\ Above(from, n) \subseteq ToSet(from)
      /\ ToSet(from) \subseteq ToSet(old) \cup Above(from, n)
  BY AboveMergeBase
<1> HIDE DEF n
<1>2. /\ Picked(onto, D, from, n) \in Seq(S)
      /\ IsAncestor(onto, Picked(onto, D, from, n))
      /\ ToSet(Picked(onto, D, from, n)) = ToSet(onto) \cup (Above(from, n) \ D)
      /\ Above(Picked(onto, D, from, n), Len(onto)) \subseteq Above(from, n)
  BY <1>1, PickedIs
<1> QED
  BY <1>1, <1>2 DEF n

\* What a rebase makes of a branch that is made on what it is taken off: above
\* the new base there is nothing but what was above the old one.
LEMMA ReplayOwn ==
    ASSUME NEW S, NEW onto \in Seq(S), NEW old \in Seq(S), NEW from \in Seq(S),
           IsAncestor(old, from)
    PROVE  /\ Replay(onto, old, from) \in Seq(S)
           /\ IsAncestor(onto, Replay(onto, old, from))
           /\ ToSet(Replay(onto, old, from)) = ToSet(onto) \cup Above(from, Len(old))
           /\ Above(Replay(onto, old, from), Len(onto)) \subseteq Above(from, Len(old))
<1>1. MergeBase(old, from) = old
  <2>1. IsAncestor(old, MergeBase(old, from)) /\ IsAncestor(MergeBase(old, from), old)
    BY MergeBaseIs, AncestorSelf
  <2>2. MergeBase(old, from) \in Seq(S)
    BY MergeBaseIs
  <2>3. Len(old) <= Len(MergeBase(old, from))
    BY <2>1 DEF IsAncestor, IsPrefix
  <2> QED
    BY <2>1, <2>2, <2>3, AncestorEqual
<1>2. Len(old) \in 0 .. Len(from)
  BY LenProperties DEF IsAncestor, IsPrefix
<1> QED
  BY <1>1, <1>2, CherryPickIs DEF Replay
=============================================================================
