----------------------------- MODULE WalkProofs ------------------------------
(***************************************************************************)
(* The walk shows every file, in order, and its exit status is true, for   *)
(* every tree, every number of arguments and changes, and every size.      *)
(***************************************************************************)
EXTENDS WalkProps, Totals, SequenceTheorems

-----------------------------------------------------------------------------
(* Paths.                                                                  *)

\* p and q part, at a component that is smaller in p.
Parts(p, q) ==
  \E i \in 1..Len(p) : /\ i <= Len(q) /\ p[i] < q[i]
                       /\ SubSeq(p, 1, i - 1) = SubSeq(q, 1, i - 1)

\* The first n components of two paths.
LEMMA FirstComponents ==
  ASSUME NEW p \in Seq(Nat), NEW q \in Seq(Nat), NEW n \in Nat, n <= Len(p), n <= Len(q)
  PROVE  SubSeq(p, 1, n) = SubSeq(q, 1, n) <=> \A k \in 1..n : p[k] = q[k]
<1>1. /\ SubSeq(p, 1, n) = [k \in 1..n |-> p[k]]
      /\ SubSeq(q, 1, n) = [k \in 1..n |-> q[k]]
  OBVIOUS
<1> QED
  BY <1>1

\* IsPrefix and Parts, by components.
LEMMA ByComponents ==
  ASSUME NEW p \in Seq(Nat), NEW q \in Seq(Nat)
  PROVE  /\ IsPrefix(p, q) <=> Len(p) <= Len(q) /\ \A k \in 1..Len(p) : p[k] = q[k]
         /\ Parts(p, q) <=> \E i \in 1..Len(p) : /\ i <= Len(q) /\ p[i] < q[i]
                                                /\ \A k \in 1..(i - 1) : p[k] = q[k]
<1>1. IsPrefix(p, q) <=> Len(p) <= Len(q) /\ \A k \in 1..Len(p) : p[k] = q[k]
  BY FirstComponents DEF IsPrefix
<1>2. ASSUME NEW i \in 1..Len(p), i <= Len(q)
      PROVE  SubSeq(p, 1, i - 1) = SubSeq(q, 1, i - 1) <=> \A k \in 1..(i - 1) : p[k] = q[k]
  <2>1. i - 1 \in Nat /\ i - 1 <= Len(p) /\ i - 1 <= Len(q)
    BY <1>2
  <2> QED
    BY <2>1, FirstComponents
<1> QED
  BY <1>1, <1>2 DEF Parts

\* Paths that part are in Path's order.
LEMMA PartsBefore == \A p, q : Parts(p, q) => Before(p, q)
  BY DEF Parts, Before

\* What is below paths that part does too.
LEMMA PartsBelow ==
  ASSUME NEW p \in Seq(Nat), NEW q \in Seq(Nat), NEW x \in Seq(Nat), NEW y \in Seq(Nat),
         Parts(p, q), IsPrefix(p, x), IsPrefix(q, y)
  PROVE  Parts(x, y)
<1>1. PICK i \in 1..Len(p) : i <= Len(q) /\ p[i] < q[i] /\ \A k \in 1..(i - 1) : p[k] = q[k]
  BY ByComponents
<1>2. /\ Len(p) <= Len(x) /\ \A k \in 1..Len(p) : p[k] = x[k]
      /\ Len(q) <= Len(y) /\ \A k \in 1..Len(q) : q[k] = y[k]
  BY ByComponents
<1>3. i \in 1..Len(x) /\ i <= Len(y) /\ x[i] < y[i] /\ \A k \in 1..(i - 1) : x[k] = y[k]
  <2>1. /\ Len(p) \in Nat /\ Len(q) \in Nat /\ Len(x) \in Nat /\ Len(y) \in Nat
        /\ i \in 1..Len(p) /\ i \in 1..Len(q)
    BY <1>1
  <2>a. p[i] = x[i] /\ q[i] = y[i]
    BY <1>2, <2>1
  <2>b. i \in 1..Len(x) /\ i <= Len(y)
    BY <1>2, <2>1
  <2>2. p[i] = x[i] /\ q[i] = y[i] /\ i \in 1..Len(x) /\ i <= Len(y)
    BY <2>a, <2>b
  <2>3. ASSUME NEW k \in 1..(i - 1) PROVE x[k] = y[k]
    <3>1. k \in 1..Len(p) /\ k \in 1..Len(q)
      BY <2>1
    <3> QED
      BY <1>1, <1>2, <3>1
  <2> QED
    BY <1>1, <2>2, <2>3
<1> QED
  BY <1>3, ByComponents

\* Being below is transitive, and two paths above one are above each other.
LEMMA Prefixes3 ==
  ASSUME NEW p \in Seq(Nat), NEW q \in Seq(Nat), NEW x \in Seq(Nat)
  PROVE  /\ IsPrefix(p, p)
         /\ IsPrefix(p, q) /\ IsPrefix(q, x) => IsPrefix(p, x)
         /\ IsPrefix(p, x) /\ IsPrefix(q, x) => IsPrefix(p, q) \/ IsPrefix(q, p)
         /\ IsPrefix(p, q) /\ IsPrefix(q, p) => p = q
<1>1. IsPrefix(p, p)
  BY ByComponents
<1>2. IsPrefix(p, q) /\ IsPrefix(q, x) => IsPrefix(p, x)
  <2> SUFFICES ASSUME IsPrefix(p, q), IsPrefix(q, x) PROVE IsPrefix(p, x)
    OBVIOUS
  <2>1. /\ Len(p) <= Len(q) /\ \A k \in 1..Len(p) : p[k] = q[k]
        /\ Len(q) <= Len(x) /\ \A k \in 1..Len(q) : q[k] = x[k]
        /\ Len(p) \in Nat /\ Len(q) \in Nat /\ Len(x) \in Nat
    BY ByComponents
  <2>2. Len(p) <= Len(x) /\ \A k \in 1..Len(p) : p[k] = x[k]
    <3>1. \A k \in 1..Len(p) : k \in 1..Len(q)
      BY <2>1
    <3> QED
      BY <2>1, <3>1
  <2> QED
    BY <2>2, ByComponents
<1>3. IsPrefix(p, x) /\ IsPrefix(q, x) => IsPrefix(p, q) \/ IsPrefix(q, p)
  BY ByComponents
<1>4. IsPrefix(p, q) /\ IsPrefix(q, p) => p = q
  BY ByComponents
<1> QED
  BY <1>1, <1>2, <1>3, <1>4

\* The paths of one directory are below it, and part in their last component.
LEMMA Siblings ==
  ASSUME NEW d \in Seq(Nat), NEW p \in Children(d), NEW q \in Children(d)
  PROVE  /\ p \in Seq(Nat) /\ IsStrictPrefix(d, p) /\ Len(p) = Len(d) + 1
         /\ p[Len(d) + 1] \in Nat
         /\ p # q => p[Len(d) + 1] # q[Len(d) + 1]
         /\ Before(p, q) <=> p[Len(d) + 1] < q[Len(d) + 1]
         /\ Parts(p, q) <=> p[Len(d) + 1] < q[Len(d) + 1]
<1> DEFINE n == Len(d)
<1>1. /\ p \in Seq(Nat) /\ q \in Seq(Nat) /\ n \in Nat
      /\ Len(p) = n + 1 /\ Len(q) = n + 1
      /\ SubSeq(p, 1, n) = d /\ SubSeq(q, 1, n) = d
  <2>1. /\ p \in Seq(Nat) /\ q \in Seq(Nat) /\ n \in Nat
        /\ Len(p) = n + 1 /\ Len(q) = n + 1 /\ Front(p) = d /\ Front(q) = d
    BY ConstantsTyped DEF Children, ConstantsTyped
  <2>2. Len(p) - 1 = n /\ Len(q) - 1 = n
    BY <2>1
  <2> QED
    BY <2>1, <2>2 DEF Front
<1>2. \A k \in 1..n : p[k] = d[k] /\ q[k] = d[k]
  BY <1>1
<1>3. IsPrefix(d, p) /\ d # p
  BY <1>1, <1>2, ByComponents
<1>4. p # q => p[n + 1] # q[n + 1]
  <2> SUFFICES ASSUME p[n + 1] = q[n + 1] PROVE p = q
    OBVIOUS
  <2>1. \A k \in 1..(n + 1) : p[k] = q[k]
    BY <1>1, <1>2
  <2> QED
    BY <1>1, <2>1
<1>5. Parts(p, q) <=> p[n + 1] < q[n + 1]
  <2>1. ASSUME Parts(p, q) PROVE p[n + 1] < q[n + 1]
    <3>1. PICK i \in 1..Len(p) : p[i] < q[i]
      BY <1>1, <2>1 DEF Parts
    <3>2. i = n + 1
      BY <1>1, <1>2, <3>1
    <3> QED
      BY <3>1, <3>2
  <2>2. ASSUME p[n + 1] < q[n + 1] PROVE Parts(p, q)
    <3>1. n + 1 \in 1..Len(p) /\ n + 1 <= Len(q) /\ n + 1 - 1 = n
      BY <1>1
    <3>2. \A k \in 1..(n + 1 - 1) : p[k] = q[k]
      BY <1>2, <3>1
    <3>3. \E i \in 1..Len(p) : /\ i <= Len(q) /\ p[i] < q[i]
                               /\ \A k \in 1..(i - 1) : p[k] = q[k]
      <4>1. PICK i \in 1..Len(p) : i = n + 1
        BY <3>1
      <4> QED
        BY <2>2, <3>1, <3>2, <4>1
    <3> QED
      BY <1>1, <3>3, ByComponents
  <2> QED
    BY <2>1, <2>2
<1>6. Before(p, q) <=> Parts(p, q)
  <2>1. ~IsStrictPrefix(p, q)
    <3>1. IsPrefix(p, q) => p = q
      <4> SUFFICES ASSUME IsPrefix(p, q) PROVE p = q
        OBVIOUS
      <4>1. \A k \in 1..(n + 1) : p[k] = q[k]
        BY <1>1, ByComponents
      <4> QED
        BY <1>1, <4>1
    <3> QED
      BY <3>1 DEF IsStrictPrefix
  <2> QED
    BY <2>1 DEF Before, Parts
<1> QED
  BY <1>1, <1>3, <1>4, <1>5, <1>6 DEF IsStrictPrefix

-----------------------------------------------------------------------------
(* Listings.                                                               *)

\* A sequence of the elements of a finite set, each once, has them all.
LEMMA AllListed ==
  ASSUME NEW S, IsFiniteSet(S), NEW f \in SetToSeqs(S)
  PROVE  /\ f \in Seq(S) /\ Len(f) = Cardinality(S) /\ DOMAIN f = 1..Cardinality(S)
         /\ \A i, j \in 1..Cardinality(S) : i # j => f[i] # f[j]
         /\ \A x \in S : \E i \in 1..Cardinality(S) : f[i] = x
<1> DEFINE n == Cardinality(S)
<1>1. n \in Nat
  BY FS_CardinalityType
<1>2. f \in [1..n -> S] /\ \A i, j \in 1..n : i # j => f[i] # f[j]
  BY DEF SetToSeqs
<1>3. f \in Injection(1..n, S)
  BY <1>2 DEF Injection, IsInjective
<1>4. Cardinality(1..n) = n
  BY <1>1, FS_Interval
<1>5. f \in Surjection(1..n, S)
  BY <1>3, <1>4, FS_Injection
<1>6. \A x \in S : \E i \in 1..n : f[i] = x
  BY <1>5 DEF Surjection
<1> QED
  BY <1>1, <1>2, <1>6

\* The set of a sequence.
LEMMA SetOf == \A s : ToSet(s) = {s[i] : i \in DOMAIN s}
  BY DEF ToSet

\* The entries of a directory's paths P, as a listing notes them.
Noted(P) == {[path |-> p, kind |-> Kind(p)] : p \in P}
Found(order) == [i \in DOMAIN order |-> [path |-> order[i], kind |-> Kind(order[i])]]
InOrder(s) == \A i, j \in DOMAIN s : i < j => Parts(s[i].path, s[j].path)

\* sorted_entries: each entry once, in order, whatever order they came in.
LEMMA SortedListing ==
  ASSUME NEW d \in Seq(Nat), NEW P \in SUBSET Children(d), NEW order \in SetToSeqs(P),
         NEW L, L = Sorted(Found(order))
  PROVE  /\ L \in Seq(Noted(P)) /\ InOrder(L)
         /\ \A p \in P : \E i \in DOMAIN L : L[i] = [path |-> p, kind |-> Kind(p)]
<1> DEFINE entries == Found(order)
           R == {e \in Noted(P) \X Noted(P) : Before(e[1].path, e[2].path)}
<1>1. IsFiniteSet(P)
  <2>1. P \in SUBSET Tree /\ IsFiniteSet(Tree)
    BY ConstantsTyped DEF ConstantsTyped, Children
  <2> QED
    BY <2>1, FS_Subset
<1>2. IsFiniteSet(Noted(P))
  <2> DEFINE g == [p \in P |-> [path |-> p, kind |-> Kind(p)]]
  <2>1. g \in Surjection(P, Noted(P))
    BY DEF Noted, Surjection
  <2> QED
    BY <1>1, <2>1, FS_Surjection
<1>3. ToSet(entries) = Noted(P)
  <2>1. /\ DOMAIN entries = DOMAIN order /\ DOMAIN order = 1..Cardinality(P)
        /\ \A i \in DOMAIN order : entries[i] = [path |-> order[i], kind |-> Kind(order[i])]
    BY <1>1, AllListed DEF Found
  <2>2. \A i \in 1..Cardinality(P) : order[i] \in P
    BY DEF SetToSeqs
  <2>3. \A p \in P : \E i \in 1..Cardinality(P) : order[i] = p
    BY <1>1, AllListed
  <2>4. \A e : e \in ToSet(entries) <=> \E i \in 1..Cardinality(P) : e = entries[i]
    BY <2>1 DEF ToSet
  <2>5. \A e : e \in ToSet(entries) <=> e \in Noted(P)
    BY <2>1, <2>2, <2>3, <2>4 DEF Noted
  <2> QED
    BY <2>5
<1> HIDE DEF entries
<1>4. Orders(R, Noted(P))
  <2>1. ASSUME NEW e \in Noted(P), NEW h \in Noted(P)
        PROVE  e = h \/ <<e, h>> \in R \/ <<h, e>> \in R
    <3>1. PICK p, q \in P : /\ e = [path |-> p, kind |-> Kind(p)] /\ e.path = p
                            /\ h = [path |-> q, kind |-> Kind(q)] /\ h.path = q
      BY DEF Noted
    <3>2. p = q \/ Before(p, q) \/ Before(q, p)
      BY Siblings
    <3> QED
      BY <3>1, <3>2
  <2>2. ASSUME NEW e \in Noted(P), NEW h \in Noted(P), NEW k \in Noted(P),
               <<e, h>> \in R, <<h, k>> \in R
        PROVE  <<e, k>> \in R
    <3>1. e.path \in Children(d) /\ h.path \in Children(d) /\ k.path \in Children(d)
      BY DEF Noted
    <3>2. Before(e.path, h.path) /\ Before(h.path, k.path)
      BY <2>2
    <3>3. Before(e.path, k.path)
      <4>1. /\ e.path[Len(d) + 1] < h.path[Len(d) + 1] /\ h.path[Len(d) + 1] < k.path[Len(d) + 1]
            /\ e.path[Len(d) + 1] \in Nat /\ h.path[Len(d) + 1] \in Nat
            /\ k.path[Len(d) + 1] \in Nat
        BY <3>1, <3>2, Siblings
      <4>2. e.path[Len(d) + 1] < k.path[Len(d) + 1]
        BY <4>1
      <4> QED
        BY <3>1, <4>2, Siblings
    <3> QED
      BY <3>3
  <2> HIDE DEF R
  <2> QED
    BY <2>1, <2>2 DEF Orders
<1> DEFINE n == Cardinality(Noted(P))
<1>5. PICK f \in [1..n -> Noted(P)] :
        /\ \A i, j \in 1..n : i # j => f[i] # f[j]
        /\ \A i, j \in 1..n : i < j => <<f[i], f[j]>> \in R
  <2> HIDE DEF R
  <2> QED
    BY <1>2, <1>4, Listed
<1>6. f \in SetToSeqs(Noted(P)) /\ DOMAIN f = 1..n
  BY <1>5 DEF SetToSeqs
<1>7. \A i, j \in DOMAIN f : i < j => Before(f[i].path, f[j].path)
  BY <1>5, <1>6
<1>8. L = CHOOSE s \in SetToSeqs(Noted(P)) :
            \A i, j \in DOMAIN s : i < j => Before(s[i].path, s[j].path)
  <2>1. L = Sorted(entries)
    BY DEF entries
  <2> QED
    BY <1>3, <2>1 DEF Sorted
<1>9. /\ L \in SetToSeqs(Noted(P))
      /\ \A i, j \in DOMAIN L : i < j => Before(L[i].path, L[j].path)
  BY <1>6, <1>7, <1>8
<1>10. /\ L \in Seq(Noted(P)) /\ DOMAIN L = 1..n
       /\ \A e \in Noted(P) : \E i \in 1..n : L[i] = e
  BY <1>2, <1>9, AllListed
<1>11. \A i \in DOMAIN L : L[i].path \in Children(d)
  <2>1. L \in [1..n -> Noted(P)]
    BY <1>9 DEF SetToSeqs
  <2>2. \A i \in DOMAIN L : L[i] \in Noted(P)
    BY <1>10, <2>1
  <2>3. \A e \in Noted(P) : e.path \in Children(d)
    BY DEF Noted
  <2> QED
    BY <2>2, <2>3
<1>12. InOrder(L)
  BY <1>9, <1>11, Siblings DEF InOrder
<1> QED
  BY <1>10, <1>12 DEF Noted

-----------------------------------------------------------------------------
(* The stack of listings.                                                  *)

FileKind == {Regular, "dir", "link", "dirlink", "fifo"}
Entry == [path : Tree, kind : FileKind]

\* An entry that a stack of listings still holds.
On(s, e) == \E i \in DOMAIN s : \E k \in DOMAIN s[i] : e = s[i][k]

\* Each listing is in order, and before those it was entered from.
Laid(s) ==
  /\ \A i \in DOMAIN s : InOrder(s[i])
  /\ \A i, j \in DOMAIN s : \A k \in DOMAIN s[i], l \in DOMAIN s[j] :
       i < j => Parts(s[j][l].path, s[i][k].path)

\* What a stack holds are entries.
LEMMA OnTyped ==
  ASSUME NEW s \in Seq(Listing), NEW e, On(s, e)
  PROVE  e \in Entry
<1>1a. PICK i \in DOMAIN s : \E k \in DOMAIN s[i] : e = s[i][k]
  BY DEF On
<1>1. PICK k \in DOMAIN s[i] : e = s[i][k]
  BY <1>1a
<1>2. s[i] \in Listing
  OBVIOUS
<1>3. s[i] \in Seq(Entry)
  BY <1>2 DEF Listing, Entry, FileKind
<1> QED
  BY <1>1, <1>3

\* What a stack holds with one more listing.
LEMMA PushHolds ==
  ASSUME NEW s \in Seq(Listing), NEW L \in Listing
  PROVE  \A e : On(Append(s, L), e) <=> On(s, e) \/ \E k \in DOMAIN L : e = L[k]
<1>1. PICK n \in Nat : n = Len(s)
  OBVIOUS
<1>2. PICK t : t = Append(s, L)
  OBVIOUS
<1>3. /\ DOMAIN s = 1..n /\ DOMAIN t = 1..(n + 1)
      /\ \A i \in 1..n : t[i] = s[i]
      /\ t[n + 1] = L
  BY <1>1, <1>2
<1>4. \A i \in 1..(n + 1) : i = n + 1 \/ i \in 1..n
  OBVIOUS
<1>5. \A e : On(t, e) <=> On(s, e) \/ \E k \in DOMAIN L : e = L[k]
  <2> TAKE e
  <2>1. ASSUME On(t, e) PROVE On(s, e) \/ \E k \in DOMAIN L : e = L[k]
    BY <1>3, <1>4, <2>1 DEF On
  <2>2. ASSUME On(s, e) PROVE On(t, e)
    <3>1. PICK i \in 1..n : \E k \in DOMAIN s[i] : e = s[i][k]
      BY <1>3, <2>2 DEF On
    <3>2. i \in 1..(n + 1)
      OBVIOUS
    <3> QED
      BY <1>3, <3>1, <3>2 DEF On
  <2>3. ASSUME \E k \in DOMAIN L : e = L[k] PROVE On(t, e)
    BY <1>3, <2>3 DEF On
  <2> QED
    BY <2>1, <2>2, <2>3
<1> QED
  BY <1>2, <1>5

\* A listing entered.
LEMMA Push ==
  ASSUME NEW s \in Seq(Listing), NEW L \in Listing, Laid(s), InOrder(L),
         \A k \in DOMAIN L : \A e : On(s, e) => Parts(L[k].path, e.path)
  PROVE  /\ Append(s, L) \in Seq(Listing) /\ Laid(Append(s, L)) /\ Append(s, L) # <<>>
         /\ \A e : On(Append(s, L), e) <=> On(s, e) \/ \E k \in DOMAIN L : e = L[k]
<1>1. PICK n \in Nat : n = Len(s)
  OBVIOUS
<1>2. PICK t : t = Append(s, L)
  OBVIOUS
<1>3. /\ t \in Seq(Listing) /\ DOMAIN s = 1..n /\ DOMAIN t = 1..(n + 1) /\ t # <<>>
      /\ \A i \in 1..n : t[i] = s[i]
      /\ t[n + 1] = L
  BY <1>1, <1>2
<1>4. \A i \in 1..(n + 1) : i = n + 1 \/ i \in 1..n
  OBVIOUS
<1>5. \A e : On(t, e) <=> On(s, e) \/ \E k \in DOMAIN L : e = L[k]
  BY <1>2, PushHolds
<1>6. \A i \in 1..(n + 1) : InOrder(t[i])
  BY <1>3, <1>4 DEF Laid
<1>7. ASSUME NEW i \in 1..(n + 1), NEW j \in 1..(n + 1),
             NEW k \in DOMAIN t[i], NEW l \in DOMAIN t[j], i < j
      PROVE  Parts(t[j][l].path, t[i][k].path)
  <2>1. i \in 1..n
    BY <1>7
  <2>2. CASE j \in 1..n
    BY <1>3, <1>7, <2>1, <2>2 DEF Laid
  <2>3. CASE j = n + 1
    <3>1. On(s, t[i][k])
      BY <1>3, <2>1 DEF On
    <3> QED
      BY <1>3, <2>3, <3>1
  <2> QED
    BY <1>4, <2>2, <2>3
<1>8. Laid(t)
  BY <1>3, <1>6, <1>7 DEF Laid
<1> QED
  BY <1>2, <1>3, <1>5, <1>8

\* A listing left.
LEMMA PopEmpty ==
  ASSUME NEW s \in Seq(Listing), s # <<>>, Last(s) = <<>>, Laid(s)
  PROVE  /\ Front(s) \in Seq(Listing) /\ Laid(Front(s))
         /\ Len(s) = 1 => Front(s) = <<>> /\ \A e : ~On(s, e)
         /\ \A e : On(Front(s), e) <=> On(s, e)
<1>1. PICK n \in Nat : n + 1 = Len(s)
  <2>1. Len(s) \in Nat /\ Len(s) # 0
    OBVIOUS
  <2>2. Len(s) - 1 \in Nat /\ (Len(s) - 1) + 1 = Len(s)
    BY <2>1
  <2> QED
    BY <2>2
<1>2. PICK t : t = Front(s)
  OBVIOUS
<1>3. /\ t \in Seq(Listing) /\ DOMAIN s = 1..(n + 1) /\ DOMAIN t = 1..n
      /\ \A i \in 1..n : t[i] = s[i]
      /\ s[n + 1] = <<>> /\ DOMAIN s[n + 1] = {}
  <2>1. Len(s) - 1 = n
    BY <1>1
  <2>2. t = SubSeq(s, 1, n)
    BY <1>2, <2>1 DEF Front
  <2>3. s[n + 1] = <<>>
    BY <1>1 DEF Last
  <2> QED
    BY <1>1, <2>2, <2>3
<1>4. \A i \in 1..(n + 1) : i = n + 1 \/ i \in 1..n
  OBVIOUS
<1>5. \A e : On(t, e) <=> On(s, e)
  BY <1>3, <1>4 DEF On
<1>6. Laid(t)
  BY <1>3 DEF Laid
<1>7. ASSUME Len(s) = 1 PROVE t = <<>> /\ \A e : ~On(s, e)
  <2>1. n = 0
    BY <1>1, <1>7
  <2>2. t = <<>>
    BY <1>3, <2>1
  <2>3. \A e : ~On(t, e)
    BY <2>2 DEF On
  <2> QED
    BY <1>5, <2>2, <2>3
<1> QED
  BY <1>2, <1>3, <1>5, <1>6, <1>7

\* The next entry taken.
LEMMA TakeNext ==
  ASSUME NEW s \in Seq(Listing), s # <<>>, Last(s) # <<>>, Laid(s),
         NEW h, h = Head(Last(s)), NEW t, t = Append(Front(s), Tail(Last(s)))
  PROVE  /\ h \in Entry /\ t \in Seq(Listing) /\ Laid(t) /\ t # <<>>
         /\ \A e : On(s, e) <=> e = h \/ On(t, e)
         /\ \A e : On(t, e) => Parts(h.path, e.path)
<1>1. PICK n \in Nat : n + 1 = Len(s)
  <2>1. Len(s) \in Nat /\ Len(s) # 0
    OBVIOUS
  <2>2. Len(s) - 1 \in Nat /\ (Len(s) - 1) + 1 = Len(s)
    BY <2>1
  <2> QED
    BY <2>2
<1>2. PICK L : L = s[n + 1]
  OBVIOUS
<1>3. /\ L \in Listing /\ L # <<>> /\ Last(s) = L /\ DOMAIN s = 1..(n + 1)
      /\ L \in Seq(Entry)
  <2>1. n + 1 \in 1..(n + 1) /\ DOMAIN s = 1..(n + 1)
    BY <1>1
  <2>2. L \in Listing /\ Last(s) = L
    BY <1>1, <1>2, <2>1 DEF Last
  <2> QED
    BY <2>1, <2>2 DEF Listing, Entry, FileKind
<1>4. PICK m \in Nat : Len(L) = m + 1
  <2>1. Len(L) \in Nat /\ Len(L) # 0
    BY <1>3
  <2>2. Len(L) - 1 \in Nat /\ (Len(L) - 1) + 1 = Len(L)
    BY <2>1
  <2> QED
    BY <2>2
<1>5. PICK T : T = Tail(L)
  OBVIOUS
<1>6. /\ T \in Seq(Entry) /\ T \in Listing /\ DOMAIN T = 1..m /\ DOMAIN L = 1..(m + 1)
      /\ \A k \in 1..m : T[k] = L[k + 1]
      /\ h = L[1] /\ h \in Entry
  <2>1. T \in Seq(Entry) /\ Len(T) = m /\ \A k \in 1..m : T[k] = L[k + 1]
    BY <1>3, <1>4, <1>5
  <2>2. T \in Listing
    BY <2>1 DEF Listing, Entry, FileKind
  <2>3. h = L[1] /\ h \in Entry
    BY <1>3, <1>4
  <2> QED
    BY <1>3, <1>4, <2>1, <2>2, <2>3
<1>7. /\ t \in Seq(Listing) /\ DOMAIN t = 1..(n + 1) /\ t # <<>>
      /\ \A i \in 1..n : t[i] = s[i]
      /\ t[n + 1] = T
  <2>1. PICK F : F = Front(s)
    OBVIOUS
  <2>2. Len(s) - 1 = n
    BY <1>1
  <2>3. F = SubSeq(s, 1, n)
    BY <2>1, <2>2 DEF Front
  <2>4. F \in Seq(Listing) /\ Len(F) = n /\ \A i \in 1..n : F[i] = s[i]
    BY <1>1, <2>3
  <2>5. t = Append(F, T)
    BY <1>3, <1>5, <2>1
  <2>6. /\ t \in Seq(Listing) /\ Len(t) = n + 1 /\ t[n + 1] = T
        /\ \A i \in 1..n : t[i] = F[i]
    <3>1. T \in Listing /\ F \in Seq(Listing) /\ Len(F) = n
      BY <1>6, <2>4
    <3> HIDE <2>5
    <3>2. /\ Append(F, T) \in Seq(Listing) /\ Len(Append(F, T)) = n + 1
          /\ Append(F, T)[n + 1] = T
      BY <3>1
    <3>3. \A i \in 1..n : Append(F, T)[i] = F[i]
      BY <3>1
    <3> QED
      BY <2>5, <3>2, <3>3
  <2>7. DOMAIN t = 1..(n + 1) /\ t # <<>>
    BY <2>6
  <2> QED
    BY <2>4, <2>6, <2>7
<1>8. \A i \in 1..(n + 1) : i = n + 1 \/ i \in 1..n
  OBVIOUS
<1>9. /\ \A k \in 1..m : k + 1 \in 1..(m + 1)
      /\ \A k \in 1..(m + 1) : k = 1 \/ \E l \in 1..m : k = l + 1
  <2>1. \A k \in 1..(m + 1) : k = 1 \/ (k - 1 \in 1..m /\ k = (k - 1) + 1)
    OBVIOUS
  <2> QED
    BY <2>1
<1>10. \A e : On(s, e) <=> e = h \/ On(t, e)
  <2> TAKE e
  <2>1. ASSUME On(s, e) PROVE e = h \/ On(t, e)
    <3>1a. PICK i \in 1..(n + 1) : \E k \in DOMAIN s[i] : e = s[i][k]
      BY <1>3, <2>1 DEF On
    <3>1. PICK k \in DOMAIN s[i] : e = s[i][k]
      BY <3>1a
    <3>2. CASE i \in 1..n
      BY <1>7, <3>1, <3>2 DEF On
    <3>3. CASE i = n + 1
      <4>1. CASE k = 1
        <5>1. e = L[k]
          BY <1>2, <3>1, <3>3
        <5> QED
          BY <1>6, <4>1, <5>1
      <4>2. CASE k # 1
        <5>1. PICK l \in 1..m : k = l + 1
          BY <1>2, <1>6, <1>9, <3>1, <3>3, <4>2
        <5>2. e = T[l]
          BY <1>2, <1>6, <3>1, <3>3, <5>1
        <5>3. n + 1 \in DOMAIN t /\ l \in DOMAIN t[n + 1] /\ e = t[n + 1][l]
          <6>1. n + 1 \in DOMAIN t /\ t[n + 1] = T
            BY <1>7
          <6>2. l \in DOMAIN T
            BY <1>6
          <6> QED
            BY <5>2, <6>1, <6>2, Zenon
        <5> QED
          BY <5>3 DEF On
      <4> QED
        BY <4>1, <4>2
    <3> QED
      BY <1>8, <3>2, <3>3
  <2>2. ASSUME On(t, e) PROVE On(s, e)
    <3>1a. PICK i \in 1..(n + 1) : \E k \in DOMAIN t[i] : e = t[i][k]
      BY <1>7, <2>2 DEF On
    <3>1. PICK k \in DOMAIN t[i] : e = t[i][k]
      BY <3>1a
    <3>2. CASE i \in 1..n
      BY <1>3, <1>7, <3>1, <3>2 DEF On
    <3>3. CASE i = n + 1
      <4>1. k \in 1..m /\ e = L[k + 1] /\ k + 1 \in DOMAIN L
        BY <1>6, <1>7, <1>9, <3>1, <3>3
      <4> QED
        BY <1>2, <1>3, <4>1 DEF On
    <3> QED
      BY <1>8, <3>2, <3>3
  <2>3. On(s, h)
    <3>1. 1 \in DOMAIN L /\ h = L[1] /\ n + 1 \in DOMAIN s
      BY <1>3, <1>6
    <3> QED
      BY <1>2, <3>1 DEF On
  <2> QED
    BY <2>1, <2>2, <2>3
<1>11. InOrder(L)
  BY <1>2, <1>3 DEF Laid
<1>12. InOrder(T)
  <2> SUFFICES ASSUME NEW i \in 1..m, NEW j \in 1..m, i < j
               PROVE  Parts(T[i].path, T[j].path)
    BY <1>6 DEF InOrder
  <2>1. T[i] = L[i + 1] /\ T[j] = L[j + 1] /\ i + 1 < j + 1
    BY <1>6
  <2>2. i + 1 \in DOMAIN L /\ j + 1 \in DOMAIN L
    BY <1>6, <1>9
  <2> QED
    BY <1>11, <2>1, <2>2 DEF InOrder
<1>13. ASSUME NEW i \in 1..(n + 1), NEW j \in 1..(n + 1),
              NEW k \in DOMAIN t[i], NEW l \in DOMAIN t[j], i < j
       PROVE  Parts(t[j][l].path, t[i][k].path)
  <2>1. i \in 1..n /\ t[i] = s[i]
    BY <1>7, <1>13
  <2>2. CASE j \in 1..n
    BY <1>3, <1>7, <1>13, <2>1, <2>2 DEF Laid
  <2>3. CASE j = n + 1
    <3>1. t[j][l] = s[j][l + 1] /\ l + 1 \in DOMAIN s[j]
      BY <1>2, <1>6, <1>7, <1>9, <2>3
    <3> QED
      BY <1>3, <1>13, <2>1, <3>1 DEF Laid
  <2> QED
    BY <1>8, <2>2, <2>3
<1>14. Laid(t)
  <2>1. \A i \in 1..(n + 1) : InOrder(t[i])
    BY <1>3, <1>7, <1>8, <1>12 DEF Laid
  <2> QED
    BY <1>7, <1>13, <2>1 DEF Laid
<1>15. ASSUME NEW e, On(t, e) PROVE Parts(h.path, e.path)
  <2>1a. PICK i \in 1..(n + 1) : \E k \in DOMAIN t[i] : e = t[i][k]
    BY <1>7, <1>15 DEF On
  <2>1. PICK k \in DOMAIN t[i] : e = t[i][k]
    BY <2>1a
  <2>2. CASE i \in 1..n
    <3>1. t[i] = s[i] /\ i < n + 1 /\ i \in DOMAIN s /\ n + 1 \in DOMAIN s /\ 1 \in DOMAIN L
      BY <1>3, <1>6, <1>7, <2>2
    <3> QED
      BY <1>2, <1>6, <2>1, <3>1 DEF Laid
  <2>3. CASE i = n + 1
    <3>1. k \in 1..m /\ e = L[k + 1] /\ k + 1 \in DOMAIN L /\ 1 \in DOMAIN L /\ 1 < k + 1
      BY <1>6, <1>7, <1>9, <2>1, <2>3
    <3> QED
      BY <1>6, <1>11, <3>1 DEF InOrder
  <2> QED
    BY <1>8, <2>2, <2>3
<1> QED
  BY <1>6, <1>7, <1>10, <1>14, <1>15

-----------------------------------------------------------------------------
(* Where the walk is.                                                      *)

Wrong == {"dir", "entry", "open", "kind", "large", "read", "data"}
Inode == [kind : FileKind, size : Nat]
Record == [path : Tree, whole : BOOLEAN]

TypeOK ==
  /\ inode \in Seq(Inode) /\ entry \in [Tree -> 0..Len(inode)]
  /\ changes \in Nat /\ touched \subseteq Leaf
  /\ pc \in Location /\ arg \in 1..(Len(Args) + 1)
  /\ stack \in Seq(Listing) /\ path \in Tree /\ ok \in BOOLEAN
  /\ result \in {"ok", "failed", "broken", "unwritable"} /\ status \in Nat
  /\ handle \in 0..Len(inode) /\ got \in Nat /\ span \subseteq Nat
  /\ buffer \in Seq(Record) /\ out \in Seq(Record)
  /\ reported \subseteq [path : Tree, what : Wrong]

\* In main, in run, and in analyze_one.
Busy == pc \notin {"args", "exit"}
AtFile == pc \in {"stat", "read", "emit", "flush"}
AtPath == pc \in {"list", "open"} \/ AtFile
Control ==
  /\ Busy => arg <= Len(Args) /\ result \in {"ok", "failed"}
  /\ result \in {"broken", "unwritable"} => arg = Len(Args) + 1
  /\ pc = "exit" => arg = Len(Args) + 1
  /\ ~Busy => stack = <<>>
  /\ AtFile <=> handle # 0
  /\ status = IF pc = "exit" THEN ExitCode(result) ELSE Running

\* What waits on the stack is below the argument, in order, and after the path
\* the walk is at.
Nested ==
  /\ Laid(stack)
  /\ \A e : On(stack, e) => IsPrefix(Args[arg], e.path)
  /\ AtPath => /\ IsPrefix(Args[arg], path)
               /\ \A e : On(stack, e) => Parts(path, e.path)

Basic == TypeOK /\ Control /\ Nested

\* The constants.
LEMMA PathsTyped ==
  /\ \A p \in Tree : p \in Seq(Nat)
  /\ \A k \in 1..Len(Args) : Args[k] \in Tree /\ Args[k] \in ToSet(Args)
  /\ Len(Args) \in Nat /\ Len(Args) # 0 /\ Args[1] \in Tree
  /\ \A a \in ToSet(Args) : \E k \in 1..Len(Args) : a = Args[k]
<1>1. \A p \in Tree : p \in Seq(Nat)
  BY ConstantsTyped DEF ConstantsTyped
<1>2. Args \in Seq(Tree) /\ Args # <<>>
  BY ConstantsTyped DEF ConstantsTyped
<1>3. Len(Args) \in Nat /\ Len(Args) # 0 /\ DOMAIN Args = 1..Len(Args)
  BY <1>2
<1>4. \A k \in 1..Len(Args) : Args[k] \in Tree
  BY <1>2
<1>5. 1 \in 1..Len(Args)
  BY <1>3
<1> QED
  BY <1>1, <1>3, <1>4, <1>5 DEF ToSet

\* Nothing waits on an empty stack.
LEMMA OnNone == Laid(<<>>) /\ \A e : ~On(<<>>, e)
BY DEF Laid, On

\* A directory of the tree that is not one is an argument that links to it.
Rooted == \A p \in Tree \ Leaf : Kind(p) = "dir" \/ (p \in Outer /\ Kind(p) = "dirlink")

\* A file system a run starts on.
LEMMA InitDisk ==
  ASSUME Init
  PROVE  /\ inode \in Seq(Inode) /\ entry \in [Tree -> 1..Len(inode)]
         /\ Rooted
<1>1. PICK leaf \in [Leaf -> UNION {Node(kind) : kind \in Kinds}], linked \in SUBSET Outer :
        LET order == SetToSeq(Tree)
        IN  /\ inode = [i \in DOMAIN order |-> IF order[i] \in Leaf THEN leaf[order[i]]
                                               ELSE [kind |-> IF order[i] \in linked THEN "dirlink" ELSE "dir",
                                                     size |-> 1]]
            /\ entry = [p \in Tree |-> CHOOSE i \in DOMAIN order : order[i] = p]
  BY DEF Init
<1>2. PICK order : order = SetToSeq(Tree)
  OBVIOUS
<1>3. order \in SetToSeqs(Tree)
  <2>1. IsFiniteSet(Tree)
    BY ConstantsTyped DEF ConstantsTyped
  <2>2. \E f \in [1..Cardinality(Tree) -> Tree] : IsInjective(f)
    <3>1. PICK f \in Bijection(1..Cardinality(Tree), Tree) : TRUE
      BY <2>1, FS_CardinalityType DEF ExistsBijection
    <3> QED
      BY <3>1 DEF Bijection, Injection, IsInjective
  <2>3. order \in [1..Cardinality(Tree) -> Tree] /\ IsInjective(order)
    BY <1>2, <2>2 DEF SetToSeq
  <2> QED
    BY <2>3 DEF SetToSeqs, IsInjective
<1>4. PICK n \in Nat : /\ order \in Seq(Tree) /\ DOMAIN order = 1..n
                       /\ \A p \in Tree : \E i \in 1..n : order[i] = p
  <2>1. IsFiniteSet(Tree)
    BY ConstantsTyped DEF ConstantsTyped
  <2>2. Cardinality(Tree) \in Nat
    BY <2>1, FS_CardinalityType
  <2> QED
    BY <1>3, <2>1, <2>2, AllListed
<1>5. /\ inode = [i \in 1..n |-> IF order[i] \in Leaf THEN leaf[order[i]]
                                 ELSE [kind |-> IF order[i] \in linked THEN "dirlink" ELSE "dir",
                                       size |-> 1]]
      /\ entry = [p \in Tree |-> CHOOSE i \in 1..n : order[i] = p]
  BY <1>1, <1>2, <1>4
<1>6. \A kind \in Kinds : \A node \in Node(kind) : node \in Inode
  <2> SUFFICES ASSUME NEW kind \in Kinds, NEW node \in Node(kind)
               PROVE  node \in Inode
    OBVIOUS
  <2>1. kind \in FileKind /\ MaxSize \in Nat
    BY ConstantsTyped DEF ConstantsTyped, FileKind, Regular
  <2>2. (IF kind = Regular THEN {1, MaxSize} ELSE {1}) \subseteq Nat
    BY <2>1
  <2> QED
    BY <2>1, <2>2 DEF Node, Inode
<1>7. \A p \in Leaf : leaf[p] \in Inode
  BY <1>6
<1>8. \A k \in {"dir", "dirlink"} : [kind |-> k, size |-> 1] \in Inode
  BY DEF FileKind, Inode
<1>9. inode \in [1..n -> Inode]
  BY <1>5, <1>7, <1>8
<1>10. inode \in Seq(Inode) /\ Len(inode) = n
  BY <1>9
<1>11. \A p \in Tree : entry[p] \in 1..n /\ order[entry[p]] = p
  BY <1>4, <1>5
<1>12. entry \in [Tree -> 1..Len(inode)]
  BY <1>5, <1>10, <1>11
<1>13. ASSUME NEW p \in Tree \ Leaf
       PROVE  Kind(p) = "dir" \/ (p \in Outer /\ Kind(p) = "dirlink")
  <2>1. entry[p] \in 1..n /\ order[entry[p]] = p /\ entry[p] # 0
    BY <1>11
  <2>2. inode[entry[p]].kind = IF p \in linked THEN "dirlink" ELSE "dir"
    BY <1>5, <2>1
  <2>3. linked \subseteq Outer
    OBVIOUS
  <2> QED
    BY <2>1, <2>2, <2>3 DEF Kind
<1> QED
  BY <1>10, <1>12, <1>13 DEF Rooted

\* The walk starts at the first argument.
LEMMA InitBasic == Init => Basic
<1> SUFFICES ASSUME Init PROVE Basic
  OBVIOUS
<1>1. TypeOK
  <2>1. inode \in Seq(Inode) /\ entry \in [Tree -> 0..Len(inode)]
    <3>1. inode \in Seq(Inode) /\ entry \in [Tree -> 1..Len(inode)]
      BY InitDisk
    <3> QED
      BY <3>1
  <2>2. 0 \in 0..Len(inode)
    BY <2>1
  <2>3. /\ changes = 0 /\ touched = {} /\ pc = "args" /\ arg = 1 /\ stack = <<>>
        /\ path = Args[1] /\ ok = TRUE /\ result = "ok" /\ status = Running
        /\ handle = 0 /\ got = 0 /\ span = {} /\ buffer = <<>> /\ out = <<>> /\ reported = {}
    BY DEF Init
  <2>4. arg \in 1..(Len(Args) + 1) /\ path \in Tree
    BY <2>3, PathsTyped
  <2> QED
    BY <2>1, <2>2, <2>3, <2>4 DEF TypeOK, Location, Running
<1>2. Control
  BY DEF Init, Control, Busy, AtFile
<1>3. Nested
  BY OnNone DEF Init, Nested, AtPath, AtFile
<1> QED
  BY <1>1, <1>2, <1>3 DEF Basic

\* What other programs do leaves the walk where it is, and its open file open.
LEMMA WorldBasic ==
  ASSUME Basic, World
  PROVE  /\ Basic' /\ pc # "exit"
         /\ UNCHANGED <<pc, main, handle, got, output, reported>>
         /\ Len(inode) <= Len(inode')
         /\ \A i \in 1..Len(inode) : inode'[i].kind = inode[i].kind
         /\ \E p \in Leaf : /\ touched' = touched \cup {p}
                            /\ \A q \in Tree : q # p => entry'[q] = entry[q]
         /\ handle # 0 => /\ span \subseteq span'
                          /\ inode[handle].size \in span => inode'[handle].size \in span'
<1>0. /\ pc # "exit" /\ UNCHANGED <<pc, main, handle, got, output, reported>>
      /\ inode \in Seq(Inode) /\ entry \in [Tree -> 0..Len(inode)]
      /\ handle \in 0..Len(inode) /\ span \subseteq Nat /\ changes \in Nat
      /\ touched \subseteq Leaf /\ Len(inode) \in Nat
  BY DEF World, Basic, TypeOK
<1>1. PICK p \in Leaf : Unlink(p) \/ Replace(p) \/ Resize(p)
  BY DEF World
<1>p. p \in Tree /\ changes' = changes + 1 /\ touched' = touched \cup {p}
  BY <1>1 DEF Leaf, Unlink, Replace, Resize, Changes
<1> DEFINE Good ==
             /\ inode' \in Seq(Inode)
             /\ entry' \in [Tree -> 0..Len(inode')] /\ span' \subseteq Nat
             /\ Len(inode) <= Len(inode')
             /\ \A i \in 1..Len(inode) : inode'[i].kind = inode[i].kind
             /\ \A q \in Tree : q # p => entry'[q] = entry[q]
             /\ handle # 0 => /\ span \subseteq span'
                              /\ inode[handle].size \in span => inode'[handle].size \in span'
<1>2. ASSUME Unlink(p) PROVE Good
  <2>1. entry' = [entry EXCEPT ![p] = 0] /\ UNCHANGED <<inode, span>>
    BY <1>2 DEF Unlink
  <2> QED
    BY <1>0, <1>p, <2>1
<1>3. ASSUME Replace(p) PROVE Good
  <2>1. PICK node \in UNION {Node(kind) : kind \in Kinds \cup {"dir"}} :
          inode' = Append(inode, node)
    BY <1>3 DEF Replace
  <2>2. entry' = [entry EXCEPT ![p] = Len(inode')] /\ UNCHANGED span
    BY <1>3 DEF Replace
  <2>3. node \in Inode
    <3>1. PICK kind \in Kinds \cup {"dir"} : node \in Node(kind)
      BY <2>1
    <3>2. kind \in FileKind /\ MaxSize \in Nat
      BY ConstantsTyped DEF ConstantsTyped, FileKind, Regular
    <3>3. (IF kind = Regular THEN {1, MaxSize} ELSE {1}) \subseteq Nat
      BY <3>2
    <3> QED
      BY <3>1, <3>2, <3>3 DEF Node, Inode
  <2>4. /\ inode' \in Seq(Inode) /\ Len(inode') = Len(inode) + 1
        /\ \A i \in 1..Len(inode) : inode'[i] = inode[i]
    BY <1>0, <2>1, <2>3
  <2>5. /\ entry' \in [Tree -> 0..Len(inode')] /\ Len(inode) <= Len(inode')
        /\ \A q \in Tree : q # p => entry'[q] = entry[q]
    BY <1>0, <1>p, <2>2, <2>4
  <2>6. handle # 0 => handle \in 1..Len(inode)
    BY <1>0
  <2> QED
    BY <1>0, <2>2, <2>4, <2>5, <2>6
<1>4. ASSUME Resize(p) PROVE Good
  <2>1. PICK size \in 0..MaxSize :
          /\ inode' = [inode EXCEPT ![entry[p]].size = size]
          /\ span' = IF handle = entry[p] THEN span \cup {size} ELSE span
    BY <1>4 DEF Resize
  <2>2. UNCHANGED entry /\ Kind(p) = Regular
    BY <1>4 DEF Resize
  <2>3. size \in Nat
    BY ConstantsTyped DEF ConstantsTyped
  <2>4. entry[p] \in 1..Len(inode)
    <3>1. entry[p] # 0
      BY <2>2 DEF Kind, Regular
    <3> QED
      BY <1>0, <1>p, <3>1
  <2>5. /\ inode' \in Seq(Inode) /\ Len(inode') = Len(inode)
        /\ \A i \in 1..Len(inode) : /\ inode'[i].kind = inode[i].kind
                                    /\ i # entry[p] => inode'[i] = inode[i]
        /\ inode'[entry[p]].size = size
    <3>1. PICK m : m = entry[p]
      OBVIOUS
    <3>2. PICK node : node = [inode[m] EXCEPT !.size = size]
      OBVIOUS
    <3>3. inode[m] \in Inode /\ m \in 1..Len(inode)
      BY <1>0, <2>4, <3>1
    <3>4. /\ node \in Inode /\ node.kind = inode[m].kind
          /\ node.size = size
      BY <2>3, <3>2, <3>3 DEF Inode
    <3>5. inode' = [inode EXCEPT ![m] = node]
      BY <2>1, <3>1, <3>2
    <3> QED
      BY <1>0, <3>1, <3>3, <3>4, <3>5
  <2>6. /\ entry' \in [Tree -> 0..Len(inode')] /\ Len(inode) <= Len(inode')
        /\ span' \subseteq Nat /\ span \subseteq span'
    BY <1>0, <2>1, <2>2, <2>3, <2>5
  <2>7. (handle # 0 /\ inode[handle].size \in span) => inode'[handle].size \in span'
    <3>1. handle # 0 => handle \in 1..Len(inode)
      BY <1>0
    <3> QED
      BY <2>1, <2>5, <3>1
  <2> QED
    BY <2>2, <2>5, <2>6, <2>7
<1>5. Good
  BY <1>1, <1>2, <1>3, <1>4
<1>6. TypeOK'
  <2>1. handle' \in 0..Len(inode')
    BY <1>0, <1>5
  <2> QED
    BY <1>0, <1>p, <1>5, <2>1 DEF TypeOK, main, output, Basic
<1>7. Control' /\ Nested'
  BY <1>0 DEF Basic, Control, Nested, Busy, AtFile, AtPath, main
<1> QED
  BY <1>0, <1>p, <1>5, <1>6, <1>7 DEF Basic

\* A step that stays in analyze_one and keeps what it has open.
LEMMA StayBasic ==
  ASSUME Basic, AtFile, pc' \in {"stat", "read", "emit", "flush"},
         UNCHANGED <<disk, main, handle, span, out, reported>>,
         got' \in Nat, buffer' \in Seq(Record)
  PROVE  Basic'
<1>1. TypeOK'
  BY DEF Basic, TypeOK, disk, main, Location
<1>2. Control'
  BY DEF Basic, Control, Busy, AtFile, main
<1>3. Nested'
  BY DEF Basic, Nested, AtPath, AtFile, main
<1> QED
  BY <1>1, <1>2, <1>3 DEF Basic

\* analyze_one returns: to the walk, or to main.
LEMMA BackBasic ==
  ASSUME Basic, pc = "open" \/ AtFile, NEW fine \in BOOLEAN, Back(fine),
         UNCHANGED disk, handle' = 0, got' = 0, span' = {},
         buffer' \in Seq(Record), out' \in Seq(Record),
         reported' \subseteq [path : Tree, what : Wrong]
  PROVE  /\ Basic' /\ ok' = (ok /\ fine) /\ UNCHANGED <<stack, path, status>>
         /\ \/ /\ stack = <<>> /\ pc' = "args" /\ arg' = arg + 1
               /\ result' = IF fine THEN result ELSE "failed"
            \/ stack # <<>> /\ pc' = "entries" /\ UNCHANGED <<result, arg>>
<1>1. /\ ok' = (ok /\ fine) /\ UNCHANGED <<stack, path, status>>
      /\ \/ /\ stack = <<>> /\ pc' = "args" /\ arg' = arg + 1
            /\ result' = IF fine THEN result ELSE "failed"
         \/ stack # <<>> /\ pc' = "entries" /\ UNCHANGED <<result, arg>>
  BY DEF Back, Returned
<1>2. Busy /\ arg <= Len(Args) /\ result \in {"ok", "failed"} /\ pc # "exit"
  BY DEF Basic, Control, Busy, AtFile
<1>3. Len(Args) \in Nat /\ ok' \in BOOLEAN /\ 0 \in 0..Len(inode)
  BY <1>1, PathsTyped DEF Basic, TypeOK
<1>4. TypeOK'
  BY <1>1, <1>2, <1>3 DEF Basic, TypeOK, disk, Location
<1>5. Control'
  BY <1>1, <1>2, <1>3 DEF Basic, Control, Busy, AtFile, TypeOK
<1>6. Nested'
  BY <1>1, OnNone DEF Basic, Nested, AtPath, AtFile
<1> QED
  BY <1>1, <1>4, <1>5, <1>6 DEF Basic

\* ... as when it refuses the file.
LEMMA RefuseBasic ==
  ASSUME Basic, pc = "open" \/ AtFile, NEW what \in Wrong, Refuse(what)
  PROVE  /\ Basic' /\ ok' = FALSE /\ UNCHANGED <<stack, path, status, disk, output>>
         /\ reported' = reported \cup {[path |-> path, what |-> what]}
         /\ handle' = 0 /\ got' = 0 /\ span' = {}
         /\ \/ stack = <<>> /\ pc' = "args" /\ arg' = arg + 1 /\ result' = "failed"
            \/ stack # <<>> /\ pc' = "entries" /\ UNCHANGED <<result, arg>>
<1>1. /\ reported' = reported \cup {[path |-> path, what |-> what]}
      /\ Back(FALSE) /\ handle' = 0 /\ got' = 0 /\ span' = {} /\ UNCHANGED <<disk, output>>
  BY DEF Refuse, Report
<1>2. /\ buffer' \in Seq(Record) /\ out' \in Seq(Record)
      /\ reported' \subseteq [path : Tree, what : Wrong]
  BY <1>1 DEF Basic, TypeOK, output
<1> QED
  BY <1>1, <1>2, BackBasic

\* main begins an argument.
LEMMA BeginBasic == Basic /\ Begin => Basic'
<1> SUFFICES ASSUME Basic, Begin PROVE Basic'
  OBVIOUS
<1>1. /\ pc = "args" /\ arg <= Len(Args) /\ path' = Args[arg] /\ ok' = TRUE
      /\ pc' \in {"list", "open"}
      /\ UNCHANGED <<disk, arg, stack, result, status, reading, output, reported>>
  BY DEF Begin
<1>2. stack = <<>> /\ arg \in 1..Len(Args) /\ Args[arg] \in Tree /\ Args[arg] \in Seq(Nat)
  BY <1>1, PathsTyped DEF Basic, TypeOK, Control, Busy
<1>3. TypeOK'
  BY <1>1, <1>2 DEF Basic, TypeOK, disk, reading, output, Location
<1>4. Control'
  BY <1>1, <1>2, PathsTyped DEF Basic, TypeOK, Control, Busy, AtFile, reading
<1>5. Nested'
  BY <1>1, <1>2, OnNone, Prefixes3 DEF Nested, AtPath, AtFile
<1> QED
  BY <1>3, <1>4, <1>5 DEF Basic

\* main ends.
LEMMA ExitBasic == Basic /\ Exit => Basic'
<1> SUFFICES ASSUME Basic, Exit PROVE Basic'
  OBVIOUS
<1>1. /\ pc = "args" /\ arg > Len(Args) /\ status' = ExitCode(result)
      /\ out' \in {out, out \o buffer} /\ buffer' = <<>> /\ pc' = "exit"
      /\ UNCHANGED <<disk, arg, stack, path, ok, result, reading, reported>>
  BY DEF Exit
<1>2. out' \in Seq(Record) /\ buffer' \in Seq(Record) /\ status' \in Nat
  <2>1. out \in Seq(Record) /\ buffer \in Seq(Record)
    BY DEF Basic, TypeOK
  <2>2. out \o buffer \in Seq(Record)
    BY <2>1
  <2>3. ExitCode(result) \in Nat
    BY DEF ExitCode
  <2>4. <<>> \in Seq(Record)
    OBVIOUS
  <2> QED
    BY <1>1, <2>1, <2>2, <2>3, <2>4
<1>3. TypeOK'
  BY <1>1, <1>2 DEF Basic, TypeOK, disk, reading, Location
<1>4. Control'
  <2>1. arg = Len(Args) + 1
    BY <1>1, PathsTyped DEF Basic, TypeOK
  <2> QED
    BY <1>1, <2>1 DEF Basic, Control, Busy, AtFile, reading
<1>5. Nested'
  BY <1>1 DEF Basic, Nested, AtPath, AtFile
<1> QED
  BY <1>3, <1>4, <1>5 DEF Basic

\* What a listing finds.
LEMMA ListFinds ==
  ASSUME Basic, List
  PROVE  \E unread, P \in SUBSET Children(path) : \E L \in Listing :
           /\ unread \cup P = {p \in Children(path) : entry[p] # 0}
           /\ stack' = Append(stack, L) /\ InOrder(L)
           /\ \A k \in DOMAIN L : L[k].path \in P /\ L[k].kind = Kind(L[k].path)
           /\ \A p \in P : \E k \in DOMAIN L : L[k] = [path |-> p, kind |-> Kind(p)]
           /\ ok' = (ok /\ unread = {})
           /\ reported' = reported \cup {[path |-> p, what |-> "entry"] : p \in unread}
<1> DEFINE present == {p \in Children(path) : entry[p] # 0}
<1>1. PICK unread \in SUBSET present : \E order \in SetToSeqs(present \ unread) :
             /\ stack' = Append(stack, Sorted([i \in DOMAIN order |->
                           [path |-> order[i], kind |-> Kind(order[i])]]))
             /\ NoteUnread(unread)
  BY DEF List
<1>2. PICK order \in SetToSeqs(present \ unread) :
             /\ stack' = Append(stack, Sorted([i \in DOMAIN order |->
                           [path |-> order[i], kind |-> Kind(order[i])]]))
             /\ NoteUnread(unread)
  BY <1>1
<1>3. PICK P : P = present \ unread
  OBVIOUS
<1>4. PICK L : L = Sorted(Found(order))
  OBVIOUS
<1>5. path \in Seq(Nat) /\ P \in SUBSET Children(path) /\ order \in SetToSeqs(P)
  BY <1>2, <1>3, PathsTyped DEF Basic, TypeOK
<1>6. /\ L \in Seq(Noted(P)) /\ InOrder(L)
      /\ \A p \in P : \E k \in DOMAIN L : L[k] = [path |-> p, kind |-> Kind(p)]
  BY <1>4, <1>5, SortedListing
<1>7. \A p \in P : p \in Tree /\ Kind(p) \in FileKind
  <2> SUFFICES ASSUME NEW p \in P PROVE p \in Tree /\ Kind(p) \in FileKind
    OBVIOUS
  <2>1. p \in Tree /\ entry[p] # 0
    BY <1>3 DEF Children
  <2>2. entry[p] \in 1..Len(inode) /\ inode \in Seq(Inode)
    BY <2>1 DEF Basic, TypeOK
  <2>3. inode[entry[p]] \in Inode
    BY <2>2
  <2> QED
    BY <2>1, <2>3 DEF Kind, Inode
<1>8. Noted(P) \subseteq Entry
  BY <1>7 DEF Noted, Entry
<1>9. \A k \in DOMAIN L : L[k] \in Noted(P)
  BY <1>6
<1>10. L \in Seq(Entry)
  BY <1>6, <1>8, <1>9
<1>11. L \in Listing
  BY <1>10 DEF Listing, Entry, FileKind
<1>12. \A k \in DOMAIN L : L[k].path \in P /\ L[k].kind = Kind(L[k].path)
  BY <1>9 DEF Noted
<1>13. unread \cup P = {p \in Children(path) : entry[p] # 0} /\ unread \in SUBSET Children(path)
  BY <1>3
<1>14. stack' = Append(stack, L)
  BY <1>2, <1>4 DEF Found
<1>15. /\ ok' = (ok /\ unread = {})
       /\ reported' = reported \cup {[path |-> p, what |-> "entry"] : p \in unread}
  BY <1>2 DEF NoteUnread
<1> QED
  BY <1>5, <1>6, <1>11, <1>12, <1>13, <1>14, <1>15

\* A directory is entered, its listing in order before what waits.
LEMMA ListBasic == Basic /\ List => Basic'
<1> SUFFICES ASSUME Basic, List PROVE Basic'
  OBVIOUS
<1>1. PICK unread, P \in SUBSET Children(path) : \E L \in Listing :
           /\ unread \cup P = {p \in Children(path) : entry[p] # 0}
           /\ stack' = Append(stack, L) /\ InOrder(L)
           /\ \A k \in DOMAIN L : L[k].path \in P /\ L[k].kind = Kind(L[k].path)
           /\ \A p \in P : \E k \in DOMAIN L : L[k] = [path |-> p, kind |-> Kind(p)]
           /\ ok' = (ok /\ unread = {})
           /\ reported' = reported \cup {[path |-> p, what |-> "entry"] : p \in unread}
  BY ListFinds
<1>2. PICK L \in Listing :
           /\ stack' = Append(stack, L) /\ InOrder(L)
           /\ \A k \in DOMAIN L : L[k].path \in P
  BY <1>1
<1>3. /\ pc = "list" /\ pc' = "entries"
      /\ UNCHANGED <<disk, arg, path, result, status, reading, output>>
  BY DEF List
<1>4. /\ path \in Tree /\ path \in Seq(Nat) /\ stack \in Seq(Listing) /\ Laid(stack)
      /\ arg \in 1..Len(Args) /\ Args[arg] \in Seq(Nat) /\ IsPrefix(Args[arg], path)
      /\ \A e : On(stack, e) => Parts(path, e.path) /\ IsPrefix(Args[arg], e.path)
  BY <1>3, PathsTyped DEF Basic, TypeOK, Nested, AtPath, Control, Busy
<1>5. \A k \in DOMAIN L : /\ L[k].path \in Seq(Nat) /\ IsPrefix(path, L[k].path)
                          /\ L[k].path \in Tree
  <2> TAKE k \in DOMAIN L
  <2>1. L[k].path \in Children(path)
    BY <1>2
  <2> QED
    BY <1>4, <2>1, Siblings DEF IsStrictPrefix, Children
<1>6. \A k \in DOMAIN L : \A e : On(stack, e) => Parts(L[k].path, e.path)
  <2> SUFFICES ASSUME NEW k \in DOMAIN L, NEW e, On(stack, e) PROVE Parts(L[k].path, e.path)
    OBVIOUS
  <2>1. e.path \in Seq(Nat) /\ IsPrefix(e.path, e.path)
    <3>1. e \in Entry
      BY <1>4, OnTyped
    <3> QED
      BY <3>1, PathsTyped, Prefixes3 DEF Entry
  <2> QED
    BY <1>4, <1>5, <2>1, PartsBelow
<1>7. /\ stack' \in Seq(Listing) /\ Laid(stack')
      /\ \A e : On(stack', e) <=> On(stack, e) \/ \E k \in DOMAIN L : e = L[k]
      /\ stack' # <<>>
  BY <1>2, <1>4, <1>6, Push
<1>8. \A k \in DOMAIN L : IsPrefix(Args[arg], L[k].path)
  BY <1>4, <1>5, Prefixes3
<1>9. ok' \in BOOLEAN /\ reported' \subseteq [path : Tree, what : Wrong]
  <2>1. \A p \in unread : p \in Tree
    BY DEF Children
  <2>2. ok' \in BOOLEAN
    BY <1>1 DEF Basic, TypeOK
  <2>3. {[path |-> p, what |-> "entry"] : p \in unread} \subseteq [path : Tree, what : Wrong]
    BY <2>1 DEF Wrong
  <2>4. reported \subseteq [path : Tree, what : Wrong]
    BY DEF Basic, TypeOK
  <2>5. reported' \subseteq [path : Tree, what : Wrong]
    BY <1>1, <2>3, <2>4
  <2> QED
    BY <2>2, <2>5
<1>10. TypeOK'
  BY <1>3, <1>7, <1>9 DEF Basic, TypeOK, disk, reading, output, Location
<1>11. Control'
  BY <1>3, <1>4 DEF Basic, Control, Busy, AtFile, reading
<1>12. Nested'
  BY <1>3, <1>4, <1>7, <1>8 DEF Nested, AtPath, AtFile
<1> QED
  BY <1>10, <1>11, <1>12 DEF Basic

\* A directory that cannot be read is entered as an empty one.
LEMMA ListFailsBasic ==
  ASSUME Basic, ListFails
  PROVE  Basic' /\ \A e : On(stack', e) <=> On(stack, e)
<1>1. /\ pc = "list" /\ reported' = reported \cup {[path |-> path, what |-> "dir"]}
      /\ ok' = FALSE /\ stack' = Append(stack, <<>>) /\ pc' = "entries"
      /\ UNCHANGED <<disk, arg, path, result, status, reading, output>>
  BY DEF ListFails, Report
<1>2. <<>> \in Listing /\ InOrder(<<>>) /\ DOMAIN <<>> = {}
  BY DEF Listing, InOrder
<1>3. /\ stack \in Seq(Listing) /\ Laid(stack) /\ arg <= Len(Args)
      /\ \A e : On(stack, e) => IsPrefix(Args[arg], e.path)
  BY <1>1 DEF Basic, TypeOK, Nested, Control, Busy
<1>4. PICK L : L = <<>>
  OBVIOUS
<1>5. L \in Listing /\ InOrder(L) /\ DOMAIN L = {} /\ stack' = Append(stack, L)
  BY <1>1, <1>2, <1>4
<1>6. /\ stack' \in Seq(Listing) /\ Laid(stack') /\ stack' # <<>>
      /\ \A e : On(stack', e) <=> On(stack, e)
  BY <1>3, <1>5, Push
<1>r. reported' \subseteq [path : Tree, what : Wrong]
  <2>1. path \in Tree /\ reported \subseteq [path : Tree, what : Wrong]
    BY DEF Basic, TypeOK
  <2>2. [path |-> path, what |-> "dir"] \in [path : Tree, what : Wrong]
    BY <2>1 DEF Wrong
  <2> QED
    BY <1>1, <2>1, <2>2
<1>7. TypeOK'
  BY <1>1, <1>6, <1>r DEF Basic, TypeOK, disk, reading, output, Location
<1>8. Control'
  BY <1>1, <1>3 DEF Basic, Control, Busy, AtFile, reading
<1>9. Nested'
  BY <1>1, <1>3, <1>6 DEF Nested, AtPath, AtFile
<1> QED
  BY <1>6, <1>7, <1>8, <1>9 DEF Basic

\* A listing is left; with the last one, the argument.
LEMMA PopBasic ==
  ASSUME Basic, Pop
  PROVE  /\ Basic' /\ \A e : On(stack', e) <=> On(stack, e)
         /\ \/ /\ stack' = <<>> /\ pc' = "args" /\ arg' = arg + 1
               /\ result' = IF ok THEN result ELSE "failed"
               /\ \A e : ~On(stack, e)
            \/ UNCHANGED <<result, arg, pc>>
<1>1. /\ pc = "entries" /\ stack # <<>> /\ Last(stack) = <<>> /\ stack' = Front(stack)
      /\ UNCHANGED <<disk, path, ok, status, reading, output, reported>>
      /\ \/ /\ Len(stack) = 1 /\ pc' = "args" /\ arg' = arg + 1
            /\ result' = IF ok THEN result ELSE "failed"
         \/ Len(stack) # 1 /\ UNCHANGED <<result, arg, pc>>
  BY DEF Pop, Returned
<1>2. /\ stack \in Seq(Listing) /\ Laid(stack) /\ arg <= Len(Args) /\ result \in {"ok", "failed"}
      /\ \A e : On(stack, e) => IsPrefix(Args[arg], e.path)
      /\ arg \in 1..Len(Args) /\ Len(Args) \in Nat
  BY <1>1, PathsTyped DEF Basic, TypeOK, Nested, Control, Busy
<1>3. /\ stack' \in Seq(Listing) /\ Laid(stack')
      /\ Len(stack) = 1 => stack' = <<>> /\ \A e : ~On(stack, e)
      /\ \A e : On(stack', e) <=> On(stack, e)
  BY <1>1, <1>2, PopEmpty
<1>4. TypeOK'
  BY <1>1, <1>2, <1>3 DEF Basic, TypeOK, disk, reading, output, Location
<1>5. Control'
  BY <1>1, <1>2, <1>3 DEF Basic, Control, Busy, AtFile, reading
<1>6. Nested'
  BY <1>1, <1>2, <1>3 DEF Nested, AtPath, AtFile
<1> QED
  BY <1>1, <1>3, <1>4, <1>5, <1>6 DEF Basic

\* The next entry is taken, which is before what waits.
LEMMA StepBasic ==
  ASSUME Basic, Step
  PROVE  /\ Basic' /\ UNCHANGED <<disk, arg, ok, result, status, reading, output, reported>>
         /\ pc = "entries" /\ stack' # <<>>
         /\ \E h \in Entry : /\ On(stack, h) /\ path' = h.path /\ pc' = Descend(h.kind)
                             /\ \A e : On(stack, e) <=> e = h \/ On(stack', e)
<1>1. PICK h : h = Head(Last(stack))
  OBVIOUS
<1>2. /\ pc = "entries" /\ stack # <<>> /\ Last(stack) # <<>>
      /\ path' = h.path /\ pc' = Descend(h.kind)
      /\ stack' = Append(Front(stack), Tail(Last(stack)))
      /\ UNCHANGED <<disk, arg, ok, result, status, reading, output, reported>>
  BY <1>1 DEF Step
<1>3. /\ stack \in Seq(Listing) /\ Laid(stack) /\ arg <= Len(Args) /\ result \in {"ok", "failed"}
      /\ \A e : On(stack, e) => IsPrefix(Args[arg], e.path)
  BY <1>2 DEF Basic, TypeOK, Nested, Control, Busy
<1>4. /\ h \in Entry /\ stack' \in Seq(Listing) /\ Laid(stack') /\ stack' # <<>>
      /\ \A e : On(stack, e) <=> e = h \/ On(stack', e)
      /\ \A e : On(stack', e) => Parts(h.path, e.path)
  BY <1>1, <1>2, <1>3, TakeNext
<1>5. On(stack, h) /\ path' \in Tree /\ pc' \in {"list", "open", "entries"}
  BY <1>2, <1>4 DEF Entry, Descend
<1>6. TypeOK'
  BY <1>2, <1>4, <1>5 DEF Basic, TypeOK, disk, reading, output, Location
<1>7. Control'
  BY <1>2, <1>3, <1>5 DEF Basic, Control, Busy, AtFile, reading
<1>8. Nested'
  BY <1>2, <1>3, <1>4, <1>5 DEF Nested, AtPath, AtFile
<1> QED
  BY <1>2, <1>4, <1>5, <1>6, <1>7, <1>8 DEF Basic

\* A file is opened by its name.
LEMMA OpenBasic ==
  ASSUME Basic, Open
  PROVE  /\ Basic' /\ pc = "open" /\ pc' = "stat"
         /\ UNCHANGED <<disk, main, got, output, reported>>
         /\ handle' = entry[path] /\ handle' \in 1..Len(inode)
         /\ span' = {inode[handle'].size}
<1>1. /\ pc = "open" /\ pc' = "stat" /\ entry[path] # 0 /\ handle' = entry[path]
      /\ span' = {inode[entry[path]].size}
      /\ UNCHANGED <<disk, main, got, output, reported>>
  BY DEF Open
<1>2. handle' \in 1..Len(inode) /\ handle' # 0 /\ inode \in Seq(Inode)
  BY <1>1 DEF Basic, TypeOK
<1>3. inode[handle'] \in Inode
  BY <1>2
<1>4. span' \subseteq Nat
  BY <1>1, <1>3 DEF Inode
<1>5. TypeOK'
  BY <1>1, <1>2, <1>4 DEF Basic, TypeOK, disk, main, output, Location
<1>6. Control'
  BY <1>1, <1>2 DEF Basic, Control, Busy, AtFile, main
<1>7. Nested'
  BY <1>1 DEF Basic, Nested, AtPath, AtFile, main
<1> QED
  BY <1>1, <1>2, <1>5, <1>6, <1>7 DEF Basic

\* Output cannot be written any more.
LEMMA OutputFailsBasic == Basic /\ OutputFails => Basic'
<1> SUFFICES ASSUME Basic, OutputFails PROVE Basic'
  OBVIOUS
<1>1. /\ pc \in {"emit", "flush"} /\ result' \in {"broken", "unwritable"} /\ stack' = <<>>
      /\ pc' = "args" /\ arg' = Len(Args) + 1 /\ handle' = 0 /\ got' = 0 /\ span' = {}
      /\ UNCHANGED <<disk, path, ok, status, output, reported>>
  BY DEF OutputFails
<1>2. Len(Args) \in Nat /\ 0 \in 0..Len(inode)
  BY PathsTyped DEF Basic, TypeOK
<1>3. TypeOK'
  BY <1>1, <1>2 DEF Basic, TypeOK, disk, output, Location
<1>4. Control'
  BY <1>1, <1>2 DEF Basic, Control, Busy, AtFile
<1>5. Nested'
  BY <1>1, OnNone DEF Nested, AtPath, AtFile
<1> QED
  BY <1>3, <1>4, <1>5 DEF Basic

-----------------------------------------------------------------------------
(* The steps of analyze_one, said once.                                    *)

\* analyze_one refuses the file, or one of its steps goes on, or it returns.
Refusing(what) == /\ pc \in {"open", "stat", "read"} /\ Refuse(what) /\ what \in Wrong
                  /\ what = "large" =>
                       /\ pc \in {"stat", "read"}
                       /\ (pc = "stat" /\ inode[handle].size > MaxBytes)
                          \/ (pc = "read" /\ got > MaxBytes)
Checked == /\ pc = "stat" /\ pc' = "read"
           /\ UNCHANGED <<disk, main, reading, output, reported>>
ReadWhole == /\ pc = "read" /\ pc' = "emit" /\ got <= MaxBytes
             /\ got >= Take \/ got >= inode[handle].size
             /\ UNCHANGED <<disk, main, reading, output, reported>>

\* The program's steps, by what they do.
LEMMA Steps ==
  ASSUME Basic, Next
  PROVE  \/ Begin \/ Exit \/ ListFails \/ List \/ Pop \/ Step \/ Open
         \/ (\E what \in Wrong : Refusing(what)) \/ Checked \/ Read \/ ReadWhole
         \/ Emit \/ Flush \/ Unserialised \/ OutputFails \/ World
<1>1. OpenFails => Refusing("open")
  BY DEF OpenFails, Refusing, Wrong
<1>2. Stat => Refusing("kind") \/ Refusing("large") \/ Checked
  BY DEF Stat, Refusing, Checked, Wrong
<1>3. ReadFails => Refusing("read")
  BY DEF ReadFails, Refusing, Wrong
<1>4. ReadEnds => Refusing("large") \/ ReadWhole
  <2> SUFFICES ASSUME ReadEnds PROVE Refusing("large") \/ ReadWhole
    OBVIOUS
  <2>1. CASE got > MaxBytes
    <3>1. pc = "read" /\ Refuse("large")
      BY <2>1 DEF ReadEnds
    <3>2. Refusing("large")
      BY <2>1, <3>1 DEF Refusing, Wrong
    <3> QED
      BY <3>2
  <2>2. CASE ~(got > MaxBytes)
    <3>1. UNCHANGED <<disk, main, reading, output, reported>> /\ pc = "read" /\ pc' = "emit"
          /\ (got >= Take \/ got >= inode[handle].size)
      BY <2>2 DEF ReadEnds
    <3>2. got <= MaxBytes
      BY <2>2, ConstantsTyped DEF ConstantsTyped, Basic, TypeOK
    <3> QED
      BY <3>1, <3>2 DEF ReadWhole
  <2> QED
    BY <2>1, <2>2
<1>5. {"open", "kind", "large", "read"} \subseteq Wrong
  BY DEF Wrong
<1> QED
  BY <1>1, <1>2, <1>3, <1>4, <1>5 DEF Next, Program

\* A file is refused.
LEMMA RefusingBasic ==
  ASSUME Basic, NEW what \in Wrong, Refusing(what)
  PROVE  /\ Basic' /\ ok' = FALSE /\ UNCHANGED <<stack, path, status, disk, output>>
         /\ reported' = reported \cup {[path |-> path, what |-> what]}
         /\ handle' = 0 /\ got' = 0 /\ span' = {} /\ (pc = "open" \/ AtFile)
         /\ \/ stack = <<>> /\ pc' = "args" /\ arg' = arg + 1 /\ result' = "failed"
            \/ stack # <<>> /\ pc' = "entries" /\ UNCHANGED <<result, arg>>
<1>1. (pc = "open" \/ AtFile) /\ Refuse(what)
  BY DEF Refusing, AtFile
<1> QED
  BY <1>1, RefuseBasic

\* The steps that go on with the open file.
GoesOn == Checked \/ Read \/ ReadWhole \/ Emit

\* Each of them keeps the types, and touches neither the walk nor the output.
LEMMA GoesOnBasic ==
  ASSUME Basic, GoesOn
  PROVE  Basic' /\ AtFile /\ AtFile' /\ UNCHANGED <<disk, main, handle, span, out, reported>>
<1>1. /\ AtFile /\ pc' \in {"stat", "read", "emit", "flush"}
      /\ UNCHANGED <<disk, main, handle, span, out, reported>>
  BY DEF GoesOn, Checked, Read, ReadWhole, Emit, AtFile, reading, output
<1>2. got' \in Nat
  BY DEF GoesOn, Checked, Read, ReadWhole, Emit, reading, Basic, TypeOK
<1>3. buffer' \in Seq(Record)
  <2>1. path \in Tree /\ buffer \in Seq(Record)
    BY DEF Basic, TypeOK
  <2>2. [path |-> path, whole |-> TRUE] \in Record
    BY <2>1 DEF Record
  <2>3. Append(buffer, [path |-> path, whole |-> TRUE]) \in Seq(Record)
    BY <2>1, <2>2
  <2> QED
    BY <2>1, <2>3 DEF GoesOn, Checked, Read, ReadWhole, Emit, output
<1> QED
  BY <1>1, <1>2, <1>3, StayBasic DEF AtFile

\* A file's output is seen, or the file is given up half way.
LEMMA FlushBasic ==
  ASSUME Basic, Flush
  PROVE  /\ Basic' /\ ok' = ok /\ UNCHANGED <<stack, path, status, disk, reported>>
         /\ out' = out \o buffer /\ buffer' = <<>> /\ pc = "flush"
         /\ handle' = 0 /\ got' = 0 /\ span' = {}
         /\ \/ stack = <<>> /\ pc' = "args" /\ arg' = arg + 1 /\ result' = result
            \/ stack # <<>> /\ pc' = "entries" /\ UNCHANGED <<result, arg>>
<1>1. /\ pc = "flush" /\ AtFile /\ out' = out \o buffer /\ buffer' = <<>> /\ Back(TRUE)
      /\ handle' = 0 /\ got' = 0 /\ span' = {} /\ UNCHANGED <<disk, reported>>
  BY DEF Flush, AtFile
<1>2. out \in Seq(Record) /\ buffer \in Seq(Record) /\ ok \in BOOLEAN
  BY DEF Basic, TypeOK
<1>3. out \o buffer \in Seq(Record) /\ <<>> \in Seq(Record)
  BY <1>2
<1>4. reported' \subseteq [path : Tree, what : Wrong]
  BY <1>1 DEF Basic, TypeOK
<1>5. /\ Basic' /\ ok' = (ok /\ TRUE) /\ UNCHANGED <<stack, path, status>>
      /\ \/ /\ stack = <<>> /\ pc' = "args" /\ arg' = arg + 1
            /\ result' = IF TRUE THEN result ELSE "failed"
         \/ stack # <<>> /\ pc' = "entries" /\ UNCHANGED <<result, arg>>
  BY <1>1, <1>3, <1>4, BackBasic
<1> QED
  BY <1>1, <1>2, <1>5

\* A file whose record cannot be written is reported, and failed.
LEMMA UnserialisedBasic ==
  ASSUME Basic, Unserialised
  PROVE  /\ Basic' /\ ok' = FALSE /\ UNCHANGED <<stack, path, status, disk, out>>
         /\ reported' = reported \cup {[path |-> path, what |-> "data"]}
         /\ buffer' \in {buffer, Append(buffer, [path |-> path, whole |-> FALSE])}
         /\ handle' = 0 /\ got' = 0 /\ span' = {} /\ pc = "emit"
         /\ \/ stack = <<>> /\ pc' = "args" /\ arg' = arg + 1 /\ result' = "failed"
            \/ stack # <<>> /\ pc' = "entries" /\ UNCHANGED <<result, arg>>
<1>1. /\ pc = "emit" /\ AtFile /\ Back(FALSE) /\ UNCHANGED <<disk, out>>
      /\ buffer' \in {buffer, Append(buffer, [path |-> path, whole |-> FALSE])}
      /\ reported' = reported \cup {[path |-> path, what |-> "data"]}
      /\ handle' = 0 /\ got' = 0 /\ span' = {}
  BY DEF Unserialised, AtFile, Report
<1>2. /\ out \in Seq(Record) /\ buffer \in Seq(Record) /\ path \in Tree
      /\ reported \subseteq [path : Tree, what : Wrong]
  BY DEF Basic, TypeOK
<1>3. [path |-> path, whole |-> FALSE] \in Record
  BY <1>2 DEF Record
<1>4. [path |-> path, what |-> "data"] \in [path : Tree, what : Wrong]
  BY <1>2 DEF Wrong
<1>5. Append(buffer, [path |-> path, whole |-> FALSE]) \in Seq(Record)
  BY <1>2, <1>3
<1>6. buffer' \in Seq(Record) /\ out' \in Seq(Record)
  BY <1>1, <1>2, <1>5
<1>7. reported' \subseteq [path : Tree, what : Wrong]
  BY <1>1, <1>2, <1>4
<1> QED
  BY <1>1, <1>6, <1>7, BackBasic

\* Where the walk is stays consistent.
LEMMA NextBasic == Basic /\ [Next]_vars => Basic'
<1> SUFFICES ASSUME Basic, [Next]_vars PROVE Basic'
  OBVIOUS
<1>1. CASE UNCHANGED vars
  BY <1>1 DEF vars, disk, main, reading, output, Basic, TypeOK, Control, Nested,
              Busy, AtFile, AtPath
<1>2. CASE Next
  <2>1. \/ Begin \/ Exit \/ ListFails \/ List \/ Pop \/ Step \/ Open
        \/ (\E what \in Wrong : Refusing(what)) \/ GoesOn
        \/ Flush \/ Unserialised \/ OutputFails \/ World
    BY <1>2, Steps DEF GoesOn
  <2> QED
    BY <2>1, BeginBasic, ExitBasic, ListFailsBasic, ListBasic, PopBasic, StepBasic, OpenBasic,
       RefusingBasic, GoesOnBasic, FlushBasic, UnserialisedBasic, OutputFailsBasic, WorldBasic
<1> QED
  BY <1>1, <1>2

\* The types of Walk's variables, whatever else runs.
THEOREM TypeCorrect == Spec => []TypeOK
<1>1. Basic => TypeOK
  BY DEF Basic
<1> QED
  BY <1>1, InitBasic, NextBasic, PTL DEF Spec

-----------------------------------------------------------------------------
(* The exit status.                                                        *)

\* What went wrong is remembered: in run's ok, and then in main's result.
Failing ==
  /\ result = "failed" => reported # {}
  /\ (Busy /\ ~ok) => reported # {}
  /\ reported # {} => result # "ok" \/ (Busy /\ ~ok)
  /\ (AtPath /\ stack = <<>>) => ok

\* Every step keeps the failures and the status together.
LEMMA NextFailing == Basic /\ Failing /\ [Next]_vars => Failing'
<1> SUFFICES ASSUME Basic, Failing, [Next]_vars PROVE Failing'
  OBVIOUS
<1>0. result \in {"ok", "failed", "broken", "unwritable"} /\ ok \in BOOLEAN
  BY DEF Basic, TypeOK
<1>1. CASE UNCHANGED vars
  BY <1>1 DEF vars, main, Failing, Busy, AtPath, AtFile
<1>2. ASSUME Begin PROVE Failing'
  BY <1>2, <1>0 DEF Begin, Failing, Busy, AtPath, AtFile
<1>3. ASSUME Exit PROVE Failing'
  BY <1>3 DEF Exit, Failing, Busy, AtPath, AtFile
<1>4. ASSUME ListFails PROVE Failing'
  <2>1. reported' # {} /\ ok' = FALSE /\ pc' = "entries"
    BY <1>4 DEF ListFails, Report
  <2> QED
    BY <2>1 DEF Failing, Busy, AtPath, AtFile
<1>5. ASSUME List PROVE Failing'
  <2>1. PICK unread \in SUBSET Children(path) :
          /\ ok' = (ok /\ unread = {})
          /\ reported' = reported \cup {[path |-> p, what |-> "entry"] : p \in unread}
    BY <1>5, ListFinds
  <2>2. pc = "list" /\ pc' = "entries" /\ result' = result
    BY <1>5 DEF List
  <2>3. unread # {} => reported' # {}
    BY <2>1
  <2>4. unread = {} => reported' = reported
    BY <2>1
  <2> QED
    BY <1>0, <2>1, <2>2, <2>3, <2>4 DEF Failing, Busy, AtPath, AtFile
<1>6. ASSUME Pop PROVE Failing'
  <2>1. /\ pc = "entries" /\ UNCHANGED <<ok, reported>>
        /\ \/ pc' = "args" /\ result' = IF ok THEN result ELSE "failed"
           \/ UNCHANGED <<result, pc>>
    BY <1>6, PopBasic DEF Pop
  <2> QED
    BY <1>0, <2>1 DEF Failing, Busy, AtPath, AtFile
<1>7. ASSUME Step PROVE Failing'
  <2>1. /\ pc = "entries" /\ UNCHANGED <<ok, result, reported>> /\ stack' # <<>>
        /\ pc' \in {"list", "open", "entries"}
    BY <1>7, StepBasic DEF Descend
  <2> QED
    BY <2>1 DEF Failing, Busy, AtPath, AtFile
<1>8. ASSUME Open PROVE Failing'
  BY <1>8, OpenBasic DEF main, Failing, Busy, AtPath, AtFile
<1>9. ASSUME NEW what \in Wrong, Refusing(what) PROVE Failing'
  <2>1. reported' # {} /\ ok' = FALSE
    BY <1>9, RefusingBasic
  <2>2. \/ pc' = "args" /\ result' = "failed"
        \/ pc' = "entries" /\ result' = result
    BY <1>9, RefusingBasic
  <2> QED
    BY <2>1, <2>2 DEF Failing, Busy, AtPath, AtFile
<1>10. ASSUME GoesOn PROVE Failing'
  BY <1>10, GoesOnBasic DEF main, Failing, Busy, AtPath, AtFile
<1>11. ASSUME Flush PROVE Failing'
  <2>1. /\ ok' = ok /\ reported' = reported /\ pc = "flush"
        /\ \/ stack = <<>> /\ pc' = "args" /\ result' = result
           \/ pc' = "entries" /\ result' = result
    BY <1>11, FlushBasic
  <2> QED
    BY <1>0, <2>1 DEF Failing, Busy, AtPath, AtFile
<1>12. ASSUME Unserialised PROVE Failing'
  <2>1. reported' # {} /\ ok' = FALSE
    BY <1>12, UnserialisedBasic
  <2>2. \/ pc' = "args" /\ result' = "failed"
        \/ pc' = "entries" /\ result' = result
    BY <1>12, UnserialisedBasic
  <2> QED
    BY <2>1, <2>2 DEF Failing, Busy, AtPath, AtFile
<1>13. ASSUME OutputFails PROVE Failing'
  BY <1>13 DEF OutputFails, Failing, Busy, AtPath, AtFile
<1>14. ASSUME World PROVE Failing'
  BY <1>14 DEF World, main, Failing, Busy, AtPath, AtFile
<1> QED
  BY <1>1, <1>2, <1>3, <1>4, <1>5, <1>6, <1>7, <1>8, <1>9, <1>10, <1>11, <1>12, <1>13, <1>14,
     Steps DEF GoesOn

\* The exit status is 0 exactly when nothing was reported and output did not
\* fail, or when the reader went away (exit_code; run's ok and main's result).
THEOREM StatusTrue == Spec => []ExitStatusTrue
<1>1. Init => Failing
  BY DEF Init, Failing, Busy, AtPath, AtFile
<1>2. Basic /\ Failing => ExitStatusTrue
  <2> SUFFICES ASSUME Basic, Failing, Ended PROVE ExitStatusTrue
    BY DEF ExitStatusTrue
  <2>1. /\ status = ExitCode(result) /\ result \in {"ok", "failed", "broken", "unwritable"}
        /\ result = "failed" => reported # {}
        /\ reported # {} => result # "ok"
    BY DEF Basic, Control, TypeOK, Failing, Ended, Busy
  <2> QED
    BY <2>1 DEF ExitStatusTrue, ExitCode
<1> QED
  BY <1>1, <1>2, InitBasic, NextBasic, NextFailing, PTL DEF Spec

-----------------------------------------------------------------------------
(* What is read of a file.                                                 *)

\* The size it has now is one it had; no more was read than it ever had.
Sized ==
  /\ got <= MaxBytes + 1
  /\ handle # 0 => inode[handle].size \in span
  /\ handle = 0 => got = 0
  /\ got > 0 => \E size \in span : got <= size

\* Every step keeps what was read within the sizes the file had.
LEMMA NextSized == Basic /\ Sized /\ [Next]_vars => Sized'
<1> SUFFICES ASSUME Basic, Sized, [Next]_vars PROVE Sized'
  OBVIOUS
<1>0. /\ got \in Nat /\ span \subseteq Nat /\ MaxBytes \in Nat /\ inode \in Seq(Inode)
      /\ handle \in 0..Len(inode)
  BY ConstantsTyped DEF ConstantsTyped, Basic, TypeOK
<1>1. ASSUME UNCHANGED <<inode, handle, got, span>> PROVE Sized'
  BY <1>1 DEF Sized
<1>2. ASSUME handle' = 0, got' = 0 PROVE Sized'
  BY <1>0, <1>2 DEF Sized
<1>3. Begin \/ Exit \/ ListFails \/ List \/ Pop \/ Step => UNCHANGED <<inode, handle, got, span>>
  BY DEF Begin, Exit, ListFails, List, Pop, Step, disk, reading
<1>4. ASSUME Open PROVE Sized'
  <2>1. got = 0
    BY <1>4, OpenBasic DEF Basic, Control, AtFile, Sized
  <2>2. /\ got' = 0 /\ inode' = inode /\ handle' # 0 /\ span' = {inode[handle'].size}
    BY <1>4, <2>1, OpenBasic DEF disk
  <2> QED
    BY <1>0, <2>2 DEF Sized
<1>5. ASSUME NEW what \in Wrong, Refusing(what) PROVE Sized'
  BY <1>2, <1>5, RefusingBasic
<1>6. ASSUME Read PROVE Sized'
  <2>1. /\ got < MaxBytes + 1 /\ got < inode[handle].size /\ got' = got + 1
        /\ UNCHANGED <<inode, handle, span>> /\ handle # 0
    BY <1>6 DEF Read, Take, disk, Basic, Control, AtFile
  <2>2. inode[handle].size \in span /\ inode[handle].size \in Nat
    BY <1>0, <2>1 DEF Sized
  <2>3. got' <= inode[handle].size /\ got' <= MaxBytes + 1
    BY <1>0, <2>1, <2>2
  <2> QED
    BY <2>1, <2>2, <2>3 DEF Sized
<1>7. Checked \/ ReadWhole \/ Emit => UNCHANGED <<inode, handle, got, span>>
  BY DEF Checked, ReadWhole, Emit, disk, reading
<1>8. ASSUME Flush PROVE Sized'
  BY <1>2, <1>8, FlushBasic
<1>9. ASSUME Unserialised PROVE Sized'
  BY <1>2, <1>9, UnserialisedBasic
<1>10. ASSUME OutputFails PROVE Sized'
  BY <1>2, <1>10 DEF OutputFails
<1>11. ASSUME World PROVE Sized'
  <2>1. UNCHANGED <<handle, got>>
    BY <1>11 DEF World
  <2>2. handle # 0 => /\ span \subseteq span'
                      /\ inode[handle].size \in span => inode'[handle].size \in span'
    BY <1>11, WorldBasic
  <2>3. CASE handle = 0
    BY <1>0, <2>1, <2>3 DEF Sized
  <2>4. CASE handle # 0
    BY <2>1, <2>2, <2>4 DEF Sized
  <2> QED
    BY <2>3, <2>4
<1>12. CASE UNCHANGED vars
  BY <1>1, <1>12 DEF vars, disk, reading
<1> QED
  BY <1>1, <1>3, <1>4, <1>5, <1>6, <1>7, <1>8, <1>9, <1>10, <1>11, <1>12, Steps

\* read_input holds one byte over the cap at most, analyses only what is
\* within the cap and read to its end, and refuses for its size only a file
\* that was over the cap while it was open.
THEOREM ReadWholeOrRefused == Spec => ReadsWholeOrRefuses
<1> DEFINE Act ==
      /\ got' <= MaxBytes + 1
      /\ (pc = "read" /\ pc' = "emit") => got <= MaxBytes /\ inode[handle].size <= got
      /\ [path |-> path, what |-> "large"] \in reported' \ reported
           => \E size \in span : size > MaxBytes
<1>1. ASSUME Basic, Sized, Sized', [Next]_vars PROVE [Act]_vars
  <2> SUFFICES ASSUME Next PROVE Act
    BY <1>1
  <2>0. /\ got \in Nat /\ span \subseteq Nat /\ MaxBytes \in Nat /\ inode \in Seq(Inode)
        /\ handle \in 0..Len(inode)
    BY <1>1, ConstantsTyped DEF ConstantsTyped, Basic, TypeOK
  <2>1. got' <= MaxBytes + 1
    BY <1>1 DEF Sized
  <2>2. ASSUME pc = "read", pc' = "emit"
        PROVE  got <= MaxBytes /\ inode[handle].size <= got
    <3>1. ReadWhole
      <4>1. /\ ~Begin /\ ~Exit /\ ~ListFails /\ ~List /\ ~Pop /\ ~Step /\ ~Open
            /\ ~Checked /\ ~Read /\ ~Emit /\ ~Flush /\ ~Unserialised /\ ~OutputFails /\ ~World
        BY <2>2 DEF Begin, Exit, ListFails, List, Pop, Step, Open, Checked, Read, Emit, Flush,
                    Unserialised, OutputFails, World
      <4>2. \A what \in Wrong : ~Refusing(what)
        BY <1>1, <2>2, RefusingBasic
      <4> QED
        BY <1>1, <4>1, <4>2, Steps
    <3>2. inode[handle].size \in Nat
      <4>1. handle \in 1..Len(inode)
        BY <1>1, <2>0, <2>2 DEF Basic, Control, AtFile
      <4>2. inode[handle] \in Inode
        BY <2>0, <4>1
      <4> QED
        BY <4>2 DEF Inode
    <3>3. got <= MaxBytes /\ (got >= MaxBytes + 1 \/ got >= inode[handle].size)
      BY <3>1 DEF ReadWhole, Take
    <3> QED
      BY <2>0, <3>2, <3>3
  <2>3. ASSUME [path |-> path, what |-> "large"] \in reported' \ reported
        PROVE  \E size \in span : size > MaxBytes
    <3>1. Refusing("large")
      <4>1. /\ ~Begin /\ ~Exit /\ ~Pop /\ ~Step /\ ~Open
            /\ ~Checked /\ ~Read /\ ~ReadWhole /\ ~Emit /\ ~Flush /\ ~OutputFails /\ ~World
        BY <2>3 DEF Begin, Exit, Pop, Step, Open, Checked, Read, ReadWhole, Emit, Flush,
                    OutputFails, World
      <4>2. ASSUME ListFails \/ Unserialised PROVE FALSE
        <5>1. PICK what \in {"dir", "data"} :
                reported' = reported \cup {[path |-> path, what |-> what]}
          BY <4>2 DEF ListFails, Unserialised, Report
        <5>2. [path |-> path, what |-> "large"] = [path |-> path, what |-> what]
          BY <2>3, <5>1
        <5> QED
          BY <5>2
      <4>3. ASSUME List PROVE FALSE
        <5>1. PICK unread :
                reported' = reported \cup {[path |-> p, what |-> "entry"] : p \in unread}
          BY <4>3 DEF List, NoteUnread
        <5>2. PICK p \in unread : [path |-> path, what |-> "large"] = [path |-> p, what |-> "entry"]
          BY <2>3, <5>1
        <5> QED
          BY <5>2
      <4>4. \A what \in Wrong : Refusing(what) => what = "large"
        <5> SUFFICES ASSUME NEW what \in Wrong, Refusing(what) PROVE what = "large"
          OBVIOUS
        <5>1. reported' = reported \cup {[path |-> path, what |-> what]}
          BY DEF Refusing, Refuse, Report
        <5>2. [path |-> path, what |-> "large"] = [path |-> path, what |-> what]
          BY <2>3, <5>1
        <5> QED
          BY <5>2
      <4> QED
        BY <1>1, <4>1, <4>2, <4>3, <4>4, Steps
    <3>2. CASE pc = "stat" /\ inode[handle].size > MaxBytes
      <4>1. inode[handle].size \in span
        BY <1>1, <3>2 DEF Sized, Basic, Control, AtFile
      <4> QED
        BY <3>2, <4>1
    <3>3. CASE pc = "read" /\ got > MaxBytes
      <4>1. PICK size \in span : got <= size
        BY <1>1, <2>0, <3>3 DEF Sized
      <4>2. size > MaxBytes
        BY <2>0, <3>3, <4>1
      <4> QED
        BY <4>2
    <3> QED
      BY <3>1, <3>2, <3>3 DEF Refusing
  <2> QED
    BY <2>1, <2>2, <2>3
<1>2. Init => Sized
  BY ConstantsTyped DEF ConstantsTyped, Init, Sized
<1> QED
  BY <1>1, <1>2, InitBasic, NextBasic, NextSized, PTL DEF Spec, ReadsWholeOrRefuses

-----------------------------------------------------------------------------
(* The order of the output.                                                *)

\* No argument is below another.  (Overlapping arguments are each walked, and
\* what is below both is shown twice.)
Apart == \A i, j \in 1..Len(Args) : IsPrefix(Args[i], Args[j]) => i = j

\* What has been written, the part that is still buffered with it.
Shown == out \o buffer
Common(x, y) == \E a \in ToSet(Args) : IsPrefix(a, x) /\ IsPrefix(a, y)

\* It is in order; it is from the arguments so far; and what is of this one
\* comes before everything there is still to walk.
InPathOrder == \A i, j \in DOMAIN Shown : (i < j /\ Common(Shown[i].path, Shown[j].path))
                                          => Parts(Shown[i].path, Shown[j].path)
FromArgument(x) == \E k \in 1..Len(Args) : k <= arg /\ (k = arg => Busy) /\ IsPrefix(Args[k], x)
BeforeRest(x) ==
  (Busy /\ IsPrefix(Args[arg], x)) =>
    /\ \A e : On(stack, e) => Parts(x, e.path)
    /\ pc \in {"list", "open", "stat", "read", "emit"} => Parts(x, path)
Ordered ==
  /\ InPathOrder
  /\ \A i \in DOMAIN Shown : FromArgument(Shown[i].path) /\ BeforeRest(Shown[i].path)

\* What is shown are records of the tree's paths.
LEMMA ShownTyped ==
  ASSUME TypeOK
  PROVE  /\ Shown \in Seq(Record) /\ Len(Shown) \in Nat /\ DOMAIN Shown = 1..Len(Shown)
         /\ \A i \in DOMAIN Shown : Shown[i].path \in Tree /\ Shown[i].path \in Seq(Nat)
<1>1. out \in Seq(Record) /\ buffer \in Seq(Record)
  BY DEF TypeOK
<1>2. Shown \in Seq(Record)
  BY <1>1 DEF Shown
<1>3. Len(Shown) \in Nat /\ DOMAIN Shown = 1..Len(Shown)
  BY <1>2
<1>4. \A i \in DOMAIN Shown : Shown[i] \in Record
  BY <1>2
<1>5. \A r \in Record : r.path \in Tree
  BY DEF Record
<1> QED
  BY <1>2, <1>3, <1>4, <1>5, PathsTyped

\* Of apart arguments, a path is below one.
LEMMA OneArgument ==
  ASSUME Apart, NEW i \in 1..Len(Args), NEW j \in 1..Len(Args), NEW x \in Seq(Nat),
         IsPrefix(Args[i], x), IsPrefix(Args[j], x)
  PROVE  i = j
<1>1. Args[i] \in Seq(Nat) /\ Args[j] \in Seq(Nat)
  BY PathsTyped
<1>2. IsPrefix(Args[i], Args[j]) \/ IsPrefix(Args[j], Args[i])
  BY <1>1, Prefixes3
<1> QED
  BY <1>2 DEF Apart

\* A step that shows nothing more, and after which no more is to be walked.
LEMMA ShowsNothing ==
  ASSUME Basic, Ordered, Shown' = Shown, arg \in Nat, arg' \in Nat, arg <= arg',
         (Busy /\ arg' = arg) => Busy',
         Busy' => /\ Busy /\ arg' = arg /\ \A e : On(stack', e) => On(stack, e)
                  /\ pc' \in {"list", "open", "stat", "read", "emit"} =>
                       pc \in {"list", "open", "stat", "read", "emit"} /\ path' = path
  PROVE  Ordered'
<1>1. InPathOrder'
  BY DEF Ordered, InPathOrder
<1>2. ASSUME NEW i \in DOMAIN Shown PROVE (FromArgument(Shown[i].path))'
  <2>1. PICK k \in 1..Len(Args) : k <= arg /\ (k = arg => Busy) /\ IsPrefix(Args[k], Shown[i].path)
    BY DEF Ordered, FromArgument
  <2>2. k <= arg' /\ (k = arg' => Busy')
    BY <2>1
  <2> QED
    BY <2>1, <2>2 DEF FromArgument
<1>3. ASSUME NEW i \in DOMAIN Shown PROVE (BeforeRest(Shown[i].path))'
  BY DEF Ordered, BeforeRest
<1> QED
  BY <1>1, <1>2, <1>3 DEF Ordered

\* A step that shows the path the walk is at.
LEMMA ShowsPath ==
  ASSUME Apart, Basic, Basic', Ordered, pc = "emit", NEW whole \in BOOLEAN,
         Shown' = Append(Shown, [path |-> path, whole |-> whole]),
         UNCHANGED stack,
         (pc' \in {"flush", "entries"} /\ arg' = arg) \/ (pc' = "args" /\ arg' = arg + 1)
  PROVE  Ordered'
<1> DEFINE n == Len(Shown)
           r == [path |-> path, whole |-> whole]
<1>1. /\ Shown \in Seq(Record) /\ n \in Nat /\ DOMAIN Shown = 1..n
      /\ \A i \in 1..n : Shown[i].path \in Seq(Nat)
  BY ShownTyped DEF Basic
<1>2. /\ DOMAIN Shown' = 1..(n + 1) /\ \A i \in 1..n : Shown'[i] = Shown[i]
      /\ Shown'[n + 1].path = path
  <2>1. r \in Record /\ r.path = path
    BY DEF Record, Basic, TypeOK
  <2>2. Shown' = Append(Shown, r)
    OBVIOUS
  <2> HIDE DEF r
  <2> QED
    BY <1>1, <2>1, <2>2
<1>3. \A i \in 1..(n + 1) : i = n + 1 \/ i \in 1..n
  BY <1>1
<1>4. /\ Busy /\ AtPath /\ arg \in 1..Len(Args) /\ path \in Seq(Nat) /\ IsPrefix(Args[arg], path)
      /\ \A e : On(stack, e) => Parts(path, e.path)
  BY PathsTyped DEF Basic, TypeOK, Control, Nested, Busy, AtPath, AtFile
<1>5. InPathOrder'
  <2> SUFFICES ASSUME NEW i \in 1..(n + 1), NEW j \in 1..(n + 1), i < j,
                      Common(Shown'[i].path, Shown'[j].path)
               PROVE  Parts(Shown'[i].path, Shown'[j].path)
    BY <1>2 DEF InPathOrder, Common
  <2>1. i \in 1..n
    BY <1>1
  <2>2. CASE j \in 1..n
    BY <1>1, <1>2, <2>1, <2>2 DEF Ordered, InPathOrder
  <2>3. CASE j = n + 1
    <3>1. PICK a \in ToSet(Args) : IsPrefix(a, Shown[i].path) /\ IsPrefix(a, path)
      BY <1>2, <2>1, <2>3 DEF Common
    <3>2. PICK k \in 1..Len(Args) : a = Args[k]
      BY PathsTyped
    <3>3. k = arg
      BY <1>4, <3>1, <3>2, OneArgument
    <3>4. Parts(Shown[i].path, path)
      BY <1>1, <1>4, <2>1, <3>1, <3>2, <3>3 DEF Ordered, BeforeRest
    <3> QED
      BY <1>2, <2>1, <2>3, <3>4
  <2> QED
    BY <1>3, <2>2, <2>3
<1>6. ASSUME NEW x, FromArgument(x) \/ x = path PROVE FromArgument(x)'
  <2>1. PICK k \in 1..Len(Args) : k <= arg /\ IsPrefix(Args[k], x)
    BY <1>4, <1>6 DEF FromArgument
  <2>2. k <= arg' /\ (k = arg' => Busy')
    BY <1>4, <2>1 DEF Busy
  <2> QED
    BY <2>1, <2>2 DEF FromArgument
<1>7. ASSUME NEW x, BeforeRest(x) \/ x = path PROVE BeforeRest(x)'
  BY <1>4, <1>7 DEF BeforeRest, Busy
<1>8. ASSUME NEW i \in 1..(n + 1)
      PROVE  (FromArgument(Shown[i].path))' /\ (BeforeRest(Shown[i].path))'
  <2>1. PICK x : x = Shown'[i].path
    OBVIOUS
  <2>2. (FromArgument(x) \/ x = path) /\ (BeforeRest(x) \/ x = path)
    BY <1>1, <1>2, <1>3, <2>1 DEF Ordered
  <2>3. FromArgument(x)' /\ BeforeRest(x)'
    BY <1>6, <1>7, <2>2
  <2> QED
    BY <2>1, <2>3
<1> QED
  BY <1>2, <1>5, <1>8 DEF Ordered

\* A directory listed, an entry taken, an argument begun, the end.
LEMMA ListOrdered ==
  ASSUME Basic, Ordered, List
  PROVE  Ordered'
<1>1. PICK P \in SUBSET Children(path) : \E L \in Listing :
           /\ stack' = Append(stack, L) /\ InOrder(L)
           /\ \A k \in DOMAIN L : L[k].path \in P
  BY ListFinds
<1>2. PICK L \in Listing :
           /\ stack' = Append(stack, L) /\ InOrder(L)
           /\ \A k \in DOMAIN L : L[k].path \in P
  BY <1>1
<1>3. /\ pc = "list" /\ pc' = "entries" /\ UNCHANGED <<arg, path, output>>
      /\ Busy /\ Busy' /\ Shown' = Shown
  BY DEF List, Busy, Shown, output
<1>4. path \in Tree /\ path \in Seq(Nat)
  BY PathsTyped DEF Basic, TypeOK
<1>5. \A e : On(stack', e) => On(stack, e) \/ \E k \in DOMAIN L : e = L[k]
  BY <1>2, PushHolds DEF Basic, TypeOK
<1>6. ASSUME NEW i \in DOMAIN Shown PROVE (BeforeRest(Shown[i].path))'
  <2>1. PICK x : x = Shown[i].path
    OBVIOUS
  <2>2. x \in Seq(Nat) /\ BeforeRest(x)
    BY <2>1, ShownTyped DEF Basic, Ordered
  <2>3. ASSUME IsPrefix(Args[arg], x), NEW e, On(stack', e) PROVE Parts(x, e.path)
    <3>1. CASE On(stack, e)
      BY <1>3, <2>2, <2>3, <3>1 DEF BeforeRest
    <3>2. CASE \E k \in DOMAIN L : e = L[k]
      <4>1. e.path \in Children(path)
        BY <1>2, <3>2
      <4>2. e.path \in Seq(Nat) /\ IsPrefix(path, e.path)
        BY <1>4, <4>1, Siblings DEF IsStrictPrefix
      <4>3. Parts(x, path)
        BY <1>3, <2>2, <2>3 DEF BeforeRest
      <4>4. IsPrefix(x, x)
        BY <2>2, Prefixes3
      <4> QED
        BY <1>4, <2>2, <4>2, <4>3, <4>4, PartsBelow
    <3> QED
      BY <1>5, <2>3, <3>1, <3>2
  <2> QED
    BY <1>3, <2>1, <2>3 DEF BeforeRest
<1>7. ASSUME NEW i \in DOMAIN Shown PROVE (FromArgument(Shown[i].path))'
  BY <1>3 DEF Ordered, FromArgument
<1>8. InPathOrder'
  BY <1>3 DEF Ordered, InPathOrder
<1> QED
  BY <1>3, <1>6, <1>7, <1>8 DEF Ordered

\* The next entry comes after all that was printed.
LEMMA StepOrdered ==
  ASSUME Basic, Ordered, Step
  PROVE  Ordered'
<1>1. PICK h \in Entry : /\ On(stack, h) /\ path' = h.path
                         /\ \A e : On(stack, e) <=> e = h \/ On(stack', e)
  BY StepBasic
<1>2. /\ pc = "entries" /\ Busy /\ Busy' /\ Shown' = Shown /\ arg' = arg
  <2>1. pc = "entries" /\ pc' \in {"list", "open", "entries"} /\ arg' = arg /\ Shown' = Shown
    BY DEF Step, Descend, Shown, output
  <2> QED
    BY <2>1 DEF Busy
<1>3. ASSUME NEW i \in DOMAIN Shown PROVE (BeforeRest(Shown[i].path))'
  BY <1>1, <1>2 DEF Ordered, BeforeRest
<1>4. ASSUME NEW i \in DOMAIN Shown PROVE (FromArgument(Shown[i].path))'
  BY <1>2 DEF Ordered, FromArgument
<1>5. InPathOrder'
  BY <1>2 DEF Ordered, InPathOrder
<1> QED
  BY <1>2, <1>3, <1>4, <1>5 DEF Ordered

\* So does the next argument.
LEMMA BeginOrdered ==
  ASSUME Apart, Basic, Ordered, Begin
  PROVE  Ordered'
<1>1. /\ pc = "args" /\ pc' \in {"list", "open"} /\ ~Busy /\ Busy' /\ Shown' = Shown
      /\ arg' = arg /\ arg \in 1..Len(Args)
  BY PathsTyped DEF Begin, Shown, output, Busy, Basic, TypeOK
<1>2. ASSUME NEW i \in DOMAIN Shown
      PROVE  (BeforeRest(Shown[i].path))' /\ (FromArgument(Shown[i].path))'
  <2>1. PICK x : x = Shown[i].path /\ x \in Seq(Nat)
    BY ShownTyped DEF Basic
  <2>2. PICK k \in 1..Len(Args) : k < arg /\ IsPrefix(Args[k], x)
    BY <1>1, <2>1, PathsTyped DEF Ordered, FromArgument
  <2>3. ~IsPrefix(Args[arg], x)
    <3>1. k # arg
      BY <1>1, <2>2
    <3> QED
      BY <1>1, <2>1, <2>2, <3>1, OneArgument
  <2>4. k <= arg /\ k # arg
    BY <1>1, <2>2
  <2> QED
    BY <1>1, <2>1, <2>2, <2>3, <2>4 DEF BeforeRest, FromArgument
<1>3. InPathOrder'
  BY <1>1 DEF Ordered, InPathOrder
<1> QED
  BY <1>1, <1>2, <1>3 DEF Ordered

\* The exit prints nothing out of turn.
LEMMA ExitOrdered ==
  ASSUME Basic, Ordered, Exit
  PROVE  Ordered'
<1>1. /\ out' \in {out, Shown} /\ buffer' = <<>> /\ arg' = arg /\ ~Busy /\ ~Busy'
  BY DEF Exit, Shown, Busy
<1>2. out \in Seq(Record) /\ buffer \in Seq(Record) /\ Shown \in Seq(Record)
  BY ShownTyped DEF Basic, TypeOK
<1>3. Shown' = out'
  BY <1>1, <1>2, ConcatEmptySeq DEF Shown
<1>4. DOMAIN Shown' \subseteq DOMAIN Shown /\ \A i \in DOMAIN Shown' : Shown'[i] = Shown[i]
  <2>1. CASE out' = Shown
    BY <1>3, <2>1
  <2>2. CASE out' = out
    <3>1. DOMAIN out = 1..Len(out) /\ DOMAIN Shown = 1..(Len(out) + Len(buffer))
      BY <1>2 DEF Shown
    <3>2. \A i \in 1..Len(out) : i \in 1..(Len(out) + Len(buffer)) /\ Shown[i] = out[i]
      BY <1>2 DEF Shown
    <3> QED
      BY <1>3, <2>2, <3>1, <3>2
  <2> QED
    BY <1>1, <2>1, <2>2
<1>5. InPathOrder'
  BY <1>4 DEF Ordered, InPathOrder, Common
<1>6. ASSUME NEW i \in DOMAIN Shown'
      PROVE  (BeforeRest(Shown[i].path))' /\ (FromArgument(Shown[i].path))'
  <2>1. FromArgument(Shown[i].path) /\ Shown'[i] = Shown[i]
    BY <1>4 DEF Ordered
  <2> QED
    BY <1>1, <2>1 DEF BeforeRest, FromArgument
<1> QED
  BY <1>5, <1>6 DEF Ordered

\* What is shown keeps its order.
LEMMA NextOrdered ==
  ASSUME Apart, Basic, Basic', Ordered, Next
  PROVE  Ordered'
<1>0. /\ arg \in 1..(Len(Args) + 1) /\ Len(Args) \in Nat /\ arg \in Nat /\ arg' \in Nat
      /\ out \in Seq(Record) /\ buffer \in Seq(Record) /\ path \in Tree
  BY PathsTyped DEF Basic, TypeOK
<1>1. ASSUME ListFails PROVE Ordered'
  <2>1. Busy /\ Busy' /\ Shown' = Shown /\ arg' = arg /\ pc' = "entries"
    BY <1>1 DEF ListFails, Busy, Shown, output
  <2>2. \A e : On(stack', e) => On(stack, e)
    BY <1>1, ListFailsBasic
  <2> QED
    BY <1>0, <2>1, <2>2, ShowsNothing
<1>2. ASSUME Pop PROVE Ordered'
  <2>1. /\ Shown' = Shown /\ pc = "entries" /\ Busy
        /\ (pc' = "args" /\ arg' = arg + 1) \/ UNCHANGED <<arg, pc>>
    BY <1>2, PopBasic DEF Pop, Shown, output, Busy
  <2>2. \A e : On(stack', e) => On(stack, e)
    BY <1>2, PopBasic
  <2>3. /\ arg <= arg'
        /\ (Busy /\ arg' = arg) => Busy'
        /\ Busy' => arg' = arg /\ pc' = "entries"
    BY <1>0, <2>1 DEF Busy
  <2> QED
    BY <1>0, <2>1, <2>2, <2>3, ShowsNothing
<1>3. ASSUME Open PROVE Ordered'
  <2>1. /\ Shown' = Shown /\ UNCHANGED <<arg, stack, path>> /\ pc = "open" /\ pc' = "stat"
    BY <1>3, OpenBasic DEF Shown, output, main
  <2> QED
    BY <1>0, <2>1, ShowsNothing DEF Busy
<1>4. ASSUME NEW what \in Wrong, Refusing(what) PROVE Ordered'
  <2>1. /\ Shown' = Shown /\ stack' = stack /\ Busy
        /\ (pc' = "args" /\ arg' = arg + 1) \/ (pc' = "entries" /\ arg' = arg)
    BY <1>4, RefusingBasic DEF Shown, output, Busy, AtFile
  <2> QED
    BY <1>0, <2>1, ShowsNothing DEF Busy
<1>5. ASSUME Checked \/ Read \/ ReadWhole PROVE Ordered'
  <2>1. /\ Shown' = Shown /\ UNCHANGED <<arg, stack, path>>
        /\ pc \in {"stat", "read"} /\ pc' \in {"read", "emit"}
    BY <1>5 DEF Checked, Read, ReadWhole, Shown, output, main
  <2> QED
    BY <1>0, <2>1, ShowsNothing DEF Busy
<1>6. ASSUME Emit PROVE Ordered'
  <2>1. PICK r \in Record : r = [path |-> path, whole |-> TRUE]
    BY <1>0 DEF Record
  <2>2. /\ buffer' = Append(buffer, r) /\ out' = out /\ UNCHANGED <<arg, stack>>
        /\ pc = "emit" /\ pc' = "flush"
    BY <1>6, <2>1 DEF Emit, main
  <2>3. Shown' = Append(Shown, r)
    BY <1>0, <2>2, AppendIsConcat, ConcatAssociative DEF Shown
  <2> QED
    BY <2>1, <2>2, <2>3, ShowsPath
<1>7. ASSUME Unserialised PROVE Ordered'
  <2>1. PICK r \in Record : r = [path |-> path, whole |-> FALSE]
    BY <1>0 DEF Record
  <2>2. /\ buffer' \in {buffer, Append(buffer, r)} /\ out' = out /\ stack' = stack
        /\ pc = "emit" /\ Busy
        /\ (pc' = "args" /\ arg' = arg + 1) \/ (pc' = "entries" /\ arg' = arg)
    BY <1>7, <2>1, UnserialisedBasic DEF Busy
  <2>3. CASE buffer' = buffer
    <3>1. Shown' = Shown
      BY <2>2, <2>3 DEF Shown
    <3> QED
      BY <1>0, <2>2, <3>1, ShowsNothing DEF Busy
  <2>4. CASE buffer' = Append(buffer, r)
    <3>1. Shown' = Append(Shown, r)
      BY <1>0, <2>2, <2>4, AppendIsConcat, ConcatAssociative DEF Shown
    <3> QED
      BY <2>1, <2>2, <3>1, ShowsPath
  <2> QED
    BY <2>2, <2>3, <2>4
<1>8. ASSUME Flush PROVE Ordered'
  <2>1. /\ out' = Shown /\ buffer' = <<>> /\ stack' = stack /\ Busy
        /\ (pc' = "args" /\ arg' = arg + 1) \/ (pc' = "entries" /\ arg' = arg)
    BY <1>8, FlushBasic DEF Shown, Busy
  <2>2. Shown' = Shown
    BY <2>1, ShownTyped, ConcatEmptySeq DEF Basic, Shown
  <2> QED
    BY <1>0, <2>1, <2>2, ShowsNothing DEF Busy
<1>9. ASSUME OutputFails PROVE Ordered'
  <2>1. /\ Shown' = Shown /\ arg' = Len(Args) + 1 /\ pc' = "args" /\ Busy /\ ~Busy'
        /\ arg <= Len(Args)
    BY <1>9 DEF OutputFails, Shown, output, Basic, Control, Busy
  <2>2. arg <= arg' /\ arg' # arg
    BY <1>0, <2>1
  <2> QED
    BY <1>0, <2>1, <2>2, ShowsNothing
<1>10. ASSUME World PROVE Ordered'
  <2>1. /\ Shown' = Shown /\ UNCHANGED <<pc, arg, stack, path>>
    BY <1>10 DEF World, Shown, output, main
  <2> QED
    BY <1>0, <2>1, ShowsNothing DEF Busy
<1> QED
  BY <1>1, <1>2, <1>3, <1>4, <1>5, <1>6, <1>7, <1>8, <1>9, <1>10, Steps, BeginOrdered,
     ExitOrdered, ListOrdered, StepOrdered

\* Of arguments of which none is below another, what is shown is in path order
\* and nothing is shown twice, in whatever order directories were read.
THEOREM ShownInOrder ==
  ASSUME Apart
  PROVE  Spec => []OutputInOrder
<1>1. Init => Ordered
  <2> SUFFICES ASSUME Init PROVE Ordered
    OBVIOUS
  <2>1. out = <<>> /\ buffer = <<>>
    BY DEF Init
  <2>2. Shown = <<>> /\ DOMAIN Shown = {}
    BY <2>1, ConcatEmptySeq DEF Shown
  <2> QED
    BY <2>2 DEF Ordered, InPathOrder
<1>2. Basic /\ Basic' /\ Ordered /\ [Next]_vars => Ordered'
  <2> SUFFICES ASSUME Basic, Basic', Ordered, [Next]_vars PROVE Ordered'
    OBVIOUS
  <2>1. CASE UNCHANGED vars
    BY <2>1 DEF vars, main, output, Ordered, InPathOrder, FromArgument, BeforeRest, Shown, Busy
  <2> QED
    BY <2>1, NextOrdered
<1>3. Basic /\ Ordered => OutputInOrder
  <2> SUFFICES ASSUME Basic, Ordered PROVE OutputInOrder
    OBVIOUS
  <2>1. out \in Seq(Record) /\ buffer \in Seq(Record)
    BY DEF Basic, TypeOK
  <2>2. \A i \in DOMAIN out : i \in DOMAIN Shown /\ Shown[i] = out[i]
    BY <2>1 DEF Shown
  <2> QED
    BY <2>2, PartsBefore DEF OutputInOrder, Ordered, InPathOrder, Common
<1> QED
  BY <1>1, <1>2, <1>3, InitBasic, NextBasic, PTL DEF Spec

-----------------------------------------------------------------------------
(* Nothing is skipped.                                                     *)

\* The way down from a directory to a path below it is through a child.
LEMMA Descent ==
  ASSUME NEW d \in Tree, NEW p \in Tree, NEW a \in ToSet(Args),
         IsPrefix(a, d), IsStrictPrefix(d, p)
  PROVE  \E c \in Children(d) : IsPrefix(c, p)
<1> DEFINE Between == {c \in Tree : IsStrictPrefix(d, c) /\ IsPrefix(c, p)}
           N == {n \in Nat : \E c \in Between : Len(c) = n}
<1>1. d \in Seq(Nat) /\ p \in Seq(Nat) /\ a \in Seq(Nat)
  BY PathsTyped
<1>2. Len(p) \in N
  <2>1. p \in Between
    BY <1>1, Prefixes3
  <2> QED
    BY <1>1, <2>1
<1>3. PICK n \in N : \A m \in N : n <= m
  <2>1. N \in SUBSET Nat /\ N # {}
    BY <1>2
  <2> HIDE DEF N
  <2> QED
    BY <2>1, LeastNumber
<1>4. PICK c \in Between : Len(c) = n
  BY <1>3
<1>5. /\ c \in Tree /\ c \in Seq(Nat) /\ IsPrefix(d, c) /\ IsPrefix(c, p) /\ d # c
      /\ Len(c) \in Nat /\ Len(d) \in Nat
  BY <1>1, <1>4, PathsTyped DEF IsStrictPrefix
<1>6. Len(d) < Len(c)
  <2>1. Len(d) <= Len(c)
    BY <1>1, <1>5, ByComponents
  <2>2. Len(d) # Len(c)
    <3>1. Len(d) = Len(c) => d = c
      <4> SUFFICES ASSUME Len(d) = Len(c) PROVE d = c
        OBVIOUS
      <4>1. \A k \in 1..Len(d) : d[k] = c[k]
        BY <1>1, <1>5, ByComponents
      <4>2. IsPrefix(c, d)
        BY <1>1, <1>5, <4>1, ByComponents
      <4> QED
        BY <1>1, <1>5, <4>2, Prefixes3
    <3> QED
      BY <1>5, <3>1
  <2> QED
    BY <1>5, <2>1, <2>2
<1>7. PICK m \in Nat : Len(c) = m + 1
  <2>1. Len(c) - 1 \in Nat /\ Len(c) = (Len(c) - 1) + 1
    BY <1>5, <1>6
  <2> QED
    BY <2>1
<1>8. PICK f : f = Front(c)
  OBVIOUS
<1>9. /\ f \in Tree /\ f \in Seq(Nat) /\ Len(f) = m /\ \A k \in 1..m : f[k] = c[k]
  <2>1. IsStrictPrefix(a, c)
    <3>1. IsPrefix(a, c)
      BY <1>1, <1>5, Prefixes3
    <3>2. a # c
      <4>1. IsPrefix(d, c) /\ IsPrefix(a, d) /\ d # c
        BY <1>5
      <4>2. a = c => d = c
        BY <1>1, <1>5, Prefixes3
      <4> QED
        BY <4>1, <4>2
    <3> QED
      BY <3>1, <3>2 DEF IsStrictPrefix
  <2>2. f \in Tree
    BY <1>5, <1>8, <2>1, ConstantsTyped DEF ConstantsTyped
  <2>3. Len(c) - 1 = m
    BY <1>7
  <2>4. f = SubSeq(c, 1, m)
    BY <1>8, <2>3 DEF Front
  <2> QED
    BY <1>5, <1>7, <2>2, <2>4, PathsTyped
<1>10. /\ \A k \in 1..Len(d) : k \in 1..m /\ k \in 1..(m + 1)
       /\ \A k \in 1..m : k \in 1..(m + 1) /\ k \in 1..Len(p)
       /\ Len(d) <= m
  <2>1. Len(c) <= Len(p)
    BY <1>1, <1>5, ByComponents
  <2> QED
    BY <1>1, <1>5, <1>6, <1>7, <2>1
<1>11. IsPrefix(d, f) /\ IsPrefix(f, p)
  <2>1. /\ \A k \in 1..Len(d) : d[k] = c[k]
        /\ Len(c) <= Len(p) /\ \A k \in 1..Len(c) : c[k] = p[k]
    BY <1>1, <1>5, ByComponents
  <2>2. \A k \in 1..Len(d) : d[k] = f[k]
    BY <1>9, <1>10, <2>1
  <2>3. \A k \in 1..m : f[k] = p[k]
    BY <1>7, <1>9, <1>10, <2>1
  <2>4. Len(d) <= Len(f) /\ Len(f) <= Len(p)
    BY <1>1, <1>5, <1>7, <1>9, <1>10, <2>1
  <2> QED
    BY <1>1, <1>9, <2>2, <2>3, <2>4, ByComponents
<1>12. d = f
  <2> SUFFICES ASSUME d # f PROVE FALSE
    OBVIOUS
  <2>1. f \in Between
    BY <1>9, <1>11 DEF IsStrictPrefix
  <2>2. m \in N
    BY <1>9, <2>1
  <2>3. n <= m
    BY <1>3, <2>2
  <2> QED
    BY <1>4, <1>7, <2>3
<1>13. c \in Children(d)
  BY <1>5, <1>7, <1>8, <1>9, <1>12 DEF Children
<1> QED
  BY <1>5, <1>13

\* A leaf has nothing below it.
LEMMA BelowLeaf ==
  ASSUME NEW l \in Leaf, NEW p \in Tree, NEW a \in ToSet(Args), IsPrefix(a, l), IsPrefix(l, p)
  PROVE  p = l
<1> SUFFICES ASSUME p # l PROVE FALSE
  OBVIOUS
<1>1. l \in Tree /\ Children(l) = {} /\ IsStrictPrefix(l, p)
  BY DEF Leaf, IsStrictPrefix
<1> QED
  BY <1>1, Descent

\* A directory of the tree stays one, what is listed of an entry is so until
\* it is changed, and only a file that is being shown is whole in the buffer.
Unchanged(p) == p \in Tree /\ p \notin touched
Steady ==
  /\ Rooted
  /\ \A e : (On(stack, e) /\ Unchanged(e.path)) => e.kind = Kind(e.path)
  /\ \A e : On(stack, e) => e.path \notin Outer
  /\ (pc = "list" /\ Unchanged(path)) => Kind(path) \in Directory
  /\ (pc = "open" \/ AtFile) => path \in Leaf
  /\ (pc # "flush" /\ result \in {"ok", "failed"}) => \A i \in DOMAIN buffer : ~buffer[i].whole
  /\ pc = "flush" => \E i \in DOMAIN buffer : buffer[i] = [path |-> path, whole |-> TRUE]

\* What changes on disk leaves untouched paths as they are.
LEMMA WorldSteady ==
  ASSUME Basic, Steady, World
  PROVE  Steady' /\ \A p \in Tree : p \notin touched' => p \notin touched /\ Kind(p)' = Kind(p)
<1>1. PICK l \in Leaf : /\ touched' = touched \cup {l}
                        /\ \A q \in Tree : q # l => entry'[q] = entry[q]
  BY WorldBasic
<1>2. /\ inode \in Seq(Inode) /\ entry \in [Tree -> 0..Len(inode)]
      /\ \A i \in 1..Len(inode) : inode'[i].kind = inode[i].kind
      /\ UNCHANGED <<pc, stack, path, result, buffer>>
  BY WorldBasic DEF Basic, TypeOK, main, output
<1>3. \A q \in Tree : q # l => Kind(q)' = Kind(q)
  <2> SUFFICES ASSUME NEW q \in Tree, q # l PROVE Kind(q)' = Kind(q)
    OBVIOUS
  <2>1. entry'[q] = entry[q] /\ entry[q] \in 0..Len(inode)
    BY <1>1, <1>2
  <2>2. entry[q] # 0 => inode'[entry[q]].kind = inode[entry[q]].kind
    BY <1>2, <2>1
  <2> QED
    BY <2>1, <2>2 DEF Kind
<1>4. \A p \in Tree : p \notin touched' => p \notin touched /\ Kind(p)' = Kind(p)
  BY <1>1, <1>3
<1>5. Rooted'
  BY <1>1, <1>3 DEF Steady, Rooted
<1>6. (\A e : (On(stack, e) /\ Unchanged(e.path)) => e.kind = Kind(e.path))'
  BY <1>2, <1>4 DEF Steady, Unchanged
<1>7. ((pc = "list" /\ Unchanged(path)) => Kind(path) \in Directory)'
  BY <1>2, <1>4 DEF Steady, Unchanged
<1>8. ((pc = "open" \/ AtFile) => path \in Leaf)'
  BY <1>2 DEF Steady, AtFile
<1> QED
  BY <1>2, <1>4, <1>5, <1>6, <1>7, <1>8 DEF Steady

\* Steps that leave the disk, the path and the buffer.
LEMMA SameSteady ==
  ASSUME Basic, Steady, UNCHANGED <<disk, path, buffer>>,
         \A e : On(stack', e) => On(stack, e),
         (pc' = "list" => pc = "list"), pc' # "flush" /\ pc # "flush",
         (pc' = "open" => pc = "open"), (AtFile' => AtFile \/ pc = "open"),
         result' \in {"ok", "failed"} => result \in {"ok", "failed"}
  PROVE  Steady'
<1>1. Rooted'
  BY DEF Steady, Rooted, Kind, disk
<1>2. (\A e : (On(stack, e) /\ Unchanged(e.path)) => e.kind = Kind(e.path))'
  BY DEF Steady, Kind, disk, Unchanged
<1>3. ((pc = "list" /\ Unchanged(path)) => Kind(path) \in Directory)'
  BY DEF Steady, Kind, disk, Unchanged
<1> QED
  BY <1>1, <1>2, <1>3 DEF Steady, AtFile

\* An argument begins with nothing left of the one before.
LEMMA BeginSteady == Basic /\ Steady /\ Begin => Steady'
<1> SUFFICES ASSUME Basic, Steady, Begin PROVE Steady'
  OBVIOUS
<1>1. /\ pc = "args" /\ path' = Args[arg] /\ Args[arg] \in Tree
      /\ pc' = IF Kind(Args[arg]) \in Directory THEN "list" ELSE "open"
      /\ UNCHANGED <<inode, entry, touched, stack, result, buffer>>
  BY PathsTyped DEF Begin, disk, output, Basic, TypeOK
<1>2. \A p : Kind(p)' = Kind(p) /\ Unchanged(p)' = Unchanged(p)
  BY <1>1 DEF Kind, Unchanged
<1>3. Kind(Args[arg]) \notin Directory => Args[arg] \in Leaf
  BY <1>1 DEF Steady, Rooted, Directory
<1>4. Rooted'
  BY <1>2 DEF Steady, Rooted
<1>5. (\A e : (On(stack, e) /\ Unchanged(e.path)) => e.kind = Kind(e.path))'
  BY <1>1, <1>2 DEF Steady
<1>6. ((pc = "list" /\ Unchanged(path)) => Kind(path) \in Directory)'
  BY <1>1, <1>2
<1>7. ((pc = "open" \/ AtFile) => path \in Leaf)'
  BY <1>1, <1>3 DEF AtFile
<1> QED
  BY <1>1, <1>4, <1>5, <1>6, <1>7 DEF Steady

\* A listing leaves on the stack what it found, once each.
LEMMA ListSteady == Basic /\ Steady /\ List => Steady'
<1> SUFFICES ASSUME Basic, Steady, List PROVE Steady'
  OBVIOUS
<1>1. PICK P \in SUBSET Children(path) : \E L \in Listing :
           /\ stack' = Append(stack, L)
           /\ \A k \in DOMAIN L : L[k].path \in P /\ L[k].kind = Kind(L[k].path)
  BY ListFinds
<1>2. PICK L \in Listing :
           /\ stack' = Append(stack, L)
           /\ \A k \in DOMAIN L : L[k].path \in P /\ L[k].kind = Kind(L[k].path)
  BY <1>1
<1>3. /\ pc = "list" /\ pc' = "entries"
      /\ UNCHANGED <<inode, entry, touched, path, result, buffer>>
  BY DEF List, disk, output
<1>4. \A p : Kind(p)' = Kind(p) /\ Unchanged(p)' = Unchanged(p)
  BY <1>3 DEF Kind, Unchanged
<1>5. \A e : On(stack', e) => On(stack, e) \/ \E k \in DOMAIN L : e = L[k]
  BY <1>2, PushHolds DEF Basic, TypeOK
<1>8. \A k \in DOMAIN L : L[k].path \notin Outer
  <2> SUFFICES ASSUME NEW k \in DOMAIN L PROVE L[k].path \notin Outer
    OBVIOUS
  <2>1. /\ arg \in 1..Len(Args) /\ Args[arg] \in ToSet(Args) /\ Args[arg] \in Seq(Nat)
        /\ IsPrefix(Args[arg], path) /\ path \in Tree /\ path \in Seq(Nat)
    BY <1>3, PathsTyped DEF Basic, Nested, Control, Busy, AtPath, AtFile, TypeOK
  <2>2. L[k].path \in Children(path)
    BY <1>2
  <2>3. /\ L[k].path \in Seq(Nat) /\ path # L[k].path /\ IsPrefix(path, L[k].path)
    BY <2>1, <2>2, Siblings, PathsTyped DEF Children, IsStrictPrefix
  <2>4. IsPrefix(Args[arg], L[k].path)
    BY <2>1, <2>3, Prefixes3
  <2>5. Args[arg] # L[k].path
    BY <2>1, <2>3, Prefixes3
  <2> QED
    BY <2>1, <2>4, <2>5 DEF Outer, IsStrictPrefix
<1>6. Rooted'
  BY <1>4 DEF Steady, Rooted
<1>7. (\A e : (On(stack, e) /\ Unchanged(e.path)) => e.kind = Kind(e.path))'
  BY <1>2, <1>4, <1>5 DEF Steady
<1> QED
  BY <1>3, <1>5, <1>6, <1>7, <1>8 DEF Steady, AtFile

\* The next entry leaves the stack.
LEMMA StepSteady == Basic /\ Steady /\ Step => Steady'
<1> SUFFICES ASSUME Basic, Steady, Step PROVE Steady'
  OBVIOUS
<1>1. PICK h \in Entry : /\ On(stack, h) /\ path' = h.path /\ pc' = Descend(h.kind)
                         /\ \A e : On(stack, e) <=> e = h \/ On(stack', e)
  BY StepBasic
<1>2. pc = "entries" /\ UNCHANGED <<inode, entry, touched, result, buffer>>
  BY StepBasic DEF disk, output
<1>3. \A p : Kind(p)' = Kind(p) /\ Unchanged(p)' = Unchanged(p)
  BY <1>2 DEF Kind, Unchanged
<1>4. h.path \in Tree
  BY DEF Entry
<1>5. Unchanged(h.path) => h.kind = Kind(h.path)
  BY <1>1 DEF Steady
<1>6. h.kind = Regular => h.path \in Leaf
  <2> SUFFICES ASSUME h.kind = Regular, h.path \notin Leaf PROVE FALSE
    OBVIOUS
  <2>1. Kind(h.path) \in Directory /\ h.path \notin touched
    BY <1>4 DEF Steady, Rooted, Directory, Basic, TypeOK
  <2> QED
    BY <1>4, <1>5, <2>1 DEF Unchanged, Regular, Directory
<1>7. Rooted'
  BY <1>3 DEF Steady, Rooted
<1>8. (\A e : (On(stack, e) /\ Unchanged(e.path)) => e.kind = Kind(e.path))'
  BY <1>1, <1>3 DEF Steady
<1>9. ((pc = "list" /\ Unchanged(path)) => Kind(path) \in Directory)'
  BY <1>1, <1>3, <1>5 DEF Descend, Regular, Directory
<1>10. ((pc = "open" \/ AtFile) => path \in Leaf)'
  BY <1>1, <1>6 DEF Descend, AtFile
<1>11. pc' # "flush"
  BY <1>1 DEF Descend
<1> QED
  BY <1>1, <1>2, <1>7, <1>8, <1>9, <1>10, <1>11 DEF Steady

\* Steps that leave the disk and the path, and have a buffer of their own.
LEMMA BufferSteady ==
  ASSUME Basic, Steady, UNCHANGED <<disk, path, stack>>,
         pc' \in {"flush", "args", "entries"}, pc \in {"emit", "flush"},
         pc' = "flush" => \E i \in DOMAIN buffer' : buffer'[i] = [path |-> path, whole |-> TRUE],
         pc' # "flush" => \A i \in DOMAIN buffer' : ~buffer'[i].whole
  PROVE  Steady'
<1>1. Rooted'
  BY DEF Steady, Rooted, Kind, disk
<1>2. (\A e : (On(stack, e) /\ Unchanged(e.path)) => e.kind = Kind(e.path))'
  BY DEF Steady, Kind, disk, Unchanged
<1> QED
  BY <1>1, <1>2 DEF Steady, AtFile

\* Every step keeps the stack as the walk needs it.
LEMMA NextSteady ==
  ASSUME Basic, Steady, Next
  PROVE  Steady'
<1>0. buffer \in Seq(Record) /\ path \in Tree /\ result \in {"ok", "failed", "broken", "unwritable"}
  BY DEF Basic, TypeOK
<1>1. ASSUME Exit PROVE Steady'
  <2>1. /\ UNCHANGED <<inode, entry, touched, path, stack, result>> /\ buffer' = <<>>
        /\ pc' = "exit"
    BY <1>1 DEF Exit, disk
  <2>2. \A p : Kind(p)' = Kind(p) /\ Unchanged(p)' = Unchanged(p)
    BY <2>1 DEF Kind, Unchanged
  <2>3. (\A e : (On(stack, e) /\ Unchanged(e.path)) => e.kind = Kind(e.path))'
    BY <2>1, <2>2 DEF Steady
  <2>4. Rooted'
    BY <2>2 DEF Steady, Rooted
  <2> QED
    BY <2>1, <2>3, <2>4 DEF Steady, AtFile
<1>2. ASSUME ListFails PROVE Steady'
  <2>1. UNCHANGED <<disk, path, buffer, result>> /\ pc = "list" /\ pc' = "entries"
    BY <1>2 DEF ListFails, output
  <2>2. \A e : On(stack', e) => On(stack, e)
    BY <1>2, ListFailsBasic
  <2> QED
    BY <2>1, <2>2, SameSteady DEF AtFile
<1>3. ASSUME Pop PROVE Steady'
  <2>1. UNCHANGED <<disk, path, buffer>> /\ pc = "entries" /\ pc' \in {"args", "entries"}
    BY <1>3, PopBasic DEF Pop, output
  <2>2. \A e : On(stack', e) => On(stack, e)
    BY <1>3, PopBasic
  <2>3. result \in {"ok", "failed"}
    BY <2>1 DEF Basic, Control, Busy
  <2> QED
    BY <2>1, <2>2, <2>3, SameSteady DEF AtFile
<1>4. ASSUME Open PROVE Steady'
  <2>1. UNCHANGED <<disk, path, stack, buffer, result>> /\ pc = "open" /\ pc' = "stat"
    BY <1>4, OpenBasic DEF main, output
  <2> QED
    BY <2>1, SameSteady DEF AtFile
<1>5. ASSUME NEW what \in Wrong, Refusing(what) PROVE Steady'
  <2>1. /\ UNCHANGED <<disk, path, stack, buffer>> /\ pc \in {"open", "stat", "read"}
        /\ pc' \in {"args", "entries"}
    BY <1>5, RefusingBasic DEF output, Refusing
  <2>2. result \in {"ok", "failed"}
    BY <2>1 DEF Basic, Control, Busy
  <2> QED
    BY <2>1, <2>2, SameSteady DEF AtFile
<1>6. ASSUME Checked \/ Read \/ ReadWhole PROVE Steady'
  <2>1. /\ UNCHANGED <<disk, path, stack, buffer, result>>
        /\ pc \in {"stat", "read"} /\ pc' \in {"read", "emit"}
    BY <1>6 DEF Checked, Read, ReadWhole, main, output
  <2> QED
    BY <2>1, SameSteady DEF AtFile
<1>7. ASSUME Emit PROVE Steady'
  <2>1. PICK r \in Record : r = [path |-> path, whole |-> TRUE]
    BY <1>0 DEF Record
  <2>2. /\ buffer' = Append(buffer, r) /\ UNCHANGED <<disk, path, stack>>
        /\ pc = "emit" /\ pc' = "flush"
    BY <1>7, <2>1 DEF Emit, main
  <2>3. /\ Len(buffer) \in Nat /\ Len(buffer) + 1 \in DOMAIN buffer'
        /\ buffer'[Len(buffer) + 1] = r
    BY <1>0, <2>2
  <2> QED
    BY <2>1, <2>2, <2>3, BufferSteady
<1>8. ASSUME Unserialised PROVE Steady'
  <2>1. PICK r \in Record : r = [path |-> path, whole |-> FALSE] /\ ~r.whole
    <3>1. PICK r : r = [path |-> path, whole |-> FALSE]
      OBVIOUS
    <3>2. r \in Record
      BY <1>0, <3>1 DEF Record
    <3>3. ~r.whole
      BY <3>1
    <3> QED
      BY <3>1, <3>2, <3>3
  <2>2. /\ buffer' \in {buffer, Append(buffer, r)} /\ UNCHANGED <<disk, path, stack>>
        /\ pc = "emit" /\ pc' \in {"args", "entries"}
    BY <1>8, <2>1, UnserialisedBasic
  <2>3. \A i \in DOMAIN buffer : ~buffer[i].whole
    BY <2>2 DEF Steady, Basic, Control, Busy
  <2>4. \A i \in DOMAIN buffer' : ~buffer'[i].whole
    <3>1. CASE buffer' = buffer
      BY <2>3, <3>1
    <3>2. CASE buffer' = Append(buffer, r)
      <4>1. PICK n \in Nat : n = Len(buffer)
        BY <1>0
      <4>2. /\ DOMAIN buffer' = 1..(n + 1) /\ DOMAIN buffer = 1..n /\ buffer'[n + 1] = r
            /\ \A i \in 1..n : buffer'[i] = buffer[i]
        BY <1>0, <3>2, <4>1
      <4>3. \A i \in 1..(n + 1) : i = n + 1 \/ i \in 1..n
        BY <4>1
      <4> QED
        BY <2>1, <2>3, <4>2, <4>3
    <3> QED
      BY <2>2, <3>1, <3>2
  <2> QED
    BY <2>2, <2>4, BufferSteady
<1>9. ASSUME Flush PROVE Steady'
  <2>1. /\ buffer' = <<>> /\ UNCHANGED <<disk, path, stack>>
        /\ pc = "flush" /\ pc' \in {"args", "entries"}
    BY <1>9, FlushBasic
  <2> QED
    BY <2>1, BufferSteady
<1>10. ASSUME OutputFails PROVE Steady'
  <2>1. /\ UNCHANGED <<inode, entry, touched, path, buffer>> /\ stack' = <<>>
        /\ pc' = "args" /\ result' \in {"broken", "unwritable"}
    BY <1>10 DEF OutputFails, disk, output
  <2>2. \A p : Kind(p)' = Kind(p)
    BY <2>1 DEF Kind
  <2>3. Rooted'
    BY <2>2 DEF Steady, Rooted
  <2>4. \A e : ~On(stack', e)
    BY <2>1, OnNone
  <2> QED
    BY <2>1, <2>3, <2>4 DEF Steady, AtFile
<1> QED
  BY <1>1, <1>2, <1>3, <1>4, <1>5, <1>6, <1>7, <1>8, <1>9, <1>10, Steps, BeginSteady,
     ListSteady, StepSteady, WorldSteady

\* A file that is to be shown or accounted for, that is, and that still can be.
Due(p) == Below(p) /\ Kind(p) = Regular /\ p \notin touched
Covered(p) == p \in Whole(out) \cup Reported \/ Above(p) \cap Reported # {}
Waiting(p) == (AtPath /\ IsPrefix(path, p)) \/ \E e : On(stack, e) /\ IsPrefix(e.path, p)
Accounted(p) ==
  /\ \A k \in 1..(arg - 1) : IsPrefix(Args[k], p) => Covered(p)
  /\ (Busy /\ IsPrefix(Args[arg], p)) => Covered(p) \/ Waiting(p)
Covering == result \in {"ok", "failed"} => \A p \in Tree : Due(p) => Accounted(p)

\* What was shown or reported stays so, and what is due was due before.
LEMMA Grows ==
  ASSUME Basic, Steady, Next
  PROVE  /\ \A p : Covered(p) => Covered(p)'
         /\ \A p \in Tree : Due(p)' => Due(p)
         /\ result' \in {"ok", "failed"} => result \in {"ok", "failed"}
<1>0. /\ out \in Seq(Record) /\ buffer \in Seq(Record)
      /\ result \in {"ok", "failed", "broken", "unwritable"}
  BY DEF Basic, TypeOK
<1>1. out' = out \/ out' = out \o buffer
  BY Steps DEF Begin, Exit, ListFails, List, Pop, Step, Open, Refusing, Refuse, Checked, Read,
               ReadWhole, Emit, Flush, Unserialised, OutputFails, World, output
<1>2. \A i \in DOMAIN out : i \in DOMAIN out' /\ out'[i] = out[i]
  <2>1. CASE out' = out
    BY <2>1
  <2>2. CASE out' = out \o buffer
    <3>1. DOMAIN out = 1..Len(out) /\ DOMAIN out' = 1..(Len(out) + Len(buffer))
      BY <1>0, <2>2
    <3> QED
      BY <1>0, <2>2, <3>1
  <2> QED
    BY <1>1, <2>1, <2>2
<1>3. reported \subseteq reported'
  BY Steps DEF Begin, Exit, ListFails, List, NoteUnread, Pop, Step, Open, Refusing, Refuse, Report,
               Checked, Read, ReadWhole, Emit, Flush, Unserialised, OutputFails, World
<1>4. Whole(out) \subseteq Whole(out') /\ Reported \subseteq Reported'
  <2>1. Reported \subseteq Reported'
    BY <1>3 DEF Reported
  <2>2. ASSUME NEW x \in Whole(out) PROVE x \in Whole(out')
    <3>1. PICK i \in DOMAIN out : out[i].whole /\ x = out[i].path
      BY DEF Whole
    <3>2. i \in DOMAIN out' /\ out'[i] = out[i]
      BY <1>2
    <3> QED
      BY <3>1, <3>2 DEF Whole
  <2> QED
    BY <2>1, <2>2
<1>5. \A p : Covered(p) => Covered(p)'
  BY <1>4 DEF Covered, Above
<1>6. \A p \in Tree : Due(p)' => Due(p)
  <2>1. CASE World
    BY <2>1, WorldSteady DEF Due, Below
  <2>2. CASE UNCHANGED disk
    BY <2>2 DEF disk, Due, Below, Kind
  <2>3. World \/ UNCHANGED disk
    BY Steps DEF Begin, Exit, ListFails, List, Pop, Step, Open, Refusing, Refuse, Checked, Read,
                 ReadWhole, Emit, Flush, Unserialised, OutputFails
  <2> QED
    BY <2>1, <2>2, <2>3
<1>7. result' \in {"ok", "failed"} => result \in {"ok", "failed"}
  <2>1. CASE Busy
    BY <2>1 DEF Basic, Control
  <2>2. CASE ~Busy
    <3>1. Begin \/ Exit \/ World
      <4>1. \A what \in Wrong : ~Refusing(what)
        BY <2>2 DEF Refusing, Busy
      <4> QED
        BY <2>2, <4>1, Steps DEF ListFails, List, Pop, Step, Open, Checked, Read,
                          ReadWhole, Emit, Flush, Unserialised, OutputFails, Busy
    <3> QED
      BY <3>1 DEF Begin, Exit, World, main
  <2> QED
    BY <2>1, <2>2
<1> QED
  BY <1>5, <1>6, <1>7

\* A step within an argument, and one that leaves it.
LEMMA Within ==
  ASSUME Basic, Steady, Covering, Next, result' \in {"ok", "failed"}, NEW p \in Tree, Due(p)',
         arg' = arg, Busy' => Busy,
         (Busy /\ IsPrefix(Args[arg], p) /\ Waiting(p)) => Covered(p)' \/ Waiting(p)'
  PROVE  Accounted(p)'
<1>1. Accounted(p) /\ (Covered(p) => Covered(p)')
  BY Grows DEF Covering
<1>2. ASSUME NEW k \in 1..(arg - 1), IsPrefix(Args[k], p) PROVE Covered(p)'
  BY <1>1, <1>2 DEF Accounted
<1>3. (Busy' /\ IsPrefix(Args[arg], p)) => Covered(p)' \/ Waiting(p)'
  BY <1>1 DEF Accounted
<1> QED
  BY <1>2, <1>3 DEF Accounted

\* An argument is left only when everything below it is accounted for.
LEMMA Leaving ==
  ASSUME Basic, Steady, Covering, Next, result' \in {"ok", "failed"}, NEW p \in Tree, Due(p)',
         arg' = arg + 1, Busy, ~Busy',
         (IsPrefix(Args[arg], p) /\ Waiting(p)) => Covered(p)'
  PROVE  Accounted(p)'
<1>1. /\ Accounted(p) /\ (Covered(p) => Covered(p)')
      /\ arg \in 1..Len(Args) /\ Len(Args) \in Nat
  <2>1. Accounted(p) /\ (Covered(p) => Covered(p)')
    BY Grows DEF Covering
  <2>2. arg \in 1..Len(Args) /\ Len(Args) \in Nat
    BY PathsTyped DEF Basic, Control, TypeOK
  <2> QED
    BY <2>1, <2>2
<1>2. ASSUME NEW k \in 1..(arg' - 1), IsPrefix(Args[k], p) PROVE Covered(p)'
  <2>1. k = arg \/ k \in 1..(arg - 1)
    BY <1>1
  <2> QED
    BY <1>1, <1>2, <2>1 DEF Accounted
<1> QED
  BY <1>2 DEF Accounted

\* The return of analyze_one, from a leaf that it showed or reported.
LEMMA Returning ==
  ASSUME Basic, Steady, Covering, Next, result' \in {"ok", "failed"}, NEW p \in Tree, Due(p)',
         pc = "open" \/ AtFile, UNCHANGED <<stack, path>>, Covered(path)',
         (stack = <<>> /\ pc' = "args" /\ arg' = arg + 1) \/ (pc' = "entries" /\ arg' = arg)
  PROVE  Accounted(p)'
<1>1. /\ path \in Leaf /\ Busy /\ AtPath /\ arg \in 1..Len(Args) /\ Args[arg] \in ToSet(Args)
      /\ IsPrefix(Args[arg], path)
  <2>1. path \in Leaf
    BY DEF Steady
  <2>2. Busy /\ AtPath
    BY DEF Busy, AtPath, AtFile
  <2>3. arg \in 1..Len(Args) /\ IsPrefix(Args[arg], path)
    BY <2>2, PathsTyped DEF Basic, Nested, Control, TypeOK
  <2> QED
    BY <2>1, <2>2, <2>3, PathsTyped
<1>2. IsPrefix(path, p) => Covered(p)'
  BY <1>1, BelowLeaf
<1>3. CASE stack = <<>> /\ pc' = "args" /\ arg' = arg + 1
  <2>1. Waiting(p) => IsPrefix(path, p)
    BY <1>3, OnNone DEF Waiting
  <2> QED
    BY <1>1, <1>2, <1>3, <2>1, Leaving DEF Busy
<1>4. CASE pc' = "entries" /\ arg' = arg
  <2>1. Waiting(p) => IsPrefix(path, p) \/ Waiting(p)'
    BY DEF Waiting
  <2> QED
    BY <1>1, <1>2, <1>4, <2>1, Within
<1> QED
  BY <1>3, <1>4

\* A directory listed, and an entry taken: what is below is still waiting.
LEMMA ListCovering ==
  ASSUME Basic, Steady, Covering, Next, result' \in {"ok", "failed"}, NEW p \in Tree, Due(p)', List
  PROVE  Accounted(p)'
<1>1. PICK unread, P \in SUBSET Children(path) : \E L \in Listing :
           /\ unread \cup P = {c \in Children(path) : entry[c] # 0}
           /\ stack' = Append(stack, L)
           /\ \A c \in P : \E k \in DOMAIN L : L[k] = [path |-> c, kind |-> Kind(c)]
           /\ reported' = reported \cup {[path |-> c, what |-> "entry"] : c \in unread}
  BY ListFinds
<1>2. PICK L \in Listing :
           /\ stack' = Append(stack, L)
           /\ \A c \in P : \E k \in DOMAIN L : L[k] = [path |-> c, kind |-> Kind(c)]
  BY <1>1
<1>3. /\ pc = "list" /\ pc' = "entries" /\ Kind(path) \in Directory /\ arg' = arg /\ path \in Tree
      /\ Busy /\ AtPath /\ arg \in 1..Len(Args) /\ Args[arg] \in ToSet(Args)
      /\ IsPrefix(Args[arg], path)
  BY PathsTyped DEF List, Basic, Nested, Control, Busy, AtPath, AtFile, TypeOK
<1>4. Due(p) /\ Kind(p) = Regular
  BY Grows DEF Due
<1>5. \A e : On(stack', e) <=> On(stack, e) \/ \E k \in DOMAIN L : e = L[k]
  BY <1>2, PushHolds DEF Basic, TypeOK
<1>6. ASSUME IsPrefix(path, p) PROVE Covered(p)' \/ Waiting(p)'
  <2>1. IsStrictPrefix(path, p)
    BY <1>3, <1>4, <1>6 DEF IsStrictPrefix, Regular, Directory
  <2>2. PICK c \in Children(path) : IsPrefix(c, p)
    BY <1>3, <2>1, Descent
  <2>3. c \in Tree /\ IsPrefix(Args[arg], c)
    <3>1. c \in Tree /\ c \in Seq(Nat) /\ path \in Seq(Nat) /\ Args[arg] \in Seq(Nat)
      BY <1>3, PathsTyped DEF Children
    <3>2. IsPrefix(path, c)
      BY <3>1, Siblings DEF IsStrictPrefix
    <3> QED
      BY <1>3, <3>1, <3>2, Prefixes3
  <2>4. CASE c \in unread
    <3>1. [path |-> c, what |-> "entry"] \in reported'
      BY <1>1, <2>4
    <3>2. c \in Reported'
      <4>1. PICK r \in reported' : r.path = c
        BY <3>1
      <4> QED
        BY <4>1 DEF Reported
    <3>3. c = p \/ c \in Above(p)
      BY <1>3, <2>2, <2>3 DEF Above, IsStrictPrefix
    <3> QED
      BY <3>2, <3>3 DEF Covered, Above
  <2>5. CASE c \in P
    <3>1. PICK k \in DOMAIN L : L[k] = [path |-> c, kind |-> Kind(c)]
      BY <1>2, <2>5
    <3>2. On(stack', L[k]) /\ L[k].path = c
      BY <1>5, <3>1
    <3> QED
      BY <2>2, <3>2 DEF Waiting
  <2>6. CASE entry[c] = 0
    <3>1. Kind(c) = "gone"
      BY <2>6 DEF Kind
    <3>2. c \in Leaf
      BY <2>3, <3>1 DEF Steady, Rooted
    <3>3. p = c
      BY <1>3, <2>2, <2>3, <3>2, BelowLeaf
    <3> QED
      BY <1>4, <3>1, <3>3 DEF Regular
  <2> QED
    BY <1>1, <2>4, <2>5, <2>6
<1>7. Waiting(p) => Covered(p)' \/ Waiting(p)'
  BY <1>5, <1>6 DEF Waiting
<1> QED
  BY <1>3, <1>7, Within

\* Taking the next entry loses none of the others.
LEMMA StepCovering ==
  ASSUME Basic, Steady, Covering, Next, result' \in {"ok", "failed"}, NEW p \in Tree, Due(p)', Step
  PROVE  Accounted(p)'
<1>1. PICK h \in Entry : /\ On(stack, h) /\ path' = h.path /\ pc' = Descend(h.kind)
                         /\ \A e : On(stack, e) <=> e = h \/ On(stack', e)
  BY StepBasic
<1>2. pc = "entries" /\ arg' = arg /\ Busy /\ ~AtPath
  BY DEF Step, Busy, AtPath, AtFile
<1>3. Due(p) /\ Kind(p) = Regular /\ p \notin touched
  BY Grows DEF Due
<1>4. ASSUME IsPrefix(h.path, p), IsPrefix(Args[arg], p) PROVE Waiting(p)'
  <2>1. /\ h.path \in Tree /\ IsPrefix(Args[arg], h.path) /\ arg \in 1..Len(Args)
        /\ Args[arg] \in ToSet(Args)
    BY <1>1, <1>2, PathsTyped DEF Entry, Basic, Nested, Control, Busy, TypeOK
  <2>2. h.kind \in {"dir", Regular}
    <3>1. CASE h.path \in Leaf
      <4>1. p = h.path
        BY <1>4, <2>1, <3>1, BelowLeaf
      <4> QED
        BY <1>1, <1>3, <4>1 DEF Steady, Unchanged
    <3>2. CASE h.path \notin Leaf
      <4>1. Unchanged(h.path) /\ Kind(h.path) = "dir"
        BY <1>1, <2>1, <3>2 DEF Steady, Rooted, Unchanged, Basic, TypeOK
      <4> QED
        BY <1>1, <4>1 DEF Steady
    <3> QED
      BY <3>1, <3>2
  <2>3. pc' \in {"list", "open"}
    BY <1>1, <2>2 DEF Descend
  <2> QED
    BY <1>1, <1>4, <2>3 DEF Waiting, AtPath
<1>5. (IsPrefix(Args[arg], p) /\ Waiting(p)) => Waiting(p)'
  <2> SUFFICES ASSUME IsPrefix(Args[arg], p), Waiting(p) PROVE Waiting(p)'
    OBVIOUS
  <2>1. PICK e : On(stack, e) /\ IsPrefix(e.path, p)
    BY <1>2 DEF Waiting
  <2>2. CASE e = h
    BY <1>4, <2>1, <2>2
  <2>3. CASE On(stack', e)
    BY <2>1, <2>3 DEF Waiting
  <2> QED
    BY <1>1, <2>1, <2>2, <2>3
<1> QED
  BY <1>2, <1>5, Within

\* Every step keeps everything accounted for.
LEMMA NextCovering ==
  ASSUME Basic, Steady, Covering, Next
  PROVE  Covering'
<1> SUFFICES ASSUME result' \in {"ok", "failed"}, NEW p \in Tree, Due(p)' PROVE Accounted(p)'
  BY DEF Covering
<1>0. /\ result \in {"ok", "failed"} /\ path \in Tree /\ arg \in 1..(Len(Args) + 1)
      /\ Len(Args) \in Nat
      /\ \A x : Covered(x) => Covered(x)'
  BY Grows, PathsTyped DEF Basic, TypeOK
<1>a. ASSUME AtPath
      PROVE  /\ Busy /\ arg \in 1..Len(Args) /\ Args[arg] \in ToSet(Args)
             /\ IsPrefix(Args[arg], path)
  BY <1>a, PathsTyped DEF Basic, Nested, Control, Busy, AtPath, AtFile, TypeOK
<1>1. ASSUME Begin PROVE Accounted(p)'
  <2>1. /\ arg' = arg /\ path' = Args[arg] /\ AtPath' /\ ~Busy
        /\ UNCHANGED <<out, reported>>
    BY <1>1 DEF Begin, AtPath, Busy, output
  <2>2. \A k \in 1..(arg - 1) : IsPrefix(Args[k], p) => Covered(p)
    BY <1>0, Grows DEF Covering, Accounted
  <2>3. IsPrefix(Args[arg], p) => Waiting(p)'
    BY <2>1 DEF Waiting
  <2> QED
    BY <1>0, <2>1, <2>2, <2>3 DEF Accounted
<1>2. ASSUME Exit PROVE Accounted(p)'
  <2>1. arg' = arg /\ ~Busy /\ ~Busy'
    BY <1>2 DEF Exit, Busy
  <2> QED
    BY <2>1, Within
<1>3. ASSUME ListFails PROVE Accounted(p)'
  <2>1. /\ pc = "list" /\ arg' = arg /\ AtPath /\ Busy
        /\ [path |-> path, what |-> "dir"] \in reported'
    BY <1>3 DEF ListFails, Report, AtPath, Busy
  <2>2. \A e : On(stack', e) <=> On(stack, e)
    BY <1>3, ListFailsBasic
  <2>3. IsPrefix(path, p) => Covered(p)'
    <3>1. path \in Reported'
      <4>1. PICK r \in reported' : r.path = path
        BY <2>1
      <4> QED
        BY <4>1 DEF Reported
    <3>2. IsPrefix(path, p) => path = p \/ path \in Above(p)
      BY <1>0, <1>a, <2>1 DEF Above, IsStrictPrefix
    <3> QED
      BY <3>1, <3>2 DEF Covered, Above
  <2>4. Waiting(p) => Covered(p)' \/ Waiting(p)'
    BY <2>2, <2>3 DEF Waiting
  <2> QED
    BY <2>1, <2>4, Within
<1>4. ASSUME Pop PROVE Accounted(p)'
  <2>1. /\ pc = "entries" /\ Busy /\ ~AtPath
        /\ \A e : On(stack', e) <=> On(stack, e)
        /\ \/ pc' = "args" /\ arg' = arg + 1 /\ \A e : ~On(stack, e)
           \/ UNCHANGED <<arg, pc>>
    BY <1>4, PopBasic DEF Pop, Busy, AtPath, AtFile
  <2>2. CASE pc' = "args" /\ arg' = arg + 1 /\ \A e : ~On(stack, e)
    <3>1. ~Waiting(p)
      BY <2>1, <2>2 DEF Waiting
    <3> QED
      BY <2>1, <2>2, <3>1, Leaving DEF Busy
  <2>3. CASE UNCHANGED <<arg, pc>>
    <3>1. Waiting(p) => Waiting(p)'
      BY <2>1 DEF Waiting
    <3> QED
      BY <2>1, <2>3, <3>1, Within
  <2> QED
    BY <2>1, <2>2, <2>3
<1>5. ASSUME UNCHANGED <<arg, stack, path>>, (AtPath' /\ AtPath) \/ pc' = pc
      PROVE  Accounted(p)'
  <2>1. Waiting(p) => Waiting(p)'
    BY <1>5 DEF Waiting, AtPath, AtFile
  <2>2. Busy' => Busy
    BY <1>5, <1>a DEF Busy
  <2> QED
    BY <1>5, <2>1, <2>2, Within
<1>6. ASSUME Open \/ GoesOn PROVE Accounted(p)'
  <2>1. UNCHANGED <<arg, stack, path>> /\ AtPath /\ AtPath'
    BY <1>6 DEF Open, GoesOn, Checked, Read, ReadWhole, Emit, main, AtPath, AtFile
  <2> QED
    BY <1>5, <2>1
<1>7. ASSUME World PROVE Accounted(p)'
  <2>1. UNCHANGED <<arg, stack, path, pc>>
    BY <1>7 DEF World, main
  <2> QED
    BY <1>5, <2>1
<1>8. ASSUME NEW what, [path |-> path, what |-> what] \in reported', path' = path
      PROVE  Covered(path)'
  <2>1. PICK r \in reported' : r.path = path
    BY <1>8
  <2>2. path \in Reported'
    BY <2>1 DEF Reported
  <2> QED
    BY <1>8, <2>2 DEF Covered
<1>9. ASSUME NEW what \in Wrong, Refusing(what) PROVE Accounted(p)'
  <2>1. /\ UNCHANGED <<stack, path>> /\ (pc = "open" \/ AtFile)
        /\ [path |-> path, what |-> what] \in reported'
        /\ (stack = <<>> /\ pc' = "args" /\ arg' = arg + 1) \/ (pc' = "entries" /\ arg' = arg)
    BY <1>9, RefusingBasic
  <2>2. Covered(path)'
    BY <1>8, <2>1
  <2> QED
    BY <2>1, <2>2, Returning
<1>10. ASSUME Unserialised PROVE Accounted(p)'
  <2>1. /\ UNCHANGED <<stack, path>> /\ (pc = "open" \/ AtFile)
        /\ [path |-> path, what |-> "data"] \in reported'
        /\ (stack = <<>> /\ pc' = "args" /\ arg' = arg + 1) \/ (pc' = "entries" /\ arg' = arg)
    BY <1>10, UnserialisedBasic DEF AtFile
  <2>2. Covered(path)'
    BY <1>8, <2>1
  <2> QED
    BY <2>1, <2>2, Returning
<1>11. ASSUME Flush PROVE Accounted(p)'
  <2>1. /\ UNCHANGED <<stack, path>> /\ pc = "flush" /\ (pc = "open" \/ AtFile)
        /\ out' = out \o buffer
        /\ (stack = <<>> /\ pc' = "args" /\ arg' = arg + 1) \/ (pc' = "entries" /\ arg' = arg)
    BY <1>11, FlushBasic DEF AtFile
  <2>2. Covered(path)'
    <3>1. PICK i \in DOMAIN buffer : buffer[i] = [path |-> path, whole |-> TRUE]
      BY <2>1 DEF Steady
    <3>2. out \in Seq(Record) /\ buffer \in Seq(Record)
      BY DEF Basic, TypeOK
    <3>3. PICK j : j = Len(out) + i
      OBVIOUS
    <3>4. j \in DOMAIN out' /\ out'[j] = buffer[i]
      BY <2>1, <3>2, <3>3
    <3>5. out'[j].whole /\ out'[j].path = path
      BY <3>1, <3>4
    <3>6. path \in Whole(out')
      BY <3>4, <3>5 DEF Whole
    <3> QED
      BY <2>1, <3>6 DEF Covered
  <2> QED
    BY <2>1, <2>2, Returning
<1>12. ~OutputFails
  BY DEF OutputFails
<1> QED
  BY <1>1, <1>2, <1>3, <1>4, <1>6, <1>7, <1>9, <1>10, <1>11, <1>12, Steps, ListCovering,
     StepCovering DEF GoesOn

\* A walk that ends with its output intact has shown every regular file that
\* stayed as it was, or has reported it or a directory above it: one failure
\* costs no other file.
THEOREM SkipsNothing == Spec => []NothingSkipped
<1>1. Init => Steady /\ Covering
  <2> SUFFICES ASSUME Init PROVE Steady /\ Covering
    OBVIOUS
  <2>1. /\ stack = <<>> /\ pc = "args" /\ buffer = <<>> /\ arg = 1
        /\ Rooted
    BY InitDisk DEF Init
  <2>2. \A e : ~On(stack, e)
    BY <2>1, OnNone
  <2> QED
    BY <2>1, <2>2 DEF Steady, Covering, Accounted, Busy, AtFile
<1>2. Basic /\ Steady /\ Covering /\ [Next]_vars => Steady' /\ Covering'
  <2> SUFFICES ASSUME Basic, Steady, Covering, [Next]_vars PROVE Steady' /\ Covering'
    OBVIOUS
  <2>1. CASE UNCHANGED vars
    <3>1. UNCHANGED <<inode, entry, touched, pc, arg, stack, path, result, buffer, out, reported>>
      BY <2>1 DEF vars, disk, main, output
    <3>2. Steady'
      BY <3>1 DEF Steady, Rooted, Kind, Unchanged, AtFile
    <3>3. Covering'
      BY <3>1 DEF Covering, Due, Below, Kind, Accounted, Covered, Whole, Reported, Above,
                  Waiting, AtPath, AtFile, Busy
    <3> QED
      BY <3>2, <3>3
  <2> QED
    BY <2>1, NextSteady, NextCovering
<1>3. Basic /\ Covering => NothingSkipped
  <2> SUFFICES ASSUME Basic, Covering, Complete,
                      NEW p \in Tree, Below(p), Kind(p) = Regular, p \notin touched
               PROVE  Covered(p)
    BY DEF NothingSkipped, Covered
  <2>1. arg = Len(Args) + 1 /\ result \in {"ok", "failed"}
    BY DEF Complete, Ended, Basic, Control
  <2>2. PICK k \in 1..Len(Args) : IsPrefix(Args[k], p)
    BY PathsTyped DEF Below
  <2>3. Accounted(p)
    BY <2>1 DEF Covering, Due
  <2>4. k \in 1..(arg - 1)
    BY <2>1, PathsTyped
  <2> QED
    BY <2>2, <2>3, <2>4 DEF Accounted
<1> QED
  BY <1>1, <1>2, <1>3, InitBasic, NextBasic, PTL DEF Spec
=============================================================================
