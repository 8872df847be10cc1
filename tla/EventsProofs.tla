----------------------------- MODULE EventsProofs -----------------------------
(***************************************************************************)
(* What is proved of bound handlers and events, for any tree of elements,  *)
(* and handlers bound and events sent one in another.                      *)
(***************************************************************************)
EXTENDS Events, SequenceTheorems, FiniteSetTheorems, FunctionTheorems,
        WellFoundedInduction, TLAPS

(***************************************************************************)
(* A sequence without its last.                                            *)
(***************************************************************************)
LEMMA FrontOf ==
    ASSUME NEW S, NEW s \in Seq(S), NEW n \in Nat, Len(s) = n + 1
    PROVE  /\ Front(s) \in Seq(S) /\ Len(Front(s)) = n
           /\ \A i \in 1..n : Front(s)[i] = s[i]
<1>1. \A i \in 1..n : s[i] \in S
  OBVIOUS
<1>2. Len(s) - 1 = n
  OBVIOUS
<1>3. Front(s) = SubSeq(s, 1, n)
  BY <1>2 DEF Front
<1>. QED BY <1>1, <1>3, SubSeqProperties

(***************************************************************************)
(* The principle that stands for induction: a set of naturals that is not  *)
(* empty has a least element.                                              *)
(***************************************************************************)
LEMMA LeastNatural ==
    ASSUME NEW T, T \subseteq Nat, T # {}
    PROVE  \E x \in T : \A y \in T : x <= y
<1>1. PICK x \in T : \A y \in T : ~ (<<y, x>> \in OpToRel(<, Nat))
  BY NatLessThanWellFounded, WFMin
<1>2. \A y \in T : ~(y < x)
  BY <1>1 DEF OpToRel
<1>. QED BY <1>2

(***************************************************************************)
(* The places of a set of numbers, by rank.                                *)
(***************************************************************************)
UpTo(K, i) == Cardinality({j \in K : j <= i})

LEMMA UpToTyped ==
    ASSUME NEW n \in Nat, NEW K \in SUBSET (1..n), NEW i \in Nat
    PROVE  /\ IsFiniteSet(K) /\ IsFiniteSet({j \in K : j <= i})
           /\ Cardinality(K) \in Nat
           /\ UpTo(K, i) \in 0..Cardinality(K)
<1>1. IsFiniteSet(1..n)
  BY FS_Interval
<1>2. IsFiniteSet(K)
  BY <1>1, FS_Subset
<1>3. {j \in K : j <= i} \in SUBSET K
  OBVIOUS
<1>4. /\ IsFiniteSet({j \in K : j <= i})
      /\ Cardinality({j \in K : j <= i}) <= Cardinality(K)
  BY <1>2, <1>3, FS_Subset
<1>5. Cardinality(K) \in Nat /\ Cardinality({j \in K : j <= i}) \in Nat
  BY <1>2, <1>4, FS_CardinalityType
<1>. QED BY <1>2, <1>4, <1>5 DEF UpTo

LEMMA UpToGrows ==
    ASSUME NEW n \in Nat, NEW K \in SUBSET (1..n), NEW i \in Nat, NEW j \in Nat, i <= j
    PROVE  /\ UpTo(K, i) <= UpTo(K, j)
           /\ i < j /\ j \in K => UpTo(K, i) < UpTo(K, j)
<1>. DEFINE A == {k \in K : k <= i}
            B == {k \in K : k <= j}
<1>1. /\ IsFiniteSet(A) /\ IsFiniteSet(B)
      /\ UpTo(K, i) \in Nat /\ UpTo(K, j) \in Nat
      /\ UpTo(K, i) = Cardinality(A) /\ UpTo(K, j) = Cardinality(B)
  BY UpToTyped DEF UpTo
<1>. K \subseteq Nat
  OBVIOUS
<1>2. A \in SUBSET B
  <2>1. SUFFICES ASSUME NEW k \in K, k <= i PROVE k <= j
    OBVIOUS
  <2>2. k \in Nat
    OBVIOUS
  <2>. QED BY <2>1, <2>2
<1>3. i < j /\ j \in K => A # B
  <2>1. SUFFICES ASSUME i < j, j \in K PROVE j \in B /\ j \notin A
    OBVIOUS
  <2>. QED BY <2>1
<1>. HIDE DEF A, B
<1>4. Cardinality(A) <= Cardinality(B) /\ (Cardinality(A) = Cardinality(B) => B = A)
  BY <1>1, <1>2, FS_Subset
<1>. QED BY <1>1, <1>3, <1>4

LEMMA UpToLess ==
    ASSUME NEW n \in Nat, NEW K \in SUBSET (1..n), NEW i \in Nat, NEW j \in K, i < j
    PROVE  UpTo(K, i) < UpTo(K, j)
<1>1. j \in 1..n
  OBVIOUS
<1>2. j \in Nat /\ i <= j
  BY <1>1
<1>. QED BY <1>2, UpToGrows

LEMMA UpToAll ==
    ASSUME NEW n \in Nat, NEW K \in SUBSET (1..n), NEW i \in Nat, i >= n
    PROVE  UpTo(K, i) = Cardinality(K)
<1>1. ASSUME NEW j \in K PROVE j <= i
  <2>1. j \in 1..n
    OBVIOUS
  <2>. QED BY <2>1
<1>2. {j \in K : j <= i} = K
  BY <1>1
<1>. QED BY <1>2 DEF UpTo

LEMMA UpToReached ==
    ASSUME NEW n \in Nat, NEW K \in SUBSET (1..n), NEW k \in 1..Cardinality(K)
    PROVE  \E i \in K : UpTo(K, i) = k
<1>. DEFINE T == 1..Cardinality(K)
            f == [i \in K |-> UpTo(K, i)]
<1>1. IsFiniteSet(K) /\ Cardinality(K) \in Nat
  BY UpToTyped
<1>2. IsFiniteSet(T) /\ Cardinality(T) = Cardinality(K)
  BY <1>1, FS_Interval
<1>3. ASSUME NEW i \in K PROVE UpTo(K, i) \in T
  <2>1. i \in 1..n
    OBVIOUS
  <2>2. i \in Nat /\ 0 \in Nat /\ 0 < i /\ 0 <= i
    BY <2>1
  <2>3. UpTo(K, i) \in 0..Cardinality(K) /\ UpTo(K, 0) \in 0..Cardinality(K)
    BY <2>2, UpToTyped
  <2>4. UpTo(K, 0) < UpTo(K, i)
    BY <2>2, UpToGrows
  <2>. QED BY <2>3, <2>4, <1>1
<1>4. ASSUME NEW i \in K, NEW j \in K, i # j PROVE UpTo(K, i) # UpTo(K, j)
  <2>1. i \in 1..n /\ j \in 1..n
    OBVIOUS
  <2>2. i \in Nat /\ j \in Nat
    BY <2>1
  <2>3. UpTo(K, i) \in 0..Cardinality(K) /\ UpTo(K, j) \in 0..Cardinality(K)
    BY <2>2, UpToTyped
  <2>4. UpTo(K, i) \in Nat /\ UpTo(K, j) \in Nat
    BY <2>3, <1>1
  <2>5. i < j => UpTo(K, i) < UpTo(K, j)
    BY <2>2, UpToLess
  <2>6. j < i => UpTo(K, j) < UpTo(K, i)
    BY <2>2, UpToLess
  <2>7. i < j \/ j < i
    BY <1>4, <2>2
  <2>. QED BY <2>4, <2>5, <2>6, <2>7
<1>5. f \in Injection(K, T)
  BY <1>3, <1>4 DEF Injection, IsInjective
<1>. HIDE DEF T, f
<1>6. f \in Surjection(K, T)
  BY <1>1, <1>2, <1>5, FS_Injection
<1>7. k \in T
  BY DEF T
<1>8. \E i \in K : f[i] = k
  BY <1>6, <1>7 DEF Surjection
<1>. QED BY <1>8 DEF f

-------------------------------------------------------------------------------
(* The invariant. *)

Fns == {b.fn : b \in Bound}
Namespaces == {b.ns : b \in Bound}
Bindings ==
    [id : Nat, fn : Fns, selector : SelectorsOn, ns : Namespaces, one : BOOLEAN]
Items == [on : Node, b : Bindings]
Lists == [list : Seq(Bindings), delegateCount : Nat]
EventRecords ==
    [n : Nat, origin : {"trigger", "browser", "method", "done"}, target : Node,
     ns : Namespaces \cup {NoNamespace}, path : Seq(Node), at : Node, todo : Seq(Items),
     on : Node, running : BOOLEAN, stopped : BOOLEAN, immediate : BOOLEAN, prevented : BOOLEAN]
Runs == Node \X Node \X Nat \X BOOLEAN

EventsTyped ==
    /\ handlers \in [Node -> Lists]
    /\ listening \subseteq Node
    /\ triggered \in BOOLEAN
    /\ underway \in Seq(EventRecords)
    /\ sent \in 0..MaxEventsSent /\ binds \in 0..MaxBinds
    /\ runs \in Seq(Seq(Runs)) /\ Len(runs) = sent
    /\ acted \in Seq(Nat) /\ Len(acted) = sent
    /\ nested \in BOOLEAN

(***************************************************************************)
(* The lists: delegates first, and a number for each binding.              *)
(***************************************************************************)
DelegatesFirst(h) ==
    /\ h.delegateCount \in 0..Len(h.list)
    /\ \A i \in 1..Len(h.list) : h.list[i].selector # Direct <=> i <= h.delegateCount

Numbered(hs, n) ==
    \A e \in Node : \A i \in 1..Len(hs[e].list) :
        /\ hs[e].list[i].id \in 1..n
        /\ \A d \in Node : \A j \in 1..Len(hs[d].list) :
              hs[e].list[i].id = hs[d].list[j].id => e = d /\ i = j

ListsHold ==
    /\ \A e \in Node :
          /\ DelegatesFirst(handlers[e])
          /\ e \in listening <=> handlers[e].list # <<>>
    /\ Numbered(handlers, binds)

(***************************************************************************)
(* What is to run on an element: in order, and each binding once for an    *)
(* element.                                                                *)
(***************************************************************************)
Follows(x, y) == x.on = y.on \/ y.on \in ToSet(Up(x.on))

Apart(x, y) == x.b.id # y.b.id \/ x.on # y.on

Orderly(todo) ==
    \A i, j \in 1..Len(todo) : i < j => Follows(todo[i], todo[j]) /\ Apart(todo[i], todo[j])

Known(ev, hs, n) ==
    \A q \in 1..Len(ev.todo) :
        /\ ev.todo[q].b.id \in 1..n
        /\ \A e \in Node : \A i \in 1..Len(hs[e].list) :
              hs[e].list[i].id = ev.todo[q].b.id => e = ev.at /\ hs[e].list[i] = ev.todo[q].b

(***************************************************************************)
(* The way that is left leads up from where the event has been.            *)
(***************************************************************************)
Climbs(ev) ==
    /\ \A p \in 1..Len(ev.path) : ev.path[p] \in ToSet(Up(ev.target))
    /\ \A p, q \in 1..Len(ev.path) : p < q => Higher(ev.path[p], ev.path[q])
    /\ ev.todo # <<>> => \A p \in 1..Len(ev.path) : Higher(ev.at, ev.path[p])

HasRun(ev, ran) ==
    \A i \in 1..Len(ran) :
        /\ \A p \in 1..Len(ev.path) : Higher(ran[i][1], ev.path[p])
        /\ ev.todo # <<>> => ran[i][1] = ev.at \/ Higher(ran[i][1], ev.at)
        /\ ran[i][1] = ev.at =>
              \A q \in 1..Len(ev.todo) :
                 /\ ran[i][2] = ev.todo[q].on \/ ev.todo[q].on \in ToSet(Up(ran[i][2]))
                 /\ ran[i][3] = ev.todo[q].b.id => ran[i][2] # ev.todo[q].on

EventHolds(ev, hs, n, ran, count) ==
    /\ Climbs(ev)
    /\ Orderly(ev.todo)
    /\ Known(ev, hs, n)
    /\ ev.origin # "method" => HasRun(ev, ran)
    /\ ev.origin \in {"method", "done"} => ev.todo = <<>> /\ ~ev.running
    /\ ev.origin = "done" => ev.path = <<>>
    /\ ev.origin = "method" => ~ev.prevented
    /\ ev.origin # "done" => count = 0

(***************************************************************************)
(* The stack: events by their number, each in a handler of the one before, *)
(* but for the method that a trigger() calls at its end.                   *)
(***************************************************************************)
StackInOrder ==
    /\ \A k \in 1..Len(underway) :
          LET ev == underway[k]
          IN  ev.n \in 1..sent /\ EventHolds(ev, handlers, binds, runs[ev.n], acted[ev.n])
    /\ \A j, k \in 1..Len(underway) : j < k =>
          /\ underway[j].origin # "method"
          /\ \/ underway[j].n < underway[k].n
             \/ underway[j].n = underway[k].n /\ underway[j].origin = "done"
    /\ triggered <=> underway # <<>> /\ Inner.origin = "method"

RunsHold ==
    \A n \in 1..sent :
        /\ acted[n] <= 1
        /\ \A i \in 1..Len(runs[n]) : runs[n][i][3] \in 1..binds
        /\ \A i, j \in 1..Len(runs[n]) :
              i < j => runs[n][i] # runs[n][j] /\ Before(runs[n][i], runs[n][j])

(***************************************************************************)
(* While no event has come in another: what is to run once, and is still   *)
(* bound, has not run; what is copied may have run for its own event, on   *)
(* the element where it was copied.                                        *)
(***************************************************************************)
Ran(id, rs) == \E n \in 1..Len(rs) : \E i \in 1..Len(rs[n]) : rs[n][i][3] = id
RanOnce(id, rs) ==
    \E n \in 1..Len(rs) : \E i \in 1..Len(rs[n]) : rs[n][i][3] = id /\ rs[n][i][4]
Spent(b, rs) == RanOnce(b.id, rs) \/ (b.one /\ Ran(b.id, rs))

RanOnlyFor(b, ev, rs) ==
    \A n \in 1..Len(rs) : \A i \in 1..Len(rs[n]) :
        rs[n][i][3] = b.id /\ (rs[n][i][4] \/ b.one) => n = ev.n /\ rs[n][i][1] = ev.at

OnceHolds ==
    ~nested =>
        /\ OnceMeansOnce
        /\ \A k \in 1..Len(underway) : k < Len(underway) => underway[k].origin = "done"
        /\ \A e \in Node : \A i \in 1..Len(handlers[e].list) : ~Spent(handlers[e].list[i], runs)
        /\ \A k \in 1..Len(underway) : \A q \in 1..Len(underway[k].todo) :
              RanOnlyFor(underway[k].todo[q].b, underway[k], runs)

EventsInv == EventsTyped /\ ListsHold /\ StackInOrder /\ RunsHold /\ OnceHolds

-------------------------------------------------------------------------------
(***************************************************************************)
(* What is picked from a list: its elements at growing places.             *)
(***************************************************************************)
PicksBy(r, p, s, K) ==
    /\ r \in [1..Len(p) -> K]
    /\ \A i, j \in 1..Len(p) : i < j => r[i] < r[j]
    /\ \A k \in 1..Len(p) : p[k] = s[r[k]] /\ UpTo(K, r[k]) = k

LEMMA PickedIs ==
    ASSUME NEW S, NEW s \in Seq(S), NEW K \in SUBSET (1..Len(s))
    PROVE  /\ Picked(s, K) \in Seq(S) /\ Len(Picked(s, K)) = Cardinality(K)
           /\ \E r : PicksBy(r, Picked(s, K), s, K)
<1>. DEFINE n == Len(s)
            m == Cardinality(K)
            p == Picked(s, K)
            r == [k \in 1..m |-> CHOOSE i \in K : UpTo(K, i) = k]
<1>1. n \in Nat /\ K \in SUBSET (1..n) /\ m \in Nat
  <2>1. n \in Nat /\ K \in SUBSET (1..n) /\ 0 \in Nat
    OBVIOUS
  <2>. HIDE DEF n
  <2>. QED BY <2>1, UpToTyped
<1>2. p = [k \in 1..m |-> s[r[k]]]
  BY DEF Picked, UpTo
<1>3. ASSUME NEW k \in 1..m PROVE r[k] \in K /\ UpTo(K, r[k]) = k /\ r[k] \in 1..n
  <2>1. \E i \in K : UpTo(K, i) = k
    BY <1>1, UpToReached
  <2>. QED BY <1>1, <2>1
<1>. HIDE DEF p, r, m, n
<1>4. ASSUME NEW k \in 1..m PROVE s[r[k]] \in S
  BY <1>3 DEF n
<1>5. p \in Seq(S) /\ Len(p) = m
  BY <1>1, <1>2, <1>4
<1>6. r \in [1..m -> K]
  BY <1>3 DEF r
<1>7. ASSUME NEW i \in 1..m, NEW j \in 1..m, i < j PROVE r[i] < r[j]
  <2>1. r[i] \in Nat /\ r[j] \in Nat /\ i \in Nat /\ j \in Nat
    BY <1>1, <1>3
  <2>2. UpTo(K, r[i]) = i /\ UpTo(K, r[j]) = j
    BY <1>3
  <2>3. r[j] <= r[i] => UpTo(K, r[j]) <= UpTo(K, r[i])
    BY <1>1, <2>1, UpToGrows
  <2>. QED BY <1>7, <2>1, <2>2, <2>3
<1>8. PicksBy(r, p, s, K)
  BY <1>2, <1>3, <1>5, <1>6, <1>7 DEF PicksBy
<1>. QED BY <1>5, <1>8 DEF p, m

LEMMA Grows ==
    ASSUME NEW n \in Nat, NEW m \in Nat, NEW r \in [1..m -> 1..n],
           \A i, j \in 1..m : i < j => r[i] < r[j]
    PROVE  \A i, j \in 1..m : r[i] = r[j] => i = j
<1>. SUFFICES ASSUME NEW i \in 1..m, NEW j \in 1..m, i < j \/ j < i PROVE r[i] # r[j]
  OBVIOUS
<1>1. r[i] \in Nat /\ r[j] \in Nat
  OBVIOUS
<1>2. r[i] < r[j] \/ r[j] < r[i]
  OBVIOUS
<1>. QED BY <1>1, <1>2

(***************************************************************************)
(* A list that changes: what it holds was at places of its own, but for    *)
(* one that may be new.                                                    *)
(***************************************************************************)
Changes(h, g, b) ==
    /\ g \in Lists /\ DelegatesFirst(g)
    /\ \E r \in [1..Len(g.list) -> 0..Len(h.list)] :
          /\ \A i, j \in 1..Len(g.list) : r[i] = r[j] => i = j
          /\ \A k \in 1..Len(g.list) : g.list[k] = IF r[k] = 0 THEN b ELSE h.list[r[k]]

OnlyLoses(h, g) ==
    /\ g \in Lists /\ DelegatesFirst(g)
    /\ \E r \in [1..Len(g.list) -> 1..Len(h.list)] :
          /\ \A i, j \in 1..Len(g.list) : r[i] = r[j] => i = j
          /\ \A k \in 1..Len(g.list) : g.list[k] = h.list[r[k]]

LEMMA RemovedIs ==
    ASSUME NEW h \in Lists, DelegatesFirst(h), NEW fn, NEW for, NEW ns
    PROVE  LET g == Removed(h, fn, for, ns)
           IN  /\ OnlyLoses(h, g)
               /\ \A k \in 1..Len(g.list) : ~Matches(g.list[k], fn, for, ns)
<1>. DEFINE s == h.list
            n == Len(s)
            d == h.delegateCount
            gone == {i \in 1..n : Matches(s[i], fn, for, ns)}
            K == (1..n) \ gone
            g == Removed(h, fn, for, ns)
            away == {i \in gone : s[i].selector # Direct}
            stay == {i \in K : i <= d}
<1>1. /\ s \in Seq(Bindings) /\ n \in Nat /\ d \in Nat /\ d \in 0..n /\ DOMAIN s = 1..n
      /\ \A i \in 1..n : s[i].selector # Direct <=> i <= d
  BY DEF Lists, DelegatesFirst
<1>2. g = [list |-> Picked(s, K), delegateCount |-> d - Cardinality(away)]
  BY <1>1 DEF Removed
<1>3. K \in SUBSET (1..n)
  OBVIOUS
<1>4. /\ Picked(s, K) \in Seq(Bindings) /\ Len(Picked(s, K)) = Cardinality(K)
      /\ \E r : PicksBy(r, Picked(s, K), s, K)
  <2>. HIDE DEF K, s
  <2>. QED BY <1>1, <1>3, PickedIs DEF n
<1>5. Cardinality(away) + Cardinality(stay) = d
  <2>1. away \cup stay = 1..d /\ away \cap stay = {}
    BY <1>1
  <2>2. IsFiniteSet(1..d) /\ Cardinality(1..d) = d
    <3>1. d \in Nat
      BY <1>1
    <3>. HIDE DEF d
    <3>2. 1 \in Int /\ d \in Int /\ (IF 1 > d THEN 0 ELSE d - 1 + 1) = d
      BY <3>1
    <3>. QED BY <3>2, FS_Interval
  <2>. HIDE DEF away, stay
  <2>3. IsFiniteSet(away) /\ IsFiniteSet(stay)
    <3>1. away \subseteq 1..d /\ stay \subseteq 1..d
      BY <2>1
    <3>. QED BY <2>2, <3>1, FS_Subset
  <2>4. Cardinality(away \cup stay) = Cardinality(away) + Cardinality(stay) - Cardinality({})
    BY <2>1, <2>3, FS_Union
  <2>5. Cardinality({}) = 0 /\ Cardinality(away) \in Nat /\ Cardinality(stay) \in Nat
    BY <2>3, FS_EmptySet, FS_CardinalityType
  <2>6. Cardinality(away) + Cardinality(stay) - 0 = Cardinality(away) + Cardinality(stay)
    BY <2>5
  <2>. QED BY <2>1, <2>2, <2>4, <2>5, <2>6
<1>6. stay \in SUBSET K /\ Cardinality(stay) = UpTo(K, d)
  BY DEF UpTo
<1>7. /\ UpTo(K, d) \in 0..Cardinality(K) /\ Cardinality(K) \in Nat
  <2>. HIDE DEF K
  <2>. QED BY <1>1, <1>3, UpToTyped
<1>8. Cardinality(away) \in Nat
  <2>1. IsFiniteSet(1..n) /\ away \subseteq 1..n
    BY <1>1, FS_Interval
  <2>2. IsFiniteSet(away)
    BY <2>1, FS_Subset
  <2>. QED BY <2>2, FS_CardinalityType
<1>. HIDE DEF away, stay
<1>9. d - Cardinality(away) = UpTo(K, d) /\ UpTo(K, d) \in Nat
  BY <1>1, <1>5, <1>6, <1>7, <1>8
<1>10. g.list = Picked(s, K) /\ g.delegateCount = UpTo(K, d) /\ g \in Lists
  BY <1>2, <1>4, <1>9 DEF Lists
<1>11. PICK r : PicksBy(r, g.list, s, K)
  BY <1>4, <1>10
<1>12. ASSUME NEW k \in 1..Len(g.list)
       PROVE  /\ r[k] \in K /\ r[k] \in 1..n /\ g.list[k] = s[r[k]]
              /\ r[k] <= d <=> k <= UpTo(K, d)
  <2>1. r[k] \in K /\ r[k] \in 1..n /\ g.list[k] = s[r[k]] /\ UpTo(K, r[k]) = k
    BY <1>11, <1>3 DEF PicksBy
  <2>2. r[k] \in Nat /\ k \in Nat
    BY <1>1, <1>4, <1>10, <2>1
  <2>. HIDE DEF K
  <2>3. r[k] <= d => UpTo(K, r[k]) <= UpTo(K, d)
    BY <1>1, <1>3, <2>2, UpToGrows
  <2>4. d < r[k] => UpTo(K, d) < UpTo(K, r[k])
    BY <1>1, <1>3, <2>1, <2>2, UpToLess
  <2>. QED BY <1>1, <1>9, <2>1, <2>2, <2>3, <2>4
<1>13. DelegatesFirst(g)
  <2>1. Len(g.list) = Cardinality(K)
    BY <1>4, <1>10
  <2>2. \A k \in 1..Len(g.list) : g.list[k].selector # Direct <=> k <= g.delegateCount
    BY <1>1, <1>10, <1>12
  <2>. QED BY <1>7, <1>10, <2>1, <2>2 DEF DelegatesFirst
<1>14. \A i, j \in 1..Len(g.list) : r[i] = r[j] => i = j
  <2>1. /\ Len(g.list) \in Nat /\ r \in [1..Len(g.list) -> 1..n]
        /\ \A i, j \in 1..Len(g.list) : i < j => r[i] < r[j]
    BY <1>3, <1>4, <1>7, <1>10, <1>11 DEF PicksBy
  <2>. HIDE DEF g, n, K
  <2>. QED BY <1>1, <2>1, Grows
<1>15. \A k \in 1..Len(g.list) : ~Matches(g.list[k], fn, for, ns)
  BY <1>12
<1>16. r \in [1..Len(g.list) -> 1..Len(h.list)]
  BY <1>11, <1>3 DEF PicksBy
<1>. HIDE DEF g, K
<1>17. OnlyLoses(h, g)
  BY <1>10, <1>12, <1>13, <1>14, <1>16 DEF OnlyLoses
<1>. QED BY <1>15, <1>17 DEF g

LEMMA AddedIs ==
    ASSUME NEW h \in Lists, DelegatesFirst(h), NEW b \in Bindings
    PROVE  Changes(h, Added(h, b), b) /\ Added(h, b).list # <<>>
<1>. DEFINE s == h.list
            n == Len(s)
            d == h.delegateCount
            g == Added(h, b)
<1>1. /\ s \in Seq(Bindings) /\ n \in Nat /\ d \in Nat /\ d \in 0..n /\ DOMAIN s = 1..n
      /\ \A i \in 1..n : s[i].selector # Direct <=> i <= d
      /\ h = [list |-> s, delegateCount |-> d]
  BY DEF Lists, DelegatesFirst
<1>2. CASE b.selector = Direct
  <2>. DEFINE r == [k \in 1..(n + 1) |-> IF k = n + 1 THEN 0 ELSE k]
  <2>1. g = [list |-> Append(s, b), delegateCount |-> d]
    BY <1>1, <1>2 DEF Added
  <2>2. /\ g.list \in Seq(Bindings) /\ Len(g.list) = n + 1 /\ g.delegateCount = d /\ g \in Lists
        /\ \A k \in 1..(n + 1) : g.list[k] = IF k = n + 1 THEN b ELSE s[k]
    BY <1>1, <2>1 DEF Lists
  <2>3. DelegatesFirst(g)
    BY <1>1, <1>2, <2>2 DEF DelegatesFirst
  <2>4. /\ r \in [1..(n + 1) -> 0..n]
        /\ \A i, j \in 1..(n + 1) : r[i] = r[j] => i = j
        /\ \A k \in 1..(n + 1) : g.list[k] = IF r[k] = 0 THEN b ELSE s[r[k]]
    <3>. HIDE DEF g, s, n
    <3>. QED BY <1>1, <2>2
  <2>5. g.list # <<>>
    BY <1>1, <2>2
  <2>. HIDE DEF g, r
  <2>6. Changes(h, g, b)
    BY <2>2, <2>3, <2>4 DEF Changes
  <2>. QED BY <2>5, <2>6 DEF g
<1>3. CASE b.selector # Direct
  <2>. DEFINE r == [k \in 1..(n + 1) |-> IF k = d + 1 THEN 0 ELSE IF k <= d THEN k ELSE k - 1]
  <2>1. g = [list |-> InsertAt(s, d + 1, b), delegateCount |-> d + 1]
    BY <1>1, <1>3 DEF Added
  <2>2. /\ InsertAt(s, d + 1, b) \in Seq(Bindings) /\ Len(InsertAt(s, d + 1, b)) = n + 1
        /\ \A k \in 1..(n + 1) :
              InsertAt(s, d + 1, b)[k] = IF k = d + 1 THEN b ELSE IF k <= d THEN s[k] ELSE s[k - 1]
    <3>1. InsertAt(s, d + 1, b) = SubSeq(s, 1, d) \o <<b>> \o SubSeq(s, d + 1, n)
      <4>1. (d + 1) - 1 = d
        BY <1>1
      <4>. QED BY <4>1 DEF InsertAt
    <3>. HIDE DEF s, n
    <3>2. /\ SubSeq(s, 1, d) \in Seq(Bindings) /\ Len(SubSeq(s, 1, d)) = d
          /\ \A k \in 1..d : SubSeq(s, 1, d)[k] = s[k]
      BY <1>1, SubSeqProperties DEF n
    <3>3. /\ SubSeq(s, d + 1, n) \in Seq(Bindings) /\ Len(SubSeq(s, d + 1, n)) = n - d
          /\ \A k \in 1..(n - d) : SubSeq(s, d + 1, n)[k] = s[d + k]
      BY <1>1, SubSeqProperties DEF n
    <3>. DEFINE x == SubSeq(s, 1, d)
                y == SubSeq(s, d + 1, n)
    <3>. HIDE DEF x, y
    <3>4. /\ x \o <<b>> \in Seq(Bindings) /\ Len(x \o <<b>>) = d + 1
          /\ \A k \in 1..(d + 1) : (x \o <<b>>)[k] = IF k = d + 1 THEN b ELSE s[k]
      BY <1>1, <3>2 DEF x
    <3>5. /\ (x \o <<b>>) \o y \in Seq(Bindings) /\ Len((x \o <<b>>) \o y) = n + 1
          /\ \A k \in 1..(n + 1) :
                ((x \o <<b>>) \o y)[k] = IF k <= d + 1 THEN (x \o <<b>>)[k] ELSE y[k - (d + 1)]
      BY <1>1, <3>3, <3>4 DEF y
    <3>6. ASSUME NEW k \in 1..(n + 1), k > d + 1 PROVE y[k - (d + 1)] = s[k - 1]
      <4>1. k - (d + 1) \in 1..(n - d) /\ d + (k - (d + 1)) = k - 1
        BY <1>1, <3>6
      <4>. QED BY <3>3, <4>1 DEF y
    <3>7. ASSUME NEW k \in 1..(n + 1)
          PROVE  ((x \o <<b>>) \o y)[k] = IF k = d + 1 THEN b ELSE IF k <= d THEN s[k] ELSE s[k - 1]
      <4>1. k \in Nat
        BY <1>1
      <4>2. CASE k <= d + 1
        <5>1. k \in 1..(d + 1) /\ (k = d + 1 \/ k <= d)
          BY <1>1, <4>1, <4>2
        <5>. QED BY <1>1, <3>4, <3>5, <4>2, <5>1
      <4>3. CASE k > d + 1
        <5>1. ~(k <= d + 1) /\ k # d + 1 /\ ~(k <= d)
          BY <1>1, <4>1, <4>3
        <5>. QED BY <3>5, <3>6, <4>3, <5>1
      <4>4. d \in Nat
        BY <1>1
      <4>5. k <= d + 1 \/ k > d + 1
        BY <4>1, <4>4
      <4>. QED BY <4>2, <4>3, <4>5
    <3>. DEFINE z == (x \o <<b>>) \o y
    <3>8. InsertAt(s, d + 1, b) = z
      BY <3>1 DEF x, y
    <3>9. /\ z \in Seq(Bindings) /\ Len(z) = n + 1
          /\ \A k \in 1..(n + 1) : z[k] = IF k = d + 1 THEN b ELSE IF k <= d THEN s[k] ELSE s[k - 1]
      BY <3>5, <3>7
    <3>. HIDE DEF z
    <3>. QED BY <3>8, <3>9
  <2>3. /\ g.list \in Seq(Bindings) /\ Len(g.list) = n + 1 /\ g.delegateCount = d + 1
        /\ g \in Lists
        /\ \A k \in 1..(n + 1) :
              g.list[k] = IF k = d + 1 THEN b ELSE IF k <= d THEN s[k] ELSE s[k - 1]
    BY <1>1, <2>1, <2>2 DEF Lists
  <2>. HIDE DEF g, s, n
  <2>4. DelegatesFirst(g)
    <3>1. ASSUME NEW k \in 1..(n + 1) PROVE g.list[k].selector # Direct <=> k <= d + 1
      <4>1. CASE k <= d
        BY <1>1, <2>3, <4>1
      <4>2. CASE k = d + 1
        BY <1>1, <1>3, <2>3, <4>2
      <4>3. CASE k > d + 1
        <5>1. k - 1 \in 1..n /\ ~(k - 1 <= d)
          BY <1>1, <4>3
        <5>. QED BY <1>1, <2>3, <4>3, <5>1
      <4>. QED BY <1>1, <4>1, <4>2, <4>3
    <3>. QED BY <1>1, <2>3, <3>1 DEF DelegatesFirst
  <2>5. /\ r \in [1..(n + 1) -> 0..n]
        /\ \A i, j \in 1..(n + 1) : r[i] = r[j] => i = j
        /\ \A k \in 1..(n + 1) : g.list[k] = IF r[k] = 0 THEN b ELSE s[r[k]]
    BY <1>1, <2>3
  <2>6. g.list # <<>>
    BY <1>1, <2>3
  <2>. HIDE DEF r
  <2>7. Changes(h, g, b)
    <3>1. h.list = s /\ Len(h.list) = n /\ Len(g.list) = n + 1
      BY <2>3 DEF s, n
    <3>2. /\ r \in [1..Len(g.list) -> 0..Len(h.list)]
          /\ \A i, j \in 1..Len(g.list) : r[i] = r[j] => i = j
          /\ \A k \in 1..Len(g.list) : g.list[k] = IF r[k] = 0 THEN b ELSE h.list[r[k]]
      BY <2>5, <3>1
    <3>3. g \in Lists
      BY <2>3
    <3>. QED BY <2>4, <3>2, <3>3 DEF Changes
  <2>. QED BY <2>6, <2>7 DEF g
<1>. QED BY <1>2, <1>3

(***************************************************************************)
(* What is copied is in order, and each of it once.                        *)
(***************************************************************************)
LEMMA UpIs ==
    ASSUME NEW e \in Node
    PROVE  /\ Up(e) \in Seq(Node) /\ Up(e) # <<>> /\ DOMAIN Up(e) = 1..Len(Up(e))
           /\ \A i, j \in 1..Len(Up(e)) : i < j => Higher(Up(e)[i], Up(e)[j])
           /\ \A i \in 1..Len(Up(e)) : Up(e)[i] \in ToSet(Up(e))
<1>1. /\ Up(e) \in Seq(Node) /\ Up(e) # <<>>
      /\ \A i, j \in DOMAIN Up(e) : i < j => Higher(Up(e)[i], Up(e)[j])
  BY EventsAssumption DEF Up
<1>2. DOMAIN Up(e) = 1..Len(Up(e))
  BY <1>1
<1>. QED BY <1>1, <1>2 DEF ToSet

LEMMA BelowIs ==
    ASSUME NEW t \in Node, NEW e \in ToSet(Up(t))
    PROVE  /\ Below(t, e) \in Seq(Node)
           /\ \A p \in 1..Len(Below(t, e)) : Higher(Below(t, e)[p], e)
           /\ \A p, q \in 1..Len(Below(t, e)) : p < q => Higher(Below(t, e)[p], Below(t, e)[q])
<1>. DEFINE u == Up(t)
            k == CHOOSE i \in DOMAIN u : u[i] = e
<1>1. /\ u \in Seq(Node) /\ DOMAIN u = 1..Len(u) /\ Len(u) \in Nat
      /\ \A i, j \in 1..Len(u) : i < j => Higher(u[i], u[j])
  BY UpIs
<1>2. k \in 1..Len(u) /\ u[k] = e
  <2>1. \E i \in DOMAIN u : u[i] = e
    BY DEF ToSet
  <2>. QED BY <1>1, <2>1
<1>3. Below(t, e) = SubSeq(u, 1, k - 1)
  BY DEF Below
<1>. HIDE DEF u, k
<1>4. k - 1 \in 0..Len(u) /\ k \in Nat
  BY <1>1, <1>2
<1>5. /\ SubSeq(u, 1, k - 1) \in Seq(Node) /\ Len(SubSeq(u, 1, k - 1)) = k - 1
      /\ \A p \in 1..(k - 1) : SubSeq(u, 1, k - 1)[p] = u[p]
  BY <1>1, <1>4, SubSeqProperties
<1>6. ASSUME NEW p \in 1..(k - 1) PROVE p \in 1..Len(u) /\ p < k
  BY <1>1, <1>2
<1>. QED BY <1>1, <1>2, <1>3, <1>5, <1>6

LEMMA JoinedIs ==
    ASSUME NEW c \in Seq(Items), NEW d \in Seq(Items), Orderly(c), Orderly(d),
           \A i \in 1..Len(c), j \in 1..Len(d) : Follows(c[i], d[j]) /\ Apart(c[i], d[j])
    PROVE  /\ c \o d \in Seq(Items) /\ Orderly(c \o d)
           /\ \A q \in 1..Len(c \o d) : \/ \E i \in 1..Len(c) : (c \o d)[q] = c[i]
                                        \/ \E j \in 1..Len(d) : (c \o d)[q] = d[j]
<1>. DEFINE m == Len(c)
            n == Len(d)
            s == c \o d
<1>1. /\ m \in Nat /\ n \in Nat /\ s \in Seq(Items) /\ Len(s) = m + n
      /\ \A q \in 1..(m + n) : s[q] = IF q <= m THEN c[q] ELSE d[q - m]
  OBVIOUS
<1>. HIDE DEF s, m, n
<1>2. ASSUME NEW q \in 1..(m + n)
      PROVE  \/ q \in 1..m /\ s[q] = c[q]
             \/ q > m /\ q - m \in 1..n /\ s[q] = d[q - m]
  BY <1>1
<1>3. ASSUME NEW i \in 1..(m + n), NEW j \in 1..(m + n), i < j
      PROVE  Follows(s[i], s[j]) /\ Apart(s[i], s[j])
  <2>1. i \in Nat /\ j \in Nat
    BY <1>1
  <2>2. CASE j \in 1..m /\ s[j] = c[j]
    <3>1. i \in 1..m /\ s[i] = c[i]
      BY <1>1, <1>2, <1>3, <2>1, <2>2
    <3>. QED BY <1>3, <2>2, <3>1 DEF Orderly, m
  <2>3. CASE j > m /\ j - m \in 1..n /\ s[j] = d[j - m]
    <3>1. CASE i \in 1..m /\ s[i] = c[i]
      BY <2>3, <3>1 DEF m, n
    <3>2. CASE i > m /\ i - m \in 1..n /\ s[i] = d[i - m]
      <4>1. i - m < j - m
        BY <1>1, <1>3, <2>1
      <4>. QED BY <2>3, <3>2, <4>1 DEF Orderly, n
    <3>. QED BY <1>2, <3>1, <3>2
  <2>. QED BY <1>2, <2>2, <2>3
<1>4. Orderly(s)
  BY <1>1, <1>3 DEF Orderly
<1>. QED BY <1>1, <1>2, <1>4 DEF s, m, n

LEMMA GroupIs ==
    ASSUME NEW e \in Node, NEW bs \in Seq(Bindings),
           \A i, j \in 1..Len(bs) : i < j => bs[i].id # bs[j].id
    PROVE  /\ Group(e, bs) \in Seq(Items) /\ Len(Group(e, bs)) = Len(bs)
           /\ \A i \in 1..Len(bs) : Group(e, bs)[i].on = e /\ Group(e, bs)[i].b = bs[i]
           /\ Orderly(Group(e, bs))
<1>1. Group(e, bs) = [i \in 1..Len(bs) |-> [on |-> e, b |-> bs[i]]]
  BY DEF Group
<1>2. \A i \in 1..Len(bs) : [on |-> e, b |-> bs[i]] \in Items
  BY DEF Items
<1>3. Group(e, bs) \in Seq(Items) /\ Len(Group(e, bs)) = Len(bs)
  BY <1>1, <1>2
<1>4. \A i \in 1..Len(bs) : Group(e, bs)[i].on = e /\ Group(e, bs)[i].b = bs[i]
  BY <1>1
<1>. QED BY <1>3, <1>4 DEF Orderly, Follows, Apart

(***************************************************************************)
(* The delegates for the elements on the way, one element after the other. *)
(***************************************************************************)
AreQueues(Q, h, way, n) ==
    Q = [k \in 0..n |-> IF k = 0 THEN <<>>
                        ELSE Q[k - 1] \o Group(way[k], DelegatesOf(h, way[k]))]

LEMMA QueuesExist ==
    ASSUME NEW h, NEW way, NEW n \in Nat
    PROVE  \E Q : AreQueues(Q, h, way, n)
<1>. DEFINE Next_(q, k) == q \o Group(way[k], DelegatesOf(h, way[k]))
            Are(Q, m) == Q = [k \in 0..m |-> IF k = 0 THEN <<>> ELSE Next_(Q[k - 1], k)]
            T == {m \in Nat : ~ \E Q : Are(Q, m)}
<1>. SUFFICES ASSUME T # {} PROVE FALSE
  <2>1. T = {} => \E Q : Are(Q, n)
    OBVIOUS
  <2>. HIDE DEF T
  <2>. QED BY <2>1 DEF AreQueues
<1>1. PICK m \in T : \A y \in T : m <= y
  <2>1. T \subseteq Nat
    OBVIOUS
  <2>. HIDE DEF T
  <2>. QED BY <2>1, LeastNatural
<1>. HIDE DEF Next_
<1>2. m # 0
  <2>. DEFINE Q == [k \in 0..0 |-> <<>>]
  <2>1. Are(Q, 0)
    OBVIOUS
  <2>. HIDE DEF Q, Are
  <2>. QED BY <2>1, <1>1
<1>3. m \in Nat /\ m - 1 \in Nat /\ ~(m <= m - 1)
  BY <1>1, <1>2
<1>4. PICK Q : Are(Q, m - 1)
  <2>. HIDE DEF Are
  <2>. QED BY <1>1, <1>3
<1>. DEFINE N == [k \in 0..m |-> IF k = m THEN Next_(Q[m - 1], m) ELSE Q[k]]
<1>5. ASSUME NEW k \in 0..m
      PROVE  N[k] = IF k = 0 THEN <<>> ELSE Next_(N[k - 1], k)
  <2>1. CASE k = m
    <3>1. m - 1 \in 0..m /\ m - 1 # m /\ N[m - 1] = Q[m - 1]
      BY <1>3
    <3>. QED BY <2>1, <1>2, <3>1
  <2>2. CASE k # m /\ k # 0
    <3>1. k \in 0..(m - 1) /\ k - 1 \in 0..m /\ k - 1 # m
      BY <2>2, <1>3
    <3>2. Q[k] = Next_(Q[k - 1], k)
      BY <2>2, <3>1, <1>4
    <3>. QED BY <2>2, <3>1, <3>2
  <2>3. CASE k # m /\ k = 0
    <3>1. Q[0] = <<>>
      BY <1>3, <1>4
    <3>. QED BY <2>3, <3>1
  <2>. QED BY <2>1, <2>2, <2>3
<1>6. N = [k \in 0..m |-> N[k]]
  OBVIOUS
<1>. HIDE DEF N
<1>7. Are(N, m)
  BY <1>5, <1>6
<1>. HIDE DEF Are
<1>. QED BY <1>1, <1>7

LEMMA QueueIs ==
    ASSUME NEW h, NEW way, Len(way) \in Nat
    PROVE  \E Q : AreQueues(Q, h, way, Len(way)) /\ DelegatesFor(h, way) = Q[Len(way)]
<1>. DEFINE Q == CHOOSE Q : AreQueues(Q, h, way, Len(way))
<1>1. AreQueues(Q, h, way, Len(way))
  BY QueuesExist
<1>2. DelegatesFor(h, way) = Q[Len(way)]
  BY DEF DelegatesFor, AreQueues
<1>. QED BY <1>1, <1>2

(***************************************************************************)
(* A delegate for one of the first k elements on the way.                  *)
(***************************************************************************)
IsDelegate(x, h, way, k) ==
    \E m \in 1..k, j \in 1..h.delegateCount :
        /\ x.on = way[m] /\ x.b = h.list[j]

Separate(h) == \A i, j \in 1..Len(h.list) : h.list[i].id = h.list[j].id => i = j

LEMMA DelegatesOfIs ==
    ASSUME NEW h \in Lists, DelegatesFirst(h), Separate(h), NEW cur
    PROVE  /\ DelegatesOf(h, cur) \in Seq(Bindings)
           /\ \A k \in 1..Len(DelegatesOf(h, cur)) : \E j \in 1..h.delegateCount :
                 DelegatesOf(h, cur)[k] = h.list[j]
           /\ \A i, j \in 1..Len(DelegatesOf(h, cur)) :
                 i < j => DelegatesOf(h, cur)[i].id # DelegatesOf(h, cur)[j].id
<1>. DEFINE K == {i \in 1..h.delegateCount : cur \in SelectedBy[h.list[i].selector]}
            p == DelegatesOf(h, cur)
            n == Len(h.list)
<1>1. h.list \in Seq(Bindings) /\ h.delegateCount \in 0..n /\ n \in Nat
  BY DEF Lists, DelegatesFirst
<1>2. K \in SUBSET (1..n)
  BY <1>1
<1>3. p = Picked(h.list, K)
  BY DEF DelegatesOf
<1>4. \A i \in K : i \in 1..h.delegateCount
  OBVIOUS
<1>. HIDE DEF K, p, n
<1>5. p \in Seq(Bindings) /\ Len(p) = Cardinality(K) /\ \E r : PicksBy(r, p, h.list, K)
  BY <1>1, <1>2, <1>3, PickedIs DEF n
<1>6. PICK r : PicksBy(r, p, h.list, K)
  BY <1>5
<1>7. \A k \in 1..Len(p) : r[k] \in K /\ r[k] \in 1..n /\ p[k] = h.list[r[k]]
  BY <1>2, <1>6 DEF PicksBy
<1>8. ASSUME NEW i \in 1..Len(p), NEW j \in 1..Len(p), i < j PROVE p[i].id # p[j].id
  <2>1. r[i] < r[j] /\ r[i] \in 1..n /\ r[j] \in 1..n
    BY <1>6, <1>7, <1>8 DEF PicksBy
  <2>2. r[i] # r[j]
    BY <1>1, <2>1
  <2>3. h.list[r[i]].id # h.list[r[j]].id
    BY <2>1, <2>2 DEF Separate, n
  <2>. QED BY <1>7, <2>3
<1>. QED BY <1>4, <1>5, <1>7, <1>8 DEF p

LEMMA DelegatesAre ==
    ASSUME NEW h \in Lists, DelegatesFirst(h), Separate(h), NEW way \in Seq(Node),
           \A p, q \in 1..Len(way) : p < q => Higher(way[p], way[q])
    PROVE  LET c == DelegatesFor(h, way)
           IN  /\ c \in Seq(Items) /\ Orderly(c)
               /\ \A q \in 1..Len(c) : IsDelegate(c[q], h, way, Len(way))
<1>. DEFINE n == Len(way)
<1>1. n \in Nat
  OBVIOUS
<1>2. PICK Q : AreQueues(Q, h, way, n) /\ DelegatesFor(h, way) = Q[n]
  BY <1>1, QueueIs
<1>3. Q[0] = <<>>
  BY <1>1, <1>2 DEF AreQueues
<1>4. \A k \in 1..n : Q[k] = Q[k - 1] \o Group(way[k], DelegatesOf(h, way[k]))
  <2>1. \A k \in 1..n : k \in 0..n /\ k # 0
    BY <1>1
  <2>. HIDE DEF n
  <2>. QED BY <1>2, <2>1 DEF AreQueues
<1>. DEFINE Good(k) == /\ Q[k] \in Seq(Items) /\ Orderly(Q[k])
                       /\ \A q \in 1..Len(Q[k]) : IsDelegate(Q[k][q], h, way, k)
            T == {k \in 0..n : ~Good(k)}
<1>5. Good(0)
  <2>1. <<>> \in Seq(Items) /\ Len(<<>>) = 0 /\ 1..0 = {}
    OBVIOUS
  <2>. QED BY <1>3, <2>1 DEF Orderly
<1>6. ASSUME NEW k \in 1..n, Good(k - 1) PROVE Good(k)
  <2>. DEFINE c == Q[k - 1]
              d == Group(way[k], DelegatesOf(h, way[k]))
              bs == DelegatesOf(h, way[k])
  <2>1. /\ bs \in Seq(Bindings)
        /\ \A i \in 1..Len(bs) : \E j \in 1..h.delegateCount :
              bs[i] = h.list[j]
        /\ \A i, j \in 1..Len(bs) : i < j => bs[i].id # bs[j].id
    BY DelegatesOfIs
  <2>2. way[k] \in Node /\ k \in Nat /\ k - 1 \in Nat /\ (\A m \in 1..(k - 1) : m \in 1..k)
    OBVIOUS
  <2>. HIDE DEF bs
  <2>3. /\ d \in Seq(Items) /\ Len(d) = Len(bs) /\ Orderly(d)
        /\ \A i \in 1..Len(bs) : d[i].on = way[k] /\ d[i].b = bs[i]
    BY <2>1, <2>2, GroupIs DEF bs
  <2>4. c \in Seq(Items) /\ Orderly(c) /\ \A q \in 1..Len(c) : IsDelegate(c[q], h, way, k - 1)
    BY <1>6
  <2>. HIDE DEF c, d
  <2>5. ASSUME NEW q \in 1..Len(d) PROVE IsDelegate(d[q], h, way, k)
    <3>1. PICK j \in 1..h.delegateCount : bs[q] = h.list[j]
      BY <2>1, <2>3
    <3>2. k \in 1..k
      BY <2>2
    <3>. QED BY <2>3, <3>1, <3>2 DEF IsDelegate
  <2>6. ASSUME NEW q \in 1..Len(c) PROVE IsDelegate(c[q], h, way, k)
    BY <2>2, <2>4 DEF IsDelegate
  <2>7. ASSUME NEW i \in 1..Len(c), NEW j \in 1..Len(d)
        PROVE  Follows(c[i], d[j]) /\ Apart(c[i], d[j])
    <3>1. PICK m \in 1..(k - 1) : c[i].on = way[m]
      BY <2>4 DEF IsDelegate
    <3>2. d[j].on = way[k]
      BY <2>3
    <3>3. m \in 1..n /\ m < k
      BY <1>1, <2>2
    <3>4. Higher(way[m], way[k])
      BY <3>3
    <3>. QED BY <3>1, <3>2, <3>4 DEF Higher, Follows, Apart, Up
  <2>8. /\ c \o d \in Seq(Items) /\ Orderly(c \o d)
        /\ \A q \in 1..Len(c \o d) : \/ \E i \in 1..Len(c) : (c \o d)[q] = c[i]
                                     \/ \E j \in 1..Len(d) : (c \o d)[q] = d[j]
    BY <2>3, <2>4, <2>7, JoinedIs
  <2>9. Q[k] = c \o d
    BY <1>4 DEF c, d
  <2>. QED BY <2>5, <2>6, <2>8, <2>9
<1>7. Good(n)
  <2>. SUFFICES ASSUME ~Good(n) PROVE FALSE
    OBVIOUS
  <2>. HIDE DEF Good
  <2>1. T \subseteq Nat /\ T # {}
    <3>1. n \in T
      BY <1>1
    <3>. QED BY <3>1
  <2>2. PICK m \in T : \A y \in T : m <= y
    <3>. HIDE DEF T
    <3>. QED BY <2>1, LeastNatural
  <2>. HIDE DEF n
  <2>3. m \in 0..n /\ ~Good(m) /\ m # 0
    BY <2>2, <1>5
  <2>4. m \in 1..n /\ m - 1 \in 0..n /\ ~(m <= m - 1)
    BY <1>1, <2>3
  <2>5. Good(m - 1)
    BY <2>2, <2>4
  <2>. QED BY <2>3, <2>4, <2>5, <1>6
<1>. QED BY <1>2, <1>7

LEMMA CopiedIs ==
    ASSUME NEW h \in Lists, DelegatesFirst(h), Separate(h), NEW t \in Node, NEW e \in ToSet(Up(t)),
           e \in Node
    PROVE  LET c == Copied(h, t, e)
           IN  /\ c \in Seq(Items) /\ Orderly(c)
               /\ \A q \in 1..Len(c) : \E j \in 1..Len(h.list) : c[q].b = h.list[j]
<1>. DEFINE way == Below(t, e)
            c == DelegatesFor(h, way)
            bs == DirectOnes(h)
            d == Group(e, bs)
            n == Len(h.list)
            k == h.delegateCount
<1>1. /\ way \in Seq(Node)
      /\ \A p \in 1..Len(way) : Higher(way[p], e)
      /\ \A p, q \in 1..Len(way) : p < q => Higher(way[p], way[q])
  BY BelowIs
<1>2. h.list \in Seq(Bindings) /\ n \in Nat /\ k \in 0..n /\ k \in Nat
  BY DEF Lists, DelegatesFirst
<1>. HIDE DEF way
<1>3. /\ c \in Seq(Items) /\ Orderly(c)
      /\ \A q \in 1..Len(c) : IsDelegate(c[q], h, way, Len(way))
  BY <1>1, DelegatesAre
<1>4. /\ bs \in Seq(Bindings) /\ Len(bs) = n - k
      /\ \A i \in 1..(n - k) : bs[i] = h.list[k + i] /\ k + i \in 1..n /\ k + i > k
  <2>1. bs = SubSeq(h.list, k + 1, n)
    BY DEF DirectOnes
  <2>2. k + 1 \in 1..(n + 1)
    BY <1>2
  <2>3. /\ SubSeq(h.list, k + 1, n) \in Seq(Bindings)
        /\ Len(SubSeq(h.list, k + 1, n)) = n - k
        /\ \A i \in 1..(n - k) : SubSeq(h.list, k + 1, n)[i] = h.list[k + i]
    <3>. DEFINE s == h.list
    <3>1. s \in Seq(Bindings) /\ n = Len(s)
      BY <1>2
    <3>. HIDE DEF s, n, k
    <3>2. /\ SubSeq(s, k + 1, n) \in Seq(Bindings) /\ Len(SubSeq(s, k + 1, n)) = n - k
          /\ \A i \in 1..(n - k) : SubSeq(s, k + 1, n)[i] = s[k + i]
      BY <1>2, <2>2, <3>1, SubSeqProperties
    <3>. QED BY <3>2 DEF s
  <2>. HIDE DEF bs, n, k
  <2>4. \A i \in 1..(n - k) : k + i \in 1..n /\ k + i > k
    BY <1>2
  <2>. QED BY <2>1, <2>3, <2>4 DEF n, k
<1>. HIDE DEF bs
<1>5. ASSUME NEW i \in 1..Len(bs), NEW j \in 1..Len(bs), i < j PROVE bs[i].id # bs[j].id
  <2>1. bs[i] = h.list[k + i] /\ k + i \in 1..n /\ bs[j] = h.list[k + j] /\ k + j \in 1..n
    BY <1>4
  <2>2. k + i # k + j
    BY <1>2, <1>4, <1>5
  <2>. QED BY <2>1, <2>2 DEF Separate
<1>6. /\ d \in Seq(Items) /\ Len(d) = Len(bs) /\ Orderly(d)
      /\ \A i \in 1..Len(bs) : d[i].on = e /\ d[i].b = bs[i]
  BY <1>4, <1>5, GroupIs
<1>. HIDE DEF c, d
<1>7. ASSUME NEW i \in 1..Len(c), NEW j \in 1..Len(d)
      PROVE  Follows(c[i], d[j]) /\ Apart(c[i], d[j])
  <2>1. PICK m \in 1..Len(way) : c[i].on = way[m]
    BY <1>3 DEF IsDelegate
  <2>2. d[j].on = e
    BY <1>6
  <2>3. Higher(way[m], e)
    BY <1>1
  <2>. QED BY <2>1, <2>2, <2>3 DEF Higher, Follows, Apart, Up
<1>8. ASSUME NEW i \in 1..Len(c) PROVE \E j \in 1..n : c[i].b = h.list[j]
  <2>1. PICK m \in 1..Len(way), x \in 1..k : c[i].b = h.list[x]
    BY <1>3 DEF IsDelegate
  <2>. QED BY <1>2, <2>1
<1>9. ASSUME NEW i \in 1..Len(d) PROVE \E j \in 1..n : d[i].b = h.list[j]
  BY <1>4, <1>6
<1>10. /\ c \o d \in Seq(Items) /\ Orderly(c \o d)
       /\ \A q \in 1..Len(c \o d) : \/ \E i \in 1..Len(c) : (c \o d)[q] = c[i]
                                    \/ \E j \in 1..Len(d) : (c \o d)[q] = d[j]
  BY <1>3, <1>6, <1>7, JoinedIs
<1>11. Copied(h, t, e) = c \o d
  BY DEF Copied, c, d, bs, way
<1>12. \A q \in 1..Len(c \o d) : \E j \in 1..n : (c \o d)[q].b = h.list[j]
  <2>. SUFFICES ASSUME NEW q \in 1..Len(c \o d)
                PROVE  \E j \in 1..n : (c \o d)[q].b = h.list[j]
    OBVIOUS
  <2>1. CASE \E i \in 1..Len(c) : (c \o d)[q] = c[i]
    <3>1. PICK i \in 1..Len(c) : (c \o d)[q] = c[i]
      BY <2>1
    <3>2. PICK j \in 1..n : c[i].b = h.list[j]
      BY <1>8
    <3>. QED BY <3>1, <3>2
  <2>2. CASE \E j \in 1..Len(d) : (c \o d)[q] = d[j]
    <3>1. PICK i \in 1..Len(d) : (c \o d)[q] = d[i]
      BY <2>2
    <3>2. PICK j \in 1..n : d[i].b = h.list[j]
      BY <1>9
    <3>. QED BY <3>1, <3>2
  <2>. QED BY <1>10, <2>1, <2>2
<1>. QED BY <1>10, <1>11, <1>12

(***************************************************************************)
(* Lists that change: numbers stay, and what was there is as it was.       *)
(***************************************************************************)
Old(x, hs, e) == \E i \in 1..Len(hs[e].list) : x = hs[e].list[i]

Fresh(gs, hs, n) ==
    \A e \in Node : \A k \in 1..Len(gs[e].list) :
        gs[e].list[k].id = n + 1 \/ Old(gs[e].list[k], hs, e)

Renews(r, g, h, b, n) ==
    /\ r \in [1..Len(g.list) -> 0..Len(h.list)]
    /\ \A i, j \in 1..Len(g.list) : r[i] = r[j] => i = j
    /\ \A k \in 1..Len(g.list) : g.list[k] = IF r[k] = 0 THEN b ELSE h.list[r[k]]
    /\ \A k \in 1..Len(g.list) : r[k] = 0 => b.id = n + 1

Renewed(hs, gs, e, g, r, b, n) ==
    /\ hs \in [Node -> Lists] /\ n \in Nat /\ Numbered(hs, n)
    /\ e \in Node /\ g \in Lists /\ gs = [hs EXCEPT ![e] = g]
    /\ Renews(r, g, hs[e], b, n)

Stay(hs, gs, e, g, r, b, n) ==
    /\ gs \in [Node -> Lists] /\ Numbered(gs, n + 1)
    /\ (\A k \in 1..Len(g.list) : r[k] # 0) => Numbered(gs, n)
    /\ \A d \in Node : \A k \in 1..Len(gs[d].list) :
          \/ d = e /\ r[k] = 0 /\ gs[d].list[k] = b /\ b.id = n + 1
          \/ Old(gs[d].list[k], hs, d)

LEMMA NumberedStays ==
    ASSUME NEW hs, NEW gs, NEW e, NEW g, NEW r, NEW b, NEW n, Renewed(hs, gs, e, g, r, b, n)
    PROVE  Stay(hs, gs, e, g, r, b, n)
<1>. USE DEF Renews, Renewed
<1>1. /\ gs \in [Node -> Lists] /\ gs[e] = g /\ \A d \in Node \ {e} : gs[d] = hs[d]
  OBVIOUS
<1>2. \A d \in Node : Len(hs[d].list) \in Nat
  BY DEF Lists
<1>9. \A d, c \in Node : \A p \in 1..Len(hs[d].list), q \in 1..Len(hs[c].list) :
         hs[d].list[p].id = hs[c].list[q].id => d = c /\ p = q
  BY DEF Numbered
<1>3. ASSUME NEW d \in Node, NEW k \in 1..Len(gs[d].list)
      PROVE  \/ d = e /\ r[k] = 0 /\ gs[d].list[k] = b /\ b.id = n + 1
             \/ \E p \in 1..Len(hs[d].list) :
                   /\ gs[d].list[k] = hs[d].list[p]
                   /\ p = IF d = e THEN r[k] ELSE k
  <2>1. CASE d = e /\ r[k] = 0
    BY <1>1, <2>1
  <2>2. CASE d = e /\ r[k] # 0
    <3>1. r[k] \in 1..Len(hs[e].list)
      BY <1>1, <1>2, <2>2
    <3>. QED BY <1>1, <2>2, <3>1
  <2>3. CASE d # e
    BY <1>1, <2>3
  <2>. QED BY <2>1, <2>2, <2>3
<1>4. ASSUME NEW d \in Node, NEW k \in 1..Len(gs[d].list)
      PROVE  /\ gs[d].list[k].id \in 1..(n + 1)
             /\ (\A j \in 1..Len(g.list) : r[j] # 0) => gs[d].list[k].id \in 1..n
  <2>1. \A p \in 1..Len(hs[d].list) : hs[d].list[p].id \in 1..n
    BY DEF Numbered
  <2>2. \/ gs[d].list[k].id \in 1..n
        \/ gs[d].list[k].id = n + 1 /\ d = e /\ r[k] = 0
    <3>1. CASE d = e /\ r[k] = 0 /\ gs[d].list[k] = b /\ b.id = n + 1
      BY <3>1
    <3>2. CASE \E p \in 1..Len(hs[d].list) : gs[d].list[k] = hs[d].list[p]
      BY <2>1, <3>2
    <3>. QED BY <1>3, <3>1, <3>2
  <2>3. d = e => k \in 1..Len(g.list)
    BY <1>1
  <2>. QED BY <2>2, <2>3
<1>5. ASSUME NEW d \in Node, NEW i \in 1..Len(gs[d].list),
             NEW c \in Node, NEW j \in 1..Len(gs[c].list), gs[d].list[i].id = gs[c].list[j].id
      PROVE  d = c /\ i = j
  <2>1. CASE d = e /\ r[i] = 0 /\ gs[d].list[i] = b /\ b.id = n + 1
    <3>1. ~ \E p \in 1..Len(hs[c].list) : gs[c].list[j] = hs[c].list[p]
      <4>1. gs[c].list[j].id = n + 1 /\ n + 1 \notin 1..n
        BY <1>5, <2>1
      <4>2. \A p \in 1..Len(hs[c].list) : hs[c].list[p].id \in 1..n
        BY DEF Numbered
      <4>. QED BY <4>1, <4>2
    <3>2. c = e /\ r[j] = 0
      BY <1>3, <3>1
    <3>. QED BY <1>1, <2>1, <3>2
  <2>2. CASE \E p \in 1..Len(hs[d].list) :
               gs[d].list[i] = hs[d].list[p] /\ p = IF d = e THEN r[i] ELSE i
    <3>1. PICK p \in 1..Len(hs[d].list) :
             gs[d].list[i] = hs[d].list[p] /\ p = IF d = e THEN r[i] ELSE i
      BY <2>2
    <3>2. gs[c].list[j].id # n + 1
      BY <1>5, <3>1 DEF Numbered
    <3>3. PICK q \in 1..Len(hs[c].list) :
             gs[c].list[j] = hs[c].list[q] /\ q = IF c = e THEN r[j] ELSE j
      BY <1>3, <3>2
    <3>4. d = c /\ p = q
      <4>1. hs[d].list[p].id = hs[c].list[q].id
        BY <1>5, <3>1, <3>3
      <4>. QED BY <1>9, <4>1
    <3>5. CASE d = e
      BY <1>1, <3>1, <3>3, <3>4, <3>5
    <3>6. CASE d # e
      BY <3>1, <3>3, <3>4, <3>6
    <3>. QED BY <3>4, <3>5, <3>6
  <2>. QED BY <1>3, <2>1, <2>2
<1>6. Numbered(gs, n + 1)
  <2>. SUFFICES ASSUME NEW d \in Node, NEW i \in 1..Len(gs[d].list)
                PROVE  /\ gs[d].list[i].id \in 1..(n + 1)
                       /\ \A c \in Node : \A j \in 1..Len(gs[c].list) :
                             gs[d].list[i].id = gs[c].list[j].id => d = c /\ i = j
    BY DEF Numbered
  <2>. QED BY <1>4, <1>5
<1>8. ASSUME \A k \in 1..Len(g.list) : r[k] # 0 PROVE Numbered(gs, n)
  BY <1>4, <1>5, <1>8 DEF Numbered
<1>7. \A d \in Node : \A k \in 1..Len(gs[d].list) :
         \/ d = e /\ r[k] = 0 /\ gs[d].list[k] = b /\ b.id = n + 1
         \/ Old(gs[d].list[k], hs, d)
  BY <1>3 DEF Old
<1>. QED BY <1>1, <1>6, <1>7, <1>8 DEF Stay

LEMMA ListsTyped ==
    ASSUME EventsTyped, ListsHold, NEW e \in Node
    PROVE  /\ handlers[e] \in Lists /\ DelegatesFirst(handlers[e]) /\ Separate(handlers[e])
           /\ handlers[e].list \in Seq(Bindings) /\ DOMAIN handlers = Node
BY DEF EventsTyped, ListsHold, Separate, Numbered, Lists

LEMMA ListsGain ==
    ASSUME EventsTyped, ListsHold, NEW e \in Node, NEW b \in Bindings, b.id = binds + 1,
           handlers' = [handlers EXCEPT ![e] = Added(@, b)], binds' = binds + 1,
           listening' = listening \cup {e}
    PROVE  /\ handlers' \in [Node -> Lists] /\ ListsHold'
           /\ \A d \in Node : \A k \in 1..Len(handlers'[d].list) :
                 \/ handlers'[d].list[k] = b
                 \/ Old(handlers'[d].list[k], handlers, d)
           /\ Fresh(handlers', handlers, binds)
<1>. DEFINE g == Added(handlers[e], b)
<1>1. handlers' = [handlers EXCEPT ![e] = g]
  OBVIOUS
<1>2. Changes(handlers[e], g, b) /\ g.list # <<>>
  BY ListsTyped, AddedIs
<1>. HIDE DEF g
<1>3. PICK r \in [1..Len(g.list) -> 0..Len(handlers[e].list)] :
          /\ \A i, j \in 1..Len(g.list) : r[i] = r[j] => i = j
          /\ \A k \in 1..Len(g.list) : g.list[k] = IF r[k] = 0 THEN b ELSE handlers[e].list[r[k]]
  BY <1>2 DEF Changes
<1>4. /\ handlers \in [Node -> Lists] /\ binds \in Nat /\ binds + 1 \in Nat /\ binds <= binds + 1
      /\ Numbered(handlers, binds) /\ g \in Lists
  BY <1>2, EventsAssumption DEF EventsTyped, ListsHold, Changes
<1>5. /\ handlers' \in [Node -> Lists] /\ Numbered(handlers', binds + 1)
      /\ \A d \in Node : \A k \in 1..Len(handlers'[d].list) :
            \/ d = e /\ r[k] = 0 /\ handlers'[d].list[k] = b /\ b.id = binds + 1
            \/ Old(handlers'[d].list[k], handlers, d)
  <2>1. Renewed(handlers, handlers', e, g, r, b, binds)
    BY <1>1, <1>3, <1>4 DEF Renewed, Renews
  <2>2. Stay(handlers, handlers', e, g, r, b, binds)
    BY <2>1, NumberedStays
  <2>. QED BY <2>2 DEF Stay
<1>6. \A d \in Node : handlers'[d] = IF d = e THEN g ELSE handlers[d]
  BY <1>1, <1>4
<1>7. \A d \in Node : DelegatesFirst(handlers'[d])
  BY <1>2, <1>6 DEF ListsHold, Changes
<1>8. \A d \in Node : d \in listening' <=> handlers'[d].list # <<>>
  BY <1>2, <1>6 DEF ListsHold
<1>. QED BY <1>5, <1>7, <1>8 DEF ListsHold, Fresh

LEMMA ListsLose ==
    ASSUME EventsTyped, ListsHold, NEW e \in Node, NEW g, OnlyLoses(handlers[e], g),
           handlers' = [handlers EXCEPT ![e] = g], binds' = binds, listening' = Listening(e, g)
    PROVE  /\ handlers' \in [Node -> Lists] /\ ListsHold'
           /\ \A d \in Node : \A k \in 1..Len(handlers'[d].list) :
                 Old(handlers'[d].list[k], handlers, d)
           /\ Fresh(handlers', handlers, binds)
<1>1. PICK r \in [1..Len(g.list) -> 1..Len(handlers[e].list)] :
          /\ \A i, j \in 1..Len(g.list) : r[i] = r[j] => i = j
          /\ \A k \in 1..Len(g.list) : g.list[k] = handlers[e].list[r[k]]
  BY DEF OnlyLoses
<1>2. /\ handlers \in [Node -> Lists] /\ binds \in Nat /\ binds <= binds
      /\ Numbered(handlers, binds) /\ g \in Lists /\ DelegatesFirst(g)
      /\ Len(handlers[e].list) \in Nat /\ handlers[e].list \in Seq(Bindings)
      /\ g.list \in Seq(Bindings)
  BY EventsAssumption DEF EventsTyped, ListsHold, OnlyLoses, Lists
<1>3. /\ r \in [1..Len(g.list) -> 0..Len(handlers[e].list)]
      /\ \A k \in 1..Len(g.list) : r[k] # 0
  BY <1>1, <1>2
<1>4. /\ handlers' \in [Node -> Lists] /\ Numbered(handlers', binds)
      /\ \A d \in Node : \A k \in 1..Len(handlers'[d].list) :
            \/ d = e /\ r[k] = 0
            \/ Old(handlers'[d].list[k], handlers, d)
  <2>1. Renewed(handlers, handlers', e, g, r, g, binds)
    BY <1>1, <1>2, <1>3 DEF Renewed, Renews
  <2>2. Stay(handlers, handlers', e, g, r, g, binds)
    BY <2>1, NumberedStays
  <2>. QED BY <1>3, <2>2 DEF Stay
<1>5. \A d \in Node : handlers'[d] = IF d = e THEN g ELSE handlers[d]
  BY <1>2
<1>6. \A d \in Node : \A k \in 1..Len(handlers'[d].list) : Old(handlers'[d].list[k], handlers, d)
  BY <1>3, <1>4, <1>5
<1>7. \A d \in Node : DelegatesFirst(handlers'[d])
  BY <1>2, <1>5 DEF ListsHold
<1>8. g.list # <<>> => handlers[e].list # <<>>
  <2>1. SUFFICES ASSUME g.list # <<>> PROVE handlers[e].list # <<>>
    OBVIOUS
  <2>2. 1 \in 1..Len(g.list)
    BY <1>2, <2>1
  <2>3. r[1] \in 1..Len(handlers[e].list)
    BY <1>1, <2>2
  <2>. QED BY <1>2, <2>3
<1>9. \A d \in Node : d \in listening' <=> handlers'[d].list # <<>>
  BY <1>5, <1>8 DEF ListsHold, Listening
<1>. QED BY <1>4, <1>6, <1>7, <1>9 DEF ListsHold, Fresh

(***************************************************************************)
(* An event goes on to hold when lists change; one whose default action    *)
(* is done, whatever ran.                                                  *)
(***************************************************************************)
LEMMA EventStays ==
    ASSUME NEW ev, NEW hs, NEW gs, NEW n \in Nat, NEW m \in Nat, n <= m,
           NEW ran, NEW count, NEW ran2, NEW count2,
           EventHolds(ev, hs, n, ran, count), Fresh(gs, hs, n),
           (ran2 = ran /\ count2 = count) \/ (ev.origin = "done" /\ Len(ran2) \in Nat)
    PROVE  EventHolds(ev, gs, m, ran2, count2)
<1>1. Known(ev, gs, m)
  <2>. SUFFICES ASSUME NEW q \in 1..Len(ev.todo)
                PROVE  /\ ev.todo[q].b.id \in 1..m
                       /\ \A e \in Node : \A i \in 1..Len(gs[e].list) :
                             gs[e].list[i].id = ev.todo[q].b.id
                                => e = ev.at /\ gs[e].list[i] = ev.todo[q].b
    BY DEF Known
  <2>1. /\ ev.todo[q].b.id \in 1..n
        /\ \A e \in Node : \A i \in 1..Len(hs[e].list) :
              hs[e].list[i].id = ev.todo[q].b.id => e = ev.at /\ hs[e].list[i] = ev.todo[q].b
    BY DEF EventHolds, Known
  <2>2. ev.todo[q].b.id \in 1..m /\ ev.todo[q].b.id # n + 1
    <3>1. ev.todo[q].b.id \in 1..n
      BY <2>1
    <3>. QED BY <3>1
  <2>3. ASSUME NEW e \in Node, NEW i \in 1..Len(gs[e].list), gs[e].list[i].id = ev.todo[q].b.id
        PROVE  e = ev.at /\ gs[e].list[i] = ev.todo[q].b
    <3>1. Old(gs[e].list[i], hs, e)
      BY <2>2, <2>3 DEF Fresh
    <3>2. PICK j \in 1..Len(hs[e].list) : gs[e].list[i] = hs[e].list[j]
      BY <3>1 DEF Old
    <3>. QED BY <2>1, <2>3, <3>2
  <2>. QED BY <2>2, <2>3
<1>2. CASE ran2 = ran /\ count2 = count
  BY <1>1, <1>2 DEF EventHolds
<1>3. CASE ev.origin = "done" /\ Len(ran2) \in Nat
  <2>1. Len(ev.path) = 0 /\ Len(ev.todo) = 0
    BY <1>3 DEF EventHolds
  <2>2. HasRun(ev, ran2)
    <3>1. 1..Len(ev.path) = {} /\ 1..Len(ev.todo) = {} /\ ev.todo = <<>>
      BY <1>3, <2>1 DEF EventHolds
    <3>. QED BY <3>1 DEF HasRun
  <2>. QED BY <1>1, <1>3, <2>2 DEF EventHolds
<1>. QED BY <1>2, <1>3

(***************************************************************************)
(* A step of the innermost event: the others go on to hold.                *)
(***************************************************************************)
Carries ==
    /\ Fresh(handlers', handlers, binds)
    /\ binds' \in Nat /\ binds <= binds'
    /\ runs' \in Seq(Seq(Runs)) /\ Len(runs') = sent
    /\ \A n \in 1..sent : n # Inner.n => runs'[n] = runs[n] /\ acted'[n] = acted[n]

HoldsNext(ev) ==
    ev.n \in 1..sent' /\ EventHolds(ev, handlers', binds', runs'[ev.n], acted'[ev.n])

LEMMA InnerIs ==
    ASSUME EventsTyped, StackInOrder, ~Idle
    PROVE  /\ Len(underway) \in Nat \ {0} /\ Inner \in EventRecords
           /\ Inner.n \in 1..sent /\ sent \in Nat /\ binds \in Nat
           /\ EventHolds(Inner, handlers, binds, runs[Inner.n], acted[Inner.n])
           /\ runs[Inner.n] \in Seq(Runs) /\ Len(runs[Inner.n]) \in Nat /\ acted[Inner.n] \in Nat
           /\ triggered <=> Inner.origin = "method"
<1>1. Len(underway) \in Nat \ {0}
  BY DEF Idle, EventsTyped
<1>2. Len(underway) \in 1..Len(underway) /\ Inner = underway[Len(underway)]
  BY <1>1 DEF Inner
<1>3. sent \in Nat /\ binds \in Nat
  BY EventsAssumption DEF EventsTyped
<1>4. /\ Inner.n \in 1..sent
      /\ EventHolds(Inner, handlers, binds, runs[Inner.n], acted[Inner.n])
  BY <1>2 DEF StackInOrder
<1>5. Inner \in EventRecords
  BY <1>2 DEF EventsTyped
<1>6. runs[Inner.n] \in Seq(Runs) /\ acted[Inner.n] \in Nat
  BY <1>3, <1>4 DEF EventsTyped
<1>7. triggered <=> Inner.origin = "method"
  BY DEF StackInOrder, Idle
<1>. QED BY <1>1, <1>3, <1>4, <1>5, <1>6, <1>7

LEMMA OthersHold ==
    ASSUME EventsTyped, StackInOrder, ~Idle, Carries, sent' = sent
    PROVE  \A k \in 1..Len(underway) : k < Len(underway) =>
              HoldsNext(underway[k]) /\ underway[k].origin # "method"
<1>. SUFFICES ASSUME NEW k \in 1..Len(underway), k < Len(underway)
              PROVE  HoldsNext(underway[k]) /\ underway[k].origin # "method"
  OBVIOUS
<1>. DEFINE ev == underway[k]
<1>1. Len(underway) \in 1..Len(underway) /\ Len(underway) \in Nat
  BY InnerIs
<1>2. /\ ev.n \in 1..sent /\ EventHolds(ev, handlers, binds, runs[ev.n], acted[ev.n])
      /\ ev.origin # "method"
      /\ ev.n < Inner.n \/ (ev.n = Inner.n /\ ev.origin = "done")
  <2>1. ev.n \in 1..sent /\ EventHolds(ev, handlers, binds, runs[ev.n], acted[ev.n])
    BY DEF StackInOrder
  <2>2. \A j \in 1..Len(underway) : k < j =>
           /\ ev.origin # "method"
           /\ \/ ev.n < underway[j].n
              \/ ev.n = underway[j].n /\ ev.origin = "done"
    BY DEF StackInOrder
  <2>. QED BY <1>1, <2>1, <2>2 DEF Inner
<1>3. sent \in Nat /\ Inner.n \in Nat /\ ev.n \in Nat
  BY <1>2, InnerIs
<1>4. /\ binds \in Nat /\ binds' \in Nat /\ binds <= binds'
      /\ Fresh(handlers', handlers, binds) /\ Len(runs'[ev.n]) \in Nat
  BY <1>2, InnerIs DEF Carries
<1>5. \/ runs'[ev.n] = runs[ev.n] /\ acted'[ev.n] = acted[ev.n]
      \/ ev.origin = "done" /\ Len(runs'[ev.n]) \in Nat
  <2>1. CASE ev.n # Inner.n
    BY <1>2, <2>1 DEF Carries
  <2>2. CASE ev.n = Inner.n
    BY <1>2, <1>3, <1>4, <2>2
  <2>. QED BY <2>1, <2>2
<1>. HIDE DEF ev
<1>6. EventHolds(ev, handlers', binds', runs'[ev.n], acted'[ev.n])
  BY <1>2, <1>4, <1>5, EventStays
<1>. QED BY <1>2, <1>6 DEF HoldsNext, ev

LEMMA TopReplaced ==
    ASSUME EventsTyped, StackInOrder, ~Idle, Carries, sent' = sent, triggered' = triggered,
           NEW ev \in EventRecords, underway' = Put(ev), ev.n = Inner.n, ev.origin = Inner.origin,
           EventHolds(ev, handlers', binds', runs'[ev.n], acted'[ev.n])
    PROVE  underway' \in Seq(EventRecords) /\ StackInOrder'
<1>. DEFINE m == Len(underway)
<1>1. m \in Nat \ {0} /\ underway \in Seq(EventRecords)
  BY InnerIs DEF EventsTyped
<1>2. /\ underway' \in Seq(EventRecords) /\ Len(underway') = m
      /\ \A k \in 1..m : underway'[k] = IF k = m THEN ev ELSE underway[k]
  BY <1>1 DEF Put
<1>3. \A k \in 1..m : k < m => HoldsNext(underway[k]) /\ underway[k].origin # "method"
  BY OthersHold
<1>4. HoldsNext(ev)
  BY InnerIs DEF HoldsNext
<1>5. \A k \in 1..m : HoldsNext(underway'[k])
  BY <1>1, <1>2, <1>3, <1>4
<1>6. \A k \in 1..m : underway'[k].n = underway[k].n /\ underway'[k].origin = underway[k].origin
  BY <1>2 DEF Inner
<1>7. \A j, k \in 1..m : j < k =>
          /\ underway'[j].origin # "method"
          /\ \/ underway'[j].n < underway'[k].n
             \/ underway'[j].n = underway'[k].n /\ underway'[j].origin = "done"
  BY <1>6 DEF StackInOrder
<1>8. triggered' <=> underway' # <<>> /\ underway'[Len(underway')].origin = "method"
  BY <1>1, <1>2, InnerIs
<1>. QED BY <1>2, <1>5, <1>7, <1>8 DEF StackInOrder, HoldsNext, Inner

LEMMA TopGone ==
    ASSUME EventsTyped, StackInOrder, ~Idle, Carries, sent' = sent, triggered' = FALSE,
           underway' = Front(underway)
    PROVE  /\ underway' \in Seq(EventRecords) /\ StackInOrder'
           /\ Len(underway') = Len(underway) - 1
           /\ \A k \in 1..Len(underway') : underway'[k] = underway[k]
<1>. DEFINE m == Len(underway)
<1>1. m \in Nat \ {0} /\ underway \in Seq(EventRecords) /\ underway # <<>>
  BY InnerIs DEF EventsTyped, Idle
<1>2. /\ underway' \in Seq(EventRecords) /\ Len(underway') = m - 1
      /\ \A k \in 1..(m - 1) : underway'[k] = underway[k]
  <2>1. m - 1 \in Nat /\ Len(underway) = (m - 1) + 1
    BY <1>1
  <2>. QED BY <1>1, <2>1, FrontOf
<1>3. \A k \in 1..m : k < m => HoldsNext(underway[k]) /\ underway[k].origin # "method"
  BY OthersHold
<1>4. \A k \in 1..(m - 1) : k \in 1..m /\ k < m
  BY <1>1
<1>5. \A k \in 1..(m - 1) : HoldsNext(underway'[k]) /\ underway'[k].origin # "method"
  BY <1>2, <1>3, <1>4
<1>7. \A j, k \in 1..(m - 1) : j < k =>
          /\ underway'[j].origin # "method"
          /\ \/ underway'[j].n < underway'[k].n
             \/ underway'[j].n = underway'[k].n /\ underway'[j].origin = "done"
  BY <1>2, <1>4 DEF StackInOrder
<1>8. ~(underway' # <<>> /\ underway'[Len(underway')].origin = "method")
  <2>1. SUFFICES ASSUME underway' # <<>> PROVE underway'[Len(underway')].origin # "method"
    OBVIOUS
  <2>2. Len(underway') \in 1..(m - 1)
    BY <1>1, <1>2, <2>1
  <2>. QED BY <1>5, <2>2
<1>. QED BY <1>2, <1>5, <1>7, <1>8 DEF StackInOrder, HoldsNext, Inner

LEMMA StackStays ==
    ASSUME EventsTyped, StackInOrder, Fresh(handlers', handlers, binds),
           binds' \in Nat, binds <= binds',
           underway' = underway, sent' = sent, runs' = runs, acted' = acted, triggered' = triggered
    PROVE  StackInOrder'
<1>1. ASSUME NEW k \in 1..Len(underway)
      PROVE  LET ev == underway[k]
             IN  ev.n \in 1..sent /\ EventHolds(ev, handlers', binds', runs[ev.n], acted[ev.n])
  <2>1. binds \in Nat
    BY EventsAssumption DEF EventsTyped
  <2>2. /\ underway[k].n \in 1..sent
        /\ EventHolds(underway[k], handlers, binds, runs[underway[k].n], acted[underway[k].n])
    BY DEF StackInOrder
  <2>. QED BY <2>1, <2>2, EventStays
<1>. QED BY <1>1 DEF StackInOrder, Inner

(***************************************************************************)
(* Binding and unbinding: what has run stays run.                          *)
(***************************************************************************)
LEMMA NothingRuns ==
    ASSUME EventsTyped, RunsHold, OnceHolds, binds' \in Nat, binds <= binds',
           sent' = sent, runs' = runs, acted' = acted, nested' = nested, underway' = underway,
           \A d \in Node : \A k \in 1..Len(handlers'[d].list) :
              \/ handlers'[d].list[k].id = binds + 1
              \/ Old(handlers'[d].list[k], handlers, d)
    PROVE  RunsHold' /\ OnceHolds'
<1>1. binds \in Nat /\ sent \in Nat /\ Len(runs) = sent
  BY EventsAssumption DEF EventsTyped
<1>2. ASSUME NEW n \in 1..sent, NEW i \in 1..Len(runs[n])
      PROVE  runs[n][i][3] \in 1..binds' /\ runs[n][i][3] # binds + 1
  <2>1. runs[n][i][3] \in 1..binds
    BY DEF RunsHold
  <2>. QED BY <1>1, <2>1
<1>3. RunsHold'
  BY <1>2 DEF RunsHold
<1>4. ASSUME ~nested, NEW d \in Node, NEW k \in 1..Len(handlers'[d].list)
      PROVE  ~Spent(handlers'[d].list[k], runs)
  <2>1. CASE handlers'[d].list[k].id = binds + 1
    BY <1>1, <1>2, <2>1 DEF Spent, Ran, RanOnce
  <2>2. CASE Old(handlers'[d].list[k], handlers, d)
    BY <1>4, <2>2 DEF Old, OnceHolds
  <2>. QED BY <2>1, <2>2
<1>5. OnceHolds'
  BY <1>4 DEF OnceHolds, OnceMeansOnce
<1>. QED BY <1>3, <1>5

LEMMA BindHolds ==
    ASSUME EventsInv, NEW e \in Node, NEW b \in Bound, NEW for \in SelectorsOn, Bind(e, b, for)
    PROVE  EventsInv'
<1>. USE DEF EventsInv
<1>. DEFINE x == Binding(binds + 1, b, for)
<1>1. binds \in Nat /\ MaxBinds \in Nat /\ binds < MaxBinds /\ binds' = binds + 1
  BY EventsAssumption DEF EventsTyped, Bind
<1>2. binds' \in 0..MaxBinds /\ binds' \in Nat /\ binds <= binds'
  BY <1>1
<1>3. x \in Bindings /\ x.id = binds + 1
  <2>1. b.one \in BOOLEAN /\ b.fn \in Fns /\ b.ns \in Namespaces
    BY EventsAssumption DEF Fns, Namespaces
  <2>2. for \in SelectorsOn /\ binds + 1 \in Nat
    BY <1>1
  <2>. QED BY <2>1, <2>2 DEF Binding, Bindings
<1>4. /\ handlers' = [handlers EXCEPT ![e] = Added(@, x)] /\ listening' = listening \cup {e}
      /\ UNCHANGED <<triggered, underway, sent, runs, acted, nested>>
  BY DEF Bind
<1>. HIDE DEF x
<1>5. /\ handlers' \in [Node -> Lists] /\ ListsHold'
      /\ \A d \in Node : \A k \in 1..Len(handlers'[d].list) :
            \/ handlers'[d].list[k] = x
            \/ Old(handlers'[d].list[k], handlers, d)
      /\ Fresh(handlers', handlers, binds)
  BY <1>1, <1>3, <1>4, ListsGain
<1>6. EventsTyped'
  BY <1>2, <1>4, <1>5 DEF EventsTyped
<1>7. StackInOrder'
  BY <1>2, <1>4, <1>5, StackStays
<1>8. RunsHold' /\ OnceHolds'
  BY <1>2, <1>3, <1>4, <1>5, NothingRuns
<1>. QED BY <1>5, <1>6, <1>7, <1>8

LEMMA UnbindHolds ==
    ASSUME EventsInv, NEW e \in Node, NEW fn, NEW for, NEW ns, Unbind(e, fn, for, ns)
    PROVE  EventsInv'
<1>. USE DEF EventsInv
<1>. DEFINE g == Removed(handlers[e], fn, for, ns)
<1>1. binds \in Nat /\ binds' = binds /\ binds' \in Nat /\ binds <= binds'
  BY EventsAssumption DEF EventsTyped, Unbind
<1>2. OnlyLoses(handlers[e], g)
  BY ListsTyped, RemovedIs
<1>3. /\ handlers' = [handlers EXCEPT ![e] = g] /\ listening' = Listening(e, g)
      /\ UNCHANGED <<triggered, underway, sent, binds, runs, acted, nested>>
  BY DEF Unbind
<1>. HIDE DEF g
<1>4. /\ handlers' \in [Node -> Lists] /\ ListsHold'
      /\ \A d \in Node : \A k \in 1..Len(handlers'[d].list) :
            Old(handlers'[d].list[k], handlers, d)
      /\ Fresh(handlers', handlers, binds)
  BY <1>2, <1>3, ListsLose
<1>5. listening' \subseteq Node
  BY <1>3 DEF EventsTyped, Listening
<1>6. EventsTyped'
  BY <1>3, <1>4, <1>5 DEF EventsTyped
<1>7. StackInOrder'
  BY <1>1, <1>3, <1>4, StackStays
<1>8. RunsHold' /\ OnceHolds'
  BY <1>1, <1>3, <1>4, NothingRuns
<1>. QED BY <1>4, <1>6, <1>7, <1>8

LEMMA AsBefore == ASSUME NEW hs, NEW n PROVE Fresh(hs, hs, n)
BY DEF Fresh, Old

LEMMA SentHolds ==
    ASSUME NEW t \in Node, NEW n, NEW origin \in {"trigger", "browser"}, NEW ns,
           NEW hs, NEW binds_
    PROVE  EventHolds(Event(n, origin, t, ns), hs, binds_, <<>>, 0)
<1>. DEFINE ev == Event(n, origin, t, ns)
<1>1. /\ ev.origin = origin /\ ev.target = t /\ ev.path = Up(t) /\ ev.todo = <<>>
      /\ ev.prevented = FALSE
  BY DEF Event
<1>. HIDE DEF ev
<1>2. Climbs(ev)
  BY <1>1, UpIs DEF Climbs
<1>3. Orderly(ev.todo) /\ Known(ev, hs, binds_) /\ HasRun(ev, <<>>)
  BY <1>1 DEF Orderly, Known, HasRun
<1>. QED BY <1>1, <1>2, <1>3 DEF EventHolds, ev

LEMMA SendHolds ==
    ASSUME EventsInv, InHandler, NEW t \in Node, NEW origin \in {"trigger", "browser"},
           NEW ns \in Namespaces \cup {NoNamespace}, SendEvent(t, origin, ns)
    PROVE  EventsInv'
<1>. USE DEF EventsInv
<1>. DEFINE ev == Event(sent + 1, origin, t, ns)
            m == Len(underway)
<1>1. /\ sent \in Nat /\ sent' = sent + 1 /\ sent' \in 0..MaxEventsSent
      /\ m \in Nat /\ underway \in Seq(EventRecords)
      /\ Len(runs) = sent /\ Len(acted) = sent /\ runs \in Seq(Seq(Runs)) /\ acted \in Seq(Nat)
  <2>1. sent \in Nat /\ MaxEventsSent \in Nat /\ sent < MaxEventsSent /\ sent' = sent + 1
    BY EventsAssumption DEF EventsTyped, SendEvent
  <2>. QED BY <2>1 DEF EventsTyped
<1>2. ev \in EventRecords /\ ev.n = sent + 1 /\ ev.origin = origin /\ ev.todo = <<>>
  <2>1. Up(t) \in Seq(Node) /\ sent + 1 \in Nat
    BY <1>1, UpIs
  <2>. QED BY <2>1 DEF Event, EventRecords
<1>3. /\ underway' = Append(underway, ev) /\ runs' = Append(runs, <<>>) /\ acted' = Append(acted, 0)
      /\ nested' = (nested \/ ~Idle)
      /\ UNCHANGED <<handlers, listening, triggered, binds>>
  BY DEF SendEvent
<1>4. EventHolds(ev, handlers, binds, <<>>, 0)
  BY SentHolds
<1>. HIDE DEF ev
<1>5. /\ underway' \in Seq(EventRecords) /\ Len(underway') = m + 1
      /\ \A k \in 1..(m + 1) : underway'[k] = IF k = m + 1 THEN ev ELSE underway[k]
  BY <1>1, <1>2, <1>3
<1>6. /\ runs' \in Seq(Seq(Runs)) /\ Len(runs') = sent + 1
      /\ \A k \in 1..(sent + 1) : runs'[k] = IF k = sent + 1 THEN <<>> ELSE runs[k]
      /\ acted' \in Seq(Nat) /\ Len(acted') = sent + 1
      /\ \A k \in 1..(sent + 1) : acted'[k] = IF k = sent + 1 THEN 0 ELSE acted[k]
  <2>1. <<>> \in Seq(Runs) /\ 0 \in Nat
    OBVIOUS
  <2>2. /\ runs' \in Seq(Seq(Runs)) /\ Len(runs') = sent + 1
        /\ \A k \in 1..(sent + 1) : runs'[k] = IF k = sent + 1 THEN <<>> ELSE runs[k]
    BY <1>1, <1>3, <2>1
  <2>3. /\ acted' \in Seq(Nat) /\ Len(acted') = sent + 1
        /\ \A k \in 1..(sent + 1) : acted'[k] = IF k = sent + 1 THEN 0 ELSE acted[k]
    BY <1>1, <1>3, <2>1
  <2>. QED BY <2>2, <2>3
<1>7. EventsTyped'
  <2>1. nested' \in BOOLEAN
    BY <1>3 DEF EventsTyped
  <2>. QED BY <1>1, <1>3, <1>5, <1>6, <2>1 DEF EventsTyped
<1>8. m # 0 => underway[m].origin # "method"
  <2>1. SUFFICES ASSUME m # 0 PROVE underway[m].origin # "method"
    OBVIOUS
  <2>2. ~Idle /\ Inner.running
    BY <2>1 DEF Idle, InHandler
  <2>. QED BY <2>2, InnerIs DEF EventHolds, Inner
<1>9. triggered = FALSE
  <2>1. CASE Idle
    BY <2>1 DEF StackInOrder, Idle, EventsTyped
  <2>2. CASE ~Idle
    BY <1>1, <1>8, <2>2, InnerIs DEF Inner, EventsTyped
  <2>. QED BY <2>1, <2>2
<1>10. \A k \in 1..m : /\ underway[k].n \in 1..sent
                       /\ EventHolds(underway[k], handlers, binds, runs[underway[k].n],
                                     acted[underway[k].n])
                       /\ underway[k].origin # "method"
  <2>. SUFFICES ASSUME NEW k \in 1..m
                PROVE  /\ underway[k].n \in 1..sent
                       /\ EventHolds(underway[k], handlers, binds, runs[underway[k].n],
                                     acted[underway[k].n])
                       /\ underway[k].origin # "method"
    OBVIOUS
  <2>1. k < m => underway[k].origin # "method"
    <3>1. m \in 1..m
      BY <1>1
    <3>. QED BY <3>1 DEF StackInOrder
  <2>2. k < m \/ (k = m /\ m # 0)
    BY <1>1
  <2>. QED BY <1>8, <2>1, <2>2 DEF StackInOrder
<1>11. StackInOrder'
  <2>1. ASSUME NEW k \in 1..(m + 1)
        PROVE  /\ underway'[k].n \in 1..(sent + 1)
               /\ EventHolds(underway'[k], handlers, binds, runs'[underway'[k].n],
                             acted'[underway'[k].n])
    <3>1. CASE k = m + 1
      <4>1. underway'[k] = ev /\ sent + 1 \in 1..(sent + 1)
        BY <1>1, <1>5, <3>1
      <4>. QED BY <1>2, <1>4, <1>6, <4>1
    <3>2. CASE k # m + 1
      <4>1. k \in 1..m /\ underway'[k] = underway[k]
        BY <1>1, <1>5, <3>2
      <4>2. underway[k].n \in 1..sent
        BY <1>10, <4>1
      <4>3. underway[k].n \in 1..(sent + 1) /\ underway[k].n # sent + 1
        BY <1>1, <4>2
      <4>. QED BY <1>6, <1>10, <4>1, <4>3
    <3>. QED BY <3>1, <3>2
  <2>2. ASSUME NEW j \in 1..(m + 1), NEW k \in 1..(m + 1), j < k
        PROVE  /\ underway'[j].origin # "method"
               /\ \/ underway'[j].n < underway'[k].n
                  \/ underway'[j].n = underway'[k].n /\ underway'[j].origin = "done"
    <3>1. j \in 1..m /\ underway'[j] = underway[j]
      <4>1. m \in Nat
        BY <1>1
      <4>2. j \in 1..m /\ j # m + 1
        BY <2>2, <4>1
      <4>. QED BY <1>5, <4>2
    <3>2. CASE k = m + 1
      <4>1. underway'[k].n = sent + 1 /\ underway[j].n \in 1..sent
        BY <1>2, <1>5, <1>10, <3>1, <3>2
      <4>2. underway[j].n < sent + 1
        BY <1>1, <4>1
      <4>. QED BY <1>10, <3>1, <4>1, <4>2
    <3>3. CASE k # m + 1
      <4>1. k \in 1..m /\ underway'[k] = underway[k]
        BY <1>1, <1>5, <3>3
      <4>. QED BY <2>2, <3>1, <4>1 DEF StackInOrder
    <3>. QED BY <3>2, <3>3
  <2>3. underway'[m + 1].origin # "method"
    BY <1>1, <1>2, <1>5
  <2>. QED BY <1>1, <1>3, <1>5, <1>9, <2>1, <2>2, <2>3 DEF StackInOrder, Inner
<1>12. RunsHold'
  <2>1. \A n \in 1..(sent + 1) : n # sent + 1 => n \in 1..sent
    BY <1>1
  <2>. QED BY <1>1, <1>3, <1>6, <2>1 DEF RunsHold
<1>13. ListsHold'
  BY <1>3 DEF ListsHold
<1>14. ASSUME ~nested' PROVE ~nested /\ m = 0
  BY <1>3, <1>14 DEF Idle, EventsTyped
<1>15. ASSUME NEW b, ~Spent(b, runs) PROVE ~Spent(b, runs')
  <2>1. \A n \in 1..(sent + 1) : n # sent + 1 => n \in 1..sent
    BY <1>1
  <2>2. 1..Len(runs'[sent + 1]) = {}
    BY <1>1, <1>6
  <2>3. \A n \in 1..Len(runs') : \A i \in 1..Len(runs'[n]) :
           n \in 1..Len(runs) /\ runs'[n] = runs[n]
    BY <1>1, <1>6, <2>1, <2>2
  <2>4. Ran(b.id, runs') => Ran(b.id, runs)
    BY <2>3 DEF Ran
  <2>5. RanOnce(b.id, runs') => RanOnce(b.id, runs)
    BY <2>3 DEF RanOnce
  <2>. QED BY <1>15, <2>4, <2>5 DEF Spent
<1>16. ASSUME ~nested' PROVE OnceMeansOnce'
  <2>1. DOMAIN runs' = 1..(sent + 1) /\ DOMAIN runs = 1..sent
    BY <1>1, <1>6
  <2>2. \A n \in 1..(sent + 1) : n # sent + 1 => n \in 1..sent
    BY <1>1
  <2>3. DOMAIN runs'[sent + 1] = {}
    BY <1>1, <1>6
  <2>4. OnceMeansOnce
    BY <1>14, <1>16 DEF OnceHolds
  <2>5. ASSUME NEW n \in DOMAIN runs', NEW k \in DOMAIN runs'[n]
        PROVE  n \in DOMAIN runs /\ runs'[n] = runs[n]
    BY <1>6, <2>1, <2>2, <2>3
  <2>6. ASSUME NEW p \in DOMAIN runs', NEW n \in DOMAIN runs',
               NEW i \in DOMAIN runs'[p], NEW j \in DOMAIN runs'[n],
               runs'[p][i][4], <<p, i>> # <<n, j>>, runs'[p][i][3] = runs'[n][j][3]
        PROVE  /\ p = n /\ runs'[p][i][1] = runs'[n][j][1]
               /\ runs'[p][i][2] # runs'[n][j][2]
    <3>1. /\ p \in DOMAIN runs /\ runs'[p] = runs[p]
          /\ n \in DOMAIN runs /\ runs'[n] = runs[n]
      BY <2>5
    <3>2. p = n /\ runs[p][i][1] = runs[n][j][1] /\ runs[p][i][2] # runs[n][j][2]
      BY <1>14, <1>16, <2>4, <2>6, <3>1 DEF OnceMeansOnce
    <3>. QED BY <3>1, <3>2
  <2>. QED BY <2>6 DEF OnceMeansOnce
<1>17. OnceHolds'
  <2>. SUFFICES ASSUME ~nested'
                PROVE  /\ \A k \in 1..Len(underway') :
                             k < Len(underway') => underway'[k].origin = "done"
                       /\ \A d \in Node : \A i \in 1..Len(handlers[d].list) :
                             ~Spent(handlers[d].list[i], runs')
                       /\ \A k \in 1..Len(underway') : \A q \in 1..Len(underway'[k].todo) :
                             RanOnlyFor(underway'[k].todo[q].b, underway'[k], runs')
    BY <1>3, <1>16 DEF OnceHolds
  <2>1. m = 0 /\ 1..Len(underway') = {1} /\ underway'[1] = ev /\ Len(underway') = 1
    BY <1>5, <1>14
  <2>2. \A d \in Node : \A i \in 1..Len(handlers[d].list) : ~Spent(handlers[d].list[i], runs)
    BY <1>14 DEF OnceHolds
  <2>. QED BY <1>2, <1>15, <2>1, <2>2
<1>. QED BY <1>7, <1>11, <1>12, <1>13, <1>17

(***************************************************************************)
(* Steps of the innermost event in which no handler runs.                  *)
(***************************************************************************)
LEMMA NothingToDo ==
    ASSUME NEW s, s = <<>>
    PROVE  s \in Seq(Items) /\ Orderly(s) /\ 1..Len(s) = {}
BY DEF Orderly

LEMMA CarriesOn ==
    ASSUME EventsTyped, StackInOrder, ~Idle, handlers' = handlers, binds' = binds, runs' = runs,
           \A n \in 1..sent : n # Inner.n => acted'[n] = acted[n]
    PROVE  Carries
<1>1. binds \in Nat /\ runs \in Seq(Seq(Runs)) /\ Len(runs) = sent
  BY InnerIs DEF EventsTyped
<1>2. Fresh(handlers', handlers, binds)
  BY AsBefore
<1>. QED BY <1>1, <1>2 DEF Carries

LEMMA OnceStays ==
    ASSUME OnceHolds, handlers' = handlers, runs' = runs, nested' = nested,
           ~nested => /\ \A k \in 1..Len(underway') :
                            k < Len(underway') => underway'[k].origin = "done"
                      /\ \A k \in 1..Len(underway') : \A q \in 1..Len(underway'[k].todo) :
                            RanOnlyFor(underway'[k].todo[q].b, underway'[k], runs)
    PROVE  OnceHolds'
<1>1. ~nested' => /\ \A k \in 1..Len(underway') :
                        k < Len(underway') => underway'[k].origin = "done"
                  /\ \A k \in 1..Len(underway') : \A q \in 1..Len(underway'[k].todo) :
                        RanOnlyFor(underway'[k].todo[q].b, underway'[k], runs')
  OBVIOUS
<1>2. ~nested' => OnceMeansOnce'
  BY DEF OnceHolds, OnceMeansOnce
<1>3. ~nested' => \A e \in Node : \A i \in 1..Len(handlers'[e].list) :
                     ~Spent(handlers'[e].list[i], runs')
  BY DEF OnceHolds
<1>. QED BY <1>1, <1>2, <1>3 DEF OnceHolds

LEMMA PutIs ==
    ASSUME EventsTyped, StackInOrder, ~Idle, NEW ev \in EventRecords, underway' = Put(ev)
    PROVE  /\ Len(underway') = Len(underway)
           /\ \A k \in 1..Len(underway) :
                 underway'[k] = IF k = Len(underway) THEN ev ELSE underway[k]
<1>1. Len(underway) \in Nat \ {0} /\ underway \in Seq(EventRecords)
  BY InnerIs DEF EventsTyped
<1>. QED BY <1>1 DEF Put

LEMMA HandlerReturned ==
    ASSUME EventsInv, NEW p \in BOOLEAN, NEW s \in BOOLEAN, NEW i \in BOOLEAN,
           HandlerReturns(p, s, i)
    PROVE  EventsInv'
<1>. USE DEF EventsInv
<1>. DEFINE ev == [Inner EXCEPT !.running = FALSE, !.prevented = @ \/ p,
                      !.stopped = @ \/ s \/ i, !.immediate = @ \/ i]
<1>1. /\ ~Idle /\ Inner.running /\ underway' = Put(ev)
      /\ UNCHANGED <<handlers, listening, triggered, sent, binds, runs, acted, nested>>
  BY DEF HandlerReturns
<1>2. /\ Inner \in EventRecords
      /\ EventHolds(Inner, handlers, binds, runs[Inner.n], acted[Inner.n])
  BY <1>1, InnerIs
<1>3. /\ ev \in EventRecords /\ ev.n = Inner.n /\ ev.origin = Inner.origin
      /\ ev.path = Inner.path /\ ev.todo = Inner.todo /\ ev.at = Inner.at
      /\ ev.target = Inner.target /\ ~ev.running
  BY <1>2 DEF EventRecords
<1>. HIDE DEF ev
<1>4. Inner.origin \notin {"method", "done"}
  BY <1>1, <1>2 DEF EventHolds
<1>5. EventHolds(ev, handlers, binds, runs[ev.n], acted[ev.n])
  BY <1>2, <1>3, <1>4 DEF EventHolds, Climbs, Known, HasRun
<1>6. Carries
  BY <1>1, CarriesOn
<1>7. underway' \in Seq(EventRecords) /\ StackInOrder'
  BY <1>1, <1>3, <1>5, <1>6, TopReplaced
<1>8. OnceHolds'
  <2>1. /\ Len(underway') = Len(underway) /\ Len(underway) \in 1..Len(underway)
        /\ \A k \in 1..Len(underway) :
              underway'[k] = IF k = Len(underway) THEN ev ELSE underway[k]
    BY <1>1, <1>3, PutIs, InnerIs
  <2>2. \A k \in 1..Len(underway) :
           /\ underway'[k].todo = underway[k].todo /\ underway'[k].origin = underway[k].origin
           /\ underway'[k].n = underway[k].n /\ underway'[k].at = underway[k].at
    BY <1>3, <2>1 DEF Inner
  <2>3. ~nested => \A k \in 1..Len(underway') : \A q \in 1..Len(underway'[k].todo) :
                      RanOnlyFor(underway'[k].todo[q].b, underway[k], runs)
    BY <2>1, <2>2 DEF OnceHolds
  <2>4. ~nested => \A k \in 1..Len(underway') : \A q \in 1..Len(underway'[k].todo) :
                      RanOnlyFor(underway'[k].todo[q].b, underway'[k], runs)
    BY <2>1, <2>2, <2>3 DEF RanOnlyFor
  <2>5. ~nested => \A k \in 1..Len(underway') :
                      k < Len(underway') => underway'[k].origin = "done"
    BY <2>1, <2>2 DEF OnceHolds
  <2>. QED BY <1>1, <2>4, <2>5, OnceStays
<1>9. EventsTyped'
  BY <1>1, <1>7 DEF EventsTyped
<1>10. ListsHold' /\ RunsHold'
  BY <1>1 DEF ListsHold, RunsHold
<1>. QED BY <1>7, <1>8, <1>9, <1>10

(***************************************************************************)
(* The next element: what is copied there is bound there.                  *)
(***************************************************************************)
LEMMA CopiedHolds ==
    ASSUME EventsInv, NEW t \in Node, NEW e \in ToSet(Up(t)), e \in Node
    PROVE  LET c == Copied(handlers[e], t, e)
           IN  /\ c \in Seq(Items) /\ Orderly(c)
               /\ \A q \in 1..Len(c) :
                     /\ c[q].b.id \in 1..binds
                     /\ \A d \in Node : \A i \in 1..Len(handlers[d].list) :
                           handlers[d].list[i].id = c[q].b.id
                              => d = e /\ handlers[d].list[i] = c[q].b
                     /\ ~nested => ~Spent(c[q].b, runs)
<1>. DEFINE c == Copied(handlers[e], t, e)
<1>1. /\ c \in Seq(Items) /\ Orderly(c)
      /\ \A q \in 1..Len(c) : \E j \in 1..Len(handlers[e].list) : c[q].b = handlers[e].list[j]
  BY ListsTyped, CopiedIs DEF EventsInv
<1>. HIDE DEF c
<1>2. ASSUME NEW q \in 1..Len(c)
      PROVE  /\ c[q].b.id \in 1..binds
             /\ \A d \in Node : \A i \in 1..Len(handlers[d].list) :
                   handlers[d].list[i].id = c[q].b.id
                      => d = e /\ handlers[d].list[i] = c[q].b
             /\ ~nested => ~Spent(c[q].b, runs)
  <2>1. PICK j \in 1..Len(handlers[e].list) : c[q].b = handlers[e].list[j]
    BY <1>1
  <2>2. /\ handlers[e].list[j].id \in 1..binds
        /\ \A d \in Node : \A i \in 1..Len(handlers[d].list) :
              handlers[e].list[j].id = handlers[d].list[i].id => e = d /\ j = i
    BY DEF EventsInv, ListsHold, Numbered
  <2>3. ~nested => ~Spent(handlers[e].list[j], runs)
    BY DEF EventsInv, OnceHolds
  <2>. QED BY <2>1, <2>2, <2>3
<1>. QED BY <1>1, <1>2 DEF c

LEMMA NotSpent ==
    ASSUME NEW b, NEW rs, ~Spent(b, rs), NEW ev
    PROVE  RanOnlyFor(b, ev, rs)
BY DEF Spent, Ran, RanOnce, RanOnlyFor

LEMMA GoUpHolds ==
    ASSUME EventsInv, GoUp
    PROVE  EventsInv'
<1>. USE DEF EventsInv
<1>. DEFINE e == Head(Inner.path)
            todo == IF e \in listening /\ ~triggered THEN Copied(handlers[e], Inner.target, e)
                    ELSE <<>>
            ev == [Inner EXCEPT !.path = Tail(@), !.at = e, !.immediate = FALSE, !.todo = todo]
<1>1. /\ ~Idle /\ ~Inner.running /\ Inner.path # <<>> /\ underway' = Put(ev)
      /\ UNCHANGED <<handlers, listening, triggered, sent, binds, runs, acted, nested>>
  BY DEF GoUp, Resting
<1>2. /\ Inner \in EventRecords
      /\ triggered <=> Inner.origin = "method"
      /\ EventHolds(Inner, handlers, binds, runs[Inner.n], acted[Inner.n])
  BY <1>1, InnerIs
<1>3. /\ Inner.path \in Seq(Node) /\ Inner.target \in Node
      /\ Len(Inner.path) \in Nat \ {0} /\ e = Inner.path[1] /\ e \in Node
  <2>1. Inner.path \in Seq(Node) /\ Inner.target \in Node
    BY <1>2 DEF EventRecords
  <2>. QED BY <1>1, <2>1
<1>4. /\ Tail(Inner.path) \in Seq(Node) /\ Len(Tail(Inner.path)) = Len(Inner.path) - 1
      /\ \A p \in 1..(Len(Inner.path) - 1) : Tail(Inner.path)[p] = Inner.path[p + 1]
  BY <1>3
<1>5. /\ \A p \in 1..Len(Inner.path) : Inner.path[p] \in ToSet(Up(Inner.target))
      /\ \A p, q \in 1..Len(Inner.path) : p < q => Higher(Inner.path[p], Inner.path[q])
  BY <1>2 DEF EventHolds, Climbs
<1>6. e \in ToSet(Up(Inner.target))
  BY <1>3, <1>5
<1>. HIDE DEF e
<1>7. /\ todo \in Seq(Items) /\ Orderly(todo)
      /\ \A q \in 1..Len(todo) :
            /\ todo[q].b.id \in 1..binds
            /\ \A d \in Node : \A i \in 1..Len(handlers[d].list) :
                  handlers[d].list[i].id = todo[q].b.id
                     => d = e /\ handlers[d].list[i] = todo[q].b
            /\ ~nested => ~Spent(todo[q].b, runs)
  <2>1. CASE e \in listening /\ ~triggered
    <3>1. todo = Copied(handlers[e], Inner.target, e)
      BY <2>1
    <3>. QED BY <1>3, <1>6, <3>1, CopiedHolds
  <2>2. CASE ~(e \in listening /\ ~triggered)
    <3>1. todo = <<>>
      BY <2>2
    <3>. HIDE DEF todo
    <3>. QED BY <3>1, NothingToDo
  <2>. QED BY <2>1, <2>2
<1>8. Inner.origin = "method" => todo = <<>>
  BY <1>2
<1>. HIDE DEF todo
<1>9. /\ ev \in EventRecords /\ ev.n = Inner.n /\ ev.origin = Inner.origin
      /\ ev.path = Tail(Inner.path) /\ ev.todo = todo /\ ev.at = e
      /\ ev.target = Inner.target /\ ~ev.running /\ ev.prevented = Inner.prevented
  BY <1>1, <1>2, <1>3, <1>4, <1>7 DEF EventRecords
<1>. HIDE DEF ev
<1>10. \A p \in 1..Len(ev.path) : /\ p + 1 \in 1..Len(Inner.path) /\ 1 < p + 1
                                  /\ ev.path[p] = Inner.path[p + 1]
  BY <1>3, <1>4, <1>9
<1>11. Climbs(ev)
  <2>1. \A p \in 1..Len(ev.path) : ev.path[p] \in ToSet(Up(ev.target))
    BY <1>5, <1>9, <1>10
  <2>2. \A p, q \in 1..Len(ev.path) : p < q => Higher(ev.path[p], ev.path[q])
    <3>1. \A p, q \in 1..Len(ev.path) : p < q => p + 1 < q + 1
      OBVIOUS
    <3>. QED BY <1>5, <1>10, <3>1
  <2>3. \A p \in 1..Len(ev.path) : Higher(ev.at, ev.path[p])
    <3>1. 1 \in 1..Len(Inner.path)
      BY <1>3
    <3>. QED BY <1>3, <1>5, <1>9, <1>10, <3>1
  <2>. QED BY <2>1, <2>2, <2>3 DEF Climbs
<1>12. Inner.origin # "method" => HasRun(ev, runs[ev.n])
  <2>. SUFFICES ASSUME Inner.origin # "method", NEW i \in 1..Len(runs[ev.n])
                PROVE  /\ \A p \in 1..Len(ev.path) : Higher(runs[ev.n][i][1], ev.path[p])
                       /\ Higher(runs[ev.n][i][1], ev.at)
    BY DEF HasRun, Higher
  <2>1. \A p \in 1..Len(Inner.path) : Higher(runs[ev.n][i][1], Inner.path[p])
    BY <1>2, <1>9 DEF EventHolds, HasRun
  <2>2. 1 \in 1..Len(Inner.path)
    BY <1>3
  <2>. QED BY <1>3, <1>9, <1>10, <2>1, <2>2
<1>13. EventHolds(ev, handlers, binds, runs[ev.n], acted[ev.n])
  <2>1. Inner.origin # "done"
    BY <1>1, <1>2 DEF EventHolds
  <2>2. Known(ev, handlers, binds)
    BY <1>7, <1>9 DEF Known
  <2>. QED BY <1>2, <1>7, <1>8, <1>9, <1>11, <1>12, <2>1, <2>2 DEF EventHolds
<1>14. Carries
  BY <1>1, CarriesOn
<1>15. underway' \in Seq(EventRecords) /\ StackInOrder'
  BY <1>1, <1>9, <1>13, <1>14, TopReplaced
<1>16. OnceHolds'
  <2>1. /\ Len(underway') = Len(underway) /\ Len(underway) \in Nat
        /\ \A k \in 1..Len(underway) :
              underway'[k] = IF k = Len(underway) THEN ev ELSE underway[k]
    BY <1>1, <1>9, PutIs, InnerIs
  <2>2. ~nested => \A k \in 1..Len(underway') : \A q \in 1..Len(underway'[k].todo) :
                      RanOnlyFor(underway'[k].todo[q].b, underway'[k], runs)
    <3>1. ~nested => \A q \in 1..Len(ev.todo) : RanOnlyFor(ev.todo[q].b, ev, runs)
      BY <1>7, <1>9, NotSpent
    <3>. QED BY <2>1, <3>1 DEF OnceHolds
  <2>3. ~nested => \A k \in 1..Len(underway') :
                      k < Len(underway') => underway'[k].origin = "done"
    BY <2>1 DEF OnceHolds
  <2>. QED BY <1>1, <2>2, <2>3, OnceStays
<1>17. EventsTyped'
  BY <1>1, <1>15 DEF EventsTyped
<1>18. ListsHold' /\ RunsHold'
  BY <1>1 DEF ListsHold, RunsHold
<1>. QED BY <1>15, <1>16, <1>17, <1>18

(***************************************************************************)
(* The end of an event, and the method of the target that trigger() calls. *)
(***************************************************************************)
LEMMA GoneHolds ==
    ASSUME EventsInv, ~Idle, underway' = Front(underway), triggered' = FALSE,
           UNCHANGED <<handlers, listening, sent, binds, runs, nested>>,
           acted' \in Seq(Nat), Len(acted') = sent,
           \A n \in 1..sent : acted'[n] <= 1 /\ (n # Inner.n => acted'[n] = acted[n])
    PROVE  EventsInv'
<1>. USE DEF EventsInv
<1>1. Carries
  BY CarriesOn
<1>2. /\ underway' \in Seq(EventRecords) /\ StackInOrder'
      /\ Len(underway') = Len(underway) - 1
      /\ \A k \in 1..Len(underway') : underway'[k] = underway[k]
  BY <1>1, TopGone
<1>3. Len(underway) \in Nat \ {0}
  BY InnerIs
<1>4. \A k \in 1..Len(underway') : k \in 1..Len(underway) /\ k < Len(underway)
  BY <1>2, <1>3
<1>5. OnceHolds'
  <2>1. ~nested => /\ \A k \in 1..Len(underway') :
                         k < Len(underway') => underway'[k].origin = "done"
                   /\ \A k \in 1..Len(underway') : \A q \in 1..Len(underway'[k].todo) :
                         RanOnlyFor(underway'[k].todo[q].b, underway'[k], runs)
    BY <1>2, <1>4 DEF OnceHolds
  <2>. QED BY <2>1, OnceStays
<1>6. EventsTyped'
  BY <1>2 DEF EventsTyped
<1>7. ListsHold'
  BY DEF ListsHold
<1>8. RunsHold'
  BY DEF RunsHold
<1>. QED BY <1>2, <1>5, <1>6, <1>7, <1>8

LEMMA ForgetHolds ==
    ASSUME EventsInv, Forget
    PROVE  EventsInv'
<1>1. /\ ~Idle /\ Inner.prevented /\ underway' = Front(underway)
      /\ UNCHANGED <<handlers, listening, triggered, sent, binds, runs, acted, nested>>
  BY DEF Forget, Ended_, Resting
<1>2. triggered' = FALSE
  BY <1>1, InnerIs DEF EventHolds, EventsInv, EventsTyped
<1>3. /\ acted' \in Seq(Nat) /\ Len(acted') = sent
      /\ \A n \in 1..sent : acted'[n] <= 1 /\ (n # Inner.n => acted'[n] = acted[n])
  BY <1>1 DEF EventsInv, EventsTyped, RunsHold
<1>. QED BY <1>1, <1>2, <1>3, GoneHolds

LEMMA MethodHolds ==
    ASSUME NEW t \in Node, NEW n, NEW hs, NEW binds_, NEW ran
    PROVE  EventHolds(Event(n, "method", t, NoNamespace), hs, binds_, ran, 0)
<1>. DEFINE ev == Event(n, "method", t, NoNamespace)
<1>1. /\ ev.origin = "method" /\ ev.target = t /\ ev.path = Up(t) /\ ev.todo = <<>>
      /\ ev.prevented = FALSE /\ ev.running = FALSE
  BY DEF Event
<1>. HIDE DEF ev
<1>2. Climbs(ev)
  BY <1>1, UpIs DEF Climbs
<1>3. Orderly(ev.todo) /\ Known(ev, hs, binds_)
  BY <1>1 DEF Orderly, Known
<1>. QED BY <1>1, <1>2, <1>3 DEF EventHolds, ev

LEMMA MethodCalled ==
    ASSUME EventsInv, Act, Inner.origin = "trigger"
    PROVE  EventsInv'
<1>. USE DEF EventsInv
<1>. DEFINE m == Len(underway)
            done == [Inner EXCEPT !.origin = "done", !.path = <<>>]
            method == Event(Inner.n, "method", Inner.target, NoNamespace)
<1>1. /\ ~Idle /\ ~Inner.running /\ Inner.todo = <<>>
      /\ underway' = Append(Put(done), method) /\ triggered' = TRUE
      /\ UNCHANGED <<handlers, listening, sent, binds, runs, acted, nested>>
  BY DEF Act, Ended_, Resting
<1>2. /\ m \in Nat \ {0} /\ Inner \in EventRecords /\ Inner.n \in 1..sent
      /\ EventHolds(Inner, handlers, binds, runs[Inner.n], acted[Inner.n])
      /\ underway \in Seq(EventRecords)
  BY <1>1, InnerIs DEF EventsTyped
<1>3. /\ done \in EventRecords /\ done.n = Inner.n /\ done.origin = "done"
      /\ done.path = <<>> /\ done.todo = <<>> /\ ~done.running
      /\ done.prevented = Inner.prevented
  <2>1. <<>> \in Seq(Node)
    OBVIOUS
  <2>. QED BY <1>1, <1>2, <2>1 DEF EventRecords
<1>4. /\ method \in EventRecords /\ method.n = Inner.n /\ method.origin = "method"
      /\ method.todo = <<>>
  <2>1. Inner.target \in Node /\ Inner.n \in Nat
    BY <1>2 DEF EventRecords
  <2>2. Up(Inner.target) \in Seq(Node)
    BY <2>1, UpIs
  <2>. QED BY <2>1, <2>2 DEF EventRecords, Event
<1>5. EventHolds(method, handlers, binds, runs[Inner.n], acted[Inner.n])
  <2>1. acted[Inner.n] = 0 /\ Inner.target \in Node
    BY <1>2 DEF EventHolds, EventRecords
  <2>. QED BY <2>1, MethodHolds
<1>. HIDE DEF done, method
<1>6. EventHolds(done, handlers, binds, runs[Inner.n], acted[Inner.n])
  <2>1. Climbs(done) /\ Orderly(done.todo) /\ Known(done, handlers, binds)
        /\ HasRun(done, runs[Inner.n])
    BY <1>3 DEF Climbs, Orderly, Known, HasRun
  <2>. QED BY <1>3, <2>1 DEF EventHolds
<1>7. /\ underway' \in Seq(EventRecords) /\ Len(underway') = m + 1
      /\ \A k \in 1..(m + 1) : underway'[k] = IF k = m + 1 THEN method
                                              ELSE IF k = m THEN done ELSE underway[k]
  <2>1. /\ Put(done) \in Seq(EventRecords) /\ Len(Put(done)) = m
        /\ \A k \in 1..m : Put(done)[k] = IF k = m THEN done ELSE underway[k]
    BY <1>2, <1>3 DEF Put
  <2>. QED BY <1>1, <1>2, <1>4, <2>1
<1>8. \A k \in 1..m : k < m => HoldsNext(underway[k]) /\ underway[k].origin # "method"
  <2>1. Carries
    BY <1>1, CarriesOn
  <2>. QED BY <1>1, <2>1, OthersHold
<1>9. HoldsNext(done) /\ HoldsNext(method)
  BY <1>1, <1>2, <1>3, <1>4, <1>5, <1>6 DEF HoldsNext
<1>10. \A k \in 1..(m + 1) : k = m + 1 \/ k = m \/ (k \in 1..m /\ k < m)
  BY <1>2
<1>11. \A k \in 1..(m + 1) : HoldsNext(underway'[k])
  BY <1>7, <1>8, <1>9, <1>10
<1>12. ASSUME NEW j \in 1..(m + 1), NEW k \in 1..(m + 1), j < k
       PROVE  /\ underway'[j].origin # "method"
              /\ \/ underway'[j].n < underway'[k].n
                 \/ underway'[j].n = underway'[k].n /\ underway'[j].origin = "done"
  <2>1. j \in 1..m /\ m \in 1..m /\ (j < m \/ (j = m /\ k = m + 1))
    BY <1>2, <1>12
  <2>2. CASE j = m /\ k = m + 1
    <3>1. underway'[j] = done /\ underway'[k] = method
      BY <1>2, <1>7, <2>2
    <3>. QED BY <1>3, <1>4, <3>1
  <2>3. CASE j < m
    <3>1. underway'[j] = underway[j]
      BY <1>2, <1>7, <2>3
    <3>2. k \in 1..m => underway'[k].n = underway[k].n
      BY <1>2, <1>3, <1>7 DEF Inner
    <3>3. k \notin 1..m => underway'[k].n = underway[m].n
      BY <1>2, <1>4, <1>7 DEF Inner
    <3>4. \A q \in 1..m : j < q =>
             /\ underway[j].origin # "method"
             /\ \/ underway[j].n < underway[q].n
                \/ underway[j].n = underway[q].n /\ underway[j].origin = "done"
      BY <2>1 DEF StackInOrder
    <3>. QED BY <1>12, <2>1, <2>3, <3>1, <3>2, <3>3, <3>4
  <2>. QED BY <2>1, <2>2, <2>3
<1>13. triggered' <=> underway' # <<>> /\ underway'[Len(underway')].origin = "method"
  BY <1>1, <1>2, <1>4, <1>7
<1>14. StackInOrder'
  BY <1>7, <1>11, <1>12, <1>13 DEF StackInOrder, HoldsNext, Inner
<1>15. OnceHolds'
  <2>1. ~nested => \A k \in 1..Len(underway') :
                      k < Len(underway') => underway'[k].origin = "done"
    BY <1>3, <1>7, <1>10 DEF OnceHolds
  <2>2. ~nested => \A k \in 1..Len(underway') : \A q \in 1..Len(underway'[k].todo) :
                      RanOnlyFor(underway'[k].todo[q].b, underway'[k], runs)
    <3>1. 1..Len(done.todo) = {} /\ 1..Len(method.todo) = {}
      BY <1>3, <1>4
    <3>. QED BY <1>7, <1>10, <3>1 DEF OnceHolds
  <2>. QED BY <1>1, <2>1, <2>2, OnceStays
<1>16. EventsTyped'
  BY <1>1, <1>7 DEF EventsTyped
<1>17. ListsHold' /\ RunsHold'
  <2>1. UNCHANGED <<handlers, listening, sent, binds, runs, acted>>
    BY <1>1
  <2>2. ListsHold'
    BY <2>1 DEF ListsHold
  <2>3. RunsHold'
    BY <2>1 DEF RunsHold
  <2>. QED BY <2>2, <2>3
<1>. QED BY <1>14, <1>15, <1>16, <1>17

LEMMA ActHolds ==
    ASSUME EventsInv, Act
    PROVE  EventsInv'
<1>1. CASE Inner.origin = "trigger"
  BY <1>1, MethodCalled
<1>2. CASE Inner.origin # "trigger"
  <2>1. /\ ~Idle /\ underway' = Front(underway)
        /\ UNCHANGED <<handlers, listening, sent, binds, runs, nested>>
        /\ acted' = IF Inner.origin = "done" THEN acted
                    ELSE [acted EXCEPT ![Inner.n] = @ + 1]
        /\ triggered' = IF Inner.origin = "method" THEN FALSE ELSE triggered
    BY <1>2 DEF Act, Ended_, Resting
  <2>2. /\ Inner.n \in 1..sent /\ sent \in Nat /\ (triggered <=> Inner.origin = "method")
        /\ Inner.origin # "done" => acted[Inner.n] = 0
        /\ triggered \in BOOLEAN /\ acted \in Seq(Nat) /\ Len(acted) = sent
    BY <2>1, InnerIs DEF EventHolds, EventsInv, EventsTyped
  <2>3. triggered' = FALSE
    BY <2>1, <2>2
  <2>4. \A n \in 1..sent : acted[n] <= 1
    BY DEF EventsInv, RunsHold
  <2>5. /\ acted' \in Seq(Nat) /\ Len(acted') = sent
        /\ \A n \in 1..sent : acted'[n] <= 1 /\ (n # Inner.n => acted'[n] = acted[n])
    <3>1. CASE Inner.origin = "done"
      BY <2>1, <2>2, <2>4, <3>1
    <3>2. CASE Inner.origin # "done"
      BY <2>1, <2>2, <2>4, <3>2
    <3>. QED BY <3>1, <3>2
  <2>. QED BY <2>1, <2>3, <2>5, GoneHolds
<1>. QED BY <1>1, <1>2

(***************************************************************************)
(* What is left to run, of what was.                                       *)
(***************************************************************************)
Rest(s, t) == \A q \in 1..Len(t) : q \in Nat /\ q + 1 \in 1..Len(s) /\ t[q] = s[q + 1]

Proceeds(ev, old) ==
    /\ ev.path = old.path /\ ev.at = old.at /\ ev.target = old.target
    /\ ev.n = old.n /\ ev.origin = old.origin /\ ev.prevented = old.prevented
    /\ old.todo # <<>> /\ Rest(old.todo, ev.todo)

LEMMA RestHolds ==
    ASSUME NEW ev, NEW old, Proceeds(ev, old), NEW hs, NEW n, NEW ran, NEW count,
           EventHolds(old, hs, n, ran, count)
    PROVE  /\ Climbs(ev) /\ Orderly(ev.todo) /\ Known(ev, hs, n) /\ HasRun(ev, ran)
           /\ ev.origin \notin {"method", "done"} /\ count = 0
<1>1. old.todo # <<>> /\ Rest(old.todo, ev.todo)
  BY DEF Proceeds
<1>2. ev.origin \notin {"method", "done"} /\ old.origin = ev.origin /\ count = 0
  BY DEF Proceeds, EventHolds
<1>3. Climbs(ev)
  BY <1>1 DEF Proceeds, EventHolds, Climbs
<1>4. Orderly(ev.todo)
  <2>1. Orderly(old.todo)
    BY DEF EventHolds
  <2>2. ASSUME NEW i \in 1..Len(ev.todo), NEW j \in 1..Len(ev.todo), i < j
        PROVE  Follows(ev.todo[i], ev.todo[j]) /\ Apart(ev.todo[i], ev.todo[j])
    <3>1. /\ i + 1 \in 1..Len(old.todo) /\ ev.todo[i] = old.todo[i + 1]
          /\ j + 1 \in 1..Len(old.todo) /\ ev.todo[j] = old.todo[j + 1]
          /\ i \in Nat /\ j \in Nat
      BY <1>1 DEF Rest
    <3>2. i + 1 < j + 1
      BY <2>2, <3>1
    <3>. QED BY <2>1, <3>1, <3>2 DEF Orderly
  <2>. QED BY <2>2 DEF Orderly
<1>5. Known(ev, hs, n)
  <2>1. Known(old, hs, n) /\ ev.at = old.at
    BY DEF EventHolds, Proceeds
  <2>2. ASSUME NEW q \in 1..Len(ev.todo)
        PROVE  /\ ev.todo[q].b.id \in 1..n
               /\ \A e \in Node : \A i \in 1..Len(hs[e].list) :
                     hs[e].list[i].id = ev.todo[q].b.id
                        => e = ev.at /\ hs[e].list[i] = ev.todo[q].b
    <3>1. q + 1 \in 1..Len(old.todo) /\ ev.todo[q] = old.todo[q + 1]
      BY <1>1 DEF Rest
    <3>. QED BY <2>1, <3>1 DEF Known
  <2>. QED BY <2>2 DEF Known
<1>6. HasRun(ev, ran)
  <2>1. HasRun(old, ran) /\ ev.at = old.at /\ ev.path = old.path
    BY <1>2 DEF EventHolds, Proceeds
  <2>. QED BY <1>1, <2>1 DEF HasRun, Rest
<1>. QED BY <1>2, <1>3, <1>4, <1>5, <1>6

LEMMA TailIs ==
    ASSUME NEW S, NEW s \in Seq(S), s # <<>>
    PROVE  /\ Tail(s) \in Seq(S) /\ Rest(s, Tail(s)) /\ Head(s) = s[1] /\ s[1] \in S
           /\ Len(s) \in Nat \ {0} /\ 1 \in 1..Len(s)
           /\ <<>> \in Seq(S) /\ Rest(s, <<>>)
<1>1. Len(s) \in Nat \ {0} /\ Len(Tail(s)) = Len(s) - 1 /\ Tail(s) \in Seq(S)
  OBVIOUS
<1>2. ASSUME NEW q \in 1..Len(Tail(s))
      PROVE  q \in Nat /\ q + 1 \in 1..Len(s) /\ Tail(s)[q] = s[q + 1]
  BY <1>1
<1>3. Rest(s, Tail(s))
  BY <1>2 DEF Rest
<1>4. Rest(s, <<>>) /\ <<>> \in Seq(S)
  BY DEF Rest
<1>. QED BY <1>1, <1>3, <1>4

LEMMA PassHolds ==
    ASSUME EventsInv, ~Idle, ~Inner.running, Inner.todo # <<>>,
           NEW ev \in EventRecords, Proceeds(ev, Inner), ~ev.running, underway' = Put(ev),
           UNCHANGED <<handlers, listening, triggered, sent, binds, runs, acted, nested>>
    PROVE  EventsInv'
<1>. USE DEF EventsInv
<1>1. /\ EventHolds(Inner, handlers, binds, runs[Inner.n], acted[Inner.n])
      /\ ev.n = Inner.n /\ ev.origin = Inner.origin /\ ev.prevented = Inner.prevented
  BY InnerIs DEF Proceeds
<1>2. /\ Climbs(ev) /\ Orderly(ev.todo) /\ Known(ev, handlers, binds)
      /\ HasRun(ev, runs[Inner.n]) /\ ev.origin \notin {"method", "done"}
      /\ acted[Inner.n] = 0
  BY <1>1, RestHolds
<1>3. EventHolds(ev, handlers, binds, runs[ev.n], acted[ev.n])
  BY <1>1, <1>2 DEF EventHolds
<1>4. Carries
  BY CarriesOn
<1>5. underway' \in Seq(EventRecords) /\ StackInOrder'
  BY <1>1, <1>3, <1>4, TopReplaced
<1>6. OnceHolds'
  <2>1. /\ Len(underway') = Len(underway) /\ Len(underway) \in Nat
        /\ Len(underway) \in 1..Len(underway)
        /\ \A k \in 1..Len(underway) :
              underway'[k] = IF k = Len(underway) THEN ev ELSE underway[k]
    BY PutIs, InnerIs
  <2>2. ASSUME ~nested
        PROVE  \A k \in 1..Len(underway') : \A q \in 1..Len(underway'[k].todo) :
                      RanOnlyFor(underway'[k].todo[q].b, underway'[k], runs)
    <3>1. \A k \in 1..Len(underway) : \A q \in 1..Len(underway[k].todo) :
             RanOnlyFor(underway[k].todo[q].b, underway[k], runs)
      BY <2>2 DEF OnceHolds
    <3>2. \A q \in 1..Len(Inner.todo) : RanOnlyFor(Inner.todo[q].b, Inner, runs)
      BY <2>1, <3>1 DEF Inner
    <3>3. \A q \in 1..Len(ev.todo) : RanOnlyFor(ev.todo[q].b, ev, runs)
      <4>1. ev.n = Inner.n /\ ev.at = Inner.at
        BY DEF Proceeds
      <4>2. \A q \in 1..Len(ev.todo) : RanOnlyFor(ev.todo[q].b, Inner, runs)
        BY <3>2 DEF Proceeds, Rest
      <4>. QED BY <4>1, <4>2 DEF RanOnlyFor
    <3>. QED BY <2>1, <3>1, <3>3
  <2>3. ~nested => \A k \in 1..Len(underway') :
                      k < Len(underway') => underway'[k].origin = "done"
    BY <2>1 DEF OnceHolds
  <2>. QED BY <2>2, <2>3, OnceStays
<1>7. EventsTyped'
  BY <1>5 DEF EventsTyped
<1>8. ListsHold' /\ RunsHold'
  BY DEF ListsHold, RunsHold
<1>. QED BY <1>5, <1>6, <1>7, <1>8

(***************************************************************************)
(* A handler runs: what is for one time is unbound first.                  *)
(***************************************************************************)
Foremost(i) ==
    /\ ~Idle /\ ~Inner.running /\ Inner.todo # <<>>
    /\ i = Inner.todo[1] /\ i \in Items /\ Inner.at \in Node

LEMMA ItemIs ==
    ASSUME EventsInv, NEW i, Foremost(i)
    PROVE  /\ i.b.id \in 1..binds
           /\ \A d \in Node : \A k \in 1..Len(handlers[d].list) :
                 handlers[d].list[k].id = i.b.id => d = Inner.at /\ handlers[d].list[k] = i.b
           /\ ~nested => RanOnlyFor(i.b, Inner, runs)
<1>1. /\ Inner \in EventRecords /\ Len(underway) \in 1..Len(underway)
      /\ EventHolds(Inner, handlers, binds, runs[Inner.n], acted[Inner.n])
  BY InnerIs DEF Foremost, EventsInv
<1>2. 1 \in 1..Len(Inner.todo)
  BY <1>1, TailIs DEF Foremost, EventRecords
<1>3. Known(Inner, handlers, binds)
  BY <1>1 DEF EventHolds
<1>4. ~nested => RanOnlyFor(i.b, Inner, runs)
  BY <1>1, <1>2 DEF Foremost, EventsInv, OnceHolds, Inner
<1>. QED BY <1>2, <1>3, <1>4 DEF Known, Foremost

LEMMA Unbound ==
    ASSUME EventsInv, NEW i, Foremost(i), binds' = binds,
           LET e == Inner.at
               h == Removed(handlers[e], i.b.fn, i.b.selector, i.b.ns)
           IN  /\ handlers' = IF i.b.one THEN [handlers EXCEPT ![e] = h] ELSE handlers
               /\ listening' = IF i.b.one THEN Listening(e, h) ELSE listening
    PROVE  /\ handlers' \in [Node -> Lists] /\ listening' \subseteq Node /\ ListsHold'
           /\ Fresh(handlers', handlers, binds)
           /\ \A d \in Node : \A k \in 1..Len(handlers'[d].list) :
                 /\ Old(handlers'[d].list[k], handlers, d)
                 /\ i.b.one => handlers'[d].list[k].id # i.b.id
<1>. DEFINE e == Inner.at
            g == Removed(handlers[e], i.b.fn, i.b.selector, i.b.ns)
<1>1. e \in Node /\ EventsTyped /\ ListsHold
  BY DEF Foremost, EventsInv
<1>2. CASE ~i.b.one
  <2>1. handlers' = handlers /\ listening' = listening
    BY <1>2
  <2>2. \A d \in Node : \A k \in 1..Len(handlers[d].list) : Old(handlers[d].list[k], handlers, d)
    BY DEF Old
  <2>3. Fresh(handlers, handlers, binds)
    BY AsBefore
  <2>4. ListsHold'
    BY <1>1, <2>1 DEF ListsHold
  <2>5. handlers \in [Node -> Lists] /\ listening \subseteq Node
    BY <1>1 DEF EventsTyped
  <2>. QED BY <1>2, <2>1, <2>2, <2>3, <2>4, <2>5
<1>3. CASE i.b.one
  <2>1. handlers' = [handlers EXCEPT ![e] = g] /\ listening' = Listening(e, g)
    BY <1>3
  <2>2. /\ OnlyLoses(handlers[e], g)
        /\ \A k \in 1..Len(g.list) : ~Matches(g.list[k], i.b.fn, i.b.selector, i.b.ns)
    BY <1>1, ListsTyped, RemovedIs
  <2>. HIDE DEF g, e
  <2>3. /\ handlers' \in [Node -> Lists] /\ ListsHold'
        /\ \A d \in Node : \A k \in 1..Len(handlers'[d].list) :
              Old(handlers'[d].list[k], handlers, d)
        /\ Fresh(handlers', handlers, binds)
    BY <1>1, <2>1, <2>2, ListsLose
  <2>4. listening' \subseteq Node
    BY <1>1, <2>1 DEF EventsTyped, Listening
  <2>5. handlers'[e] = g
    BY <1>1, <2>1 DEF EventsTyped
  <2>6. Matches(i.b, i.b.fn, i.b.selector, i.b.ns)
    BY DEF Matches
  <2>7. ASSUME NEW d \in Node, NEW k \in 1..Len(handlers'[d].list),
               handlers'[d].list[k].id = i.b.id
        PROVE  FALSE
    <3>1. PICK j \in 1..Len(handlers[d].list) : handlers'[d].list[k] = handlers[d].list[j]
      BY <2>3 DEF Old
    <3>2. d = e /\ handlers'[d].list[k] = i.b
      BY <2>7, <3>1, ItemIs DEF e
    <3>. QED BY <2>2, <2>5, <2>6, <3>2
  <2>. QED BY <2>3, <2>4, <2>7
<1>. QED BY <1>2, <1>3

(***************************************************************************)
(* What an event has run, and one more.                                    *)
(***************************************************************************)
HasOneMore(rs, qs, n, x) ==
    /\ Len(qs) = Len(rs) /\ DOMAIN qs = 1..Len(rs)
    /\ \A m \in 1..Len(rs) : (m # n => qs[m] = rs[m]) /\ DOMAIN qs[m] = 1..Len(qs[m])
    /\ Len(rs[n]) \in Nat /\ Len(qs[n]) = Len(rs[n]) + 1
    /\ \A i \in 1..Len(qs[n]) :
          \/ i \in 1..Len(rs[n]) /\ qs[n][i] = rs[n][i]
          \/ i = Len(rs[n]) + 1 /\ qs[n][i] = x

LEMMA OneMore ==
    ASSUME NEW S, NEW rs \in Seq(Seq(S)), NEW n \in 1..Len(rs), NEW x \in S,
           NEW qs, qs = [rs EXCEPT ![n] = Append(@, x)]
    PROVE  qs \in Seq(Seq(S)) /\ HasOneMore(rs, qs, n, x)
<1>1. Len(rs) \in Nat /\ rs[n] \in Seq(S) /\ Append(rs[n], x) \in Seq(S)
  OBVIOUS
<1>2. /\ qs \in Seq(Seq(S)) /\ Len(qs) = Len(rs) /\ qs[n] = Append(rs[n], x)
      /\ \A m \in 1..Len(rs) : m # n => qs[m] = rs[m]
  BY <1>1
<1>3. /\ Len(rs[n]) \in Nat /\ Len(qs[n]) = Len(rs[n]) + 1
      /\ \A i \in 1..Len(qs[n]) :
            \/ i \in 1..Len(rs[n]) /\ qs[n][i] = rs[n][i]
            \/ i = Len(rs[n]) + 1 /\ qs[n][i] = x
  BY <1>1, <1>2
<1>4. DOMAIN qs = 1..Len(rs) /\ \A m \in 1..Len(rs) : DOMAIN qs[m] = 1..Len(qs[m])
  BY <1>2
<1>. QED BY <1>2, <1>3, <1>4 DEF HasOneMore

(* A place of what has run then is one of before, or the new one. *)
Further(n, x) ==
    /\ \A m \in 1..Len(runs') : \A i \in 1..Len(runs'[m]) :
          \/ m \in 1..Len(runs) /\ i \in 1..Len(runs[m]) /\ runs'[m][i] = runs[m][i]
          \/ m = n /\ i = Len(runs[n]) + 1 /\ runs'[m][i] = x
    /\ \A m \in 1..Len(runs') : DOMAIN runs'[m] = 1..Len(runs'[m])
    /\ DOMAIN runs' = 1..Len(runs')

LEMMA SpentThen ==
    ASSUME NEW n, NEW x, Further(n, x), NEW c, Spent(c, runs')
    PROVE  Spent(c, runs) \/ (c.id = x[3] /\ (x[4] \/ c.one))
<1>1. Ran(c.id, runs') => Ran(c.id, runs) \/ c.id = x[3]
  BY DEF Further, Ran
<1>2. RanOnce(c.id, runs') => RanOnce(c.id, runs) \/ (c.id = x[3] /\ x[4])
  BY DEF Further, RanOnce
<1>. QED BY <1>1, <1>2 DEF Spent

LEMMA OnlyForThen ==
    ASSUME NEW n, NEW x, Further(n, x), NEW c, NEW ev, RanOnlyFor(c, ev, runs),
           c.id = x[3] => ev.n = n /\ ev.at = x[1]
    PROVE  RanOnlyFor(c, ev, runs')
BY DEF Further, RanOnlyFor

LEMMA OnceThen ==
    ASSUME EventsTyped, OnceMeansOnce, ~nested, NEW n, NEW b, NEW x, Further(n, x),
           x[3] = b.id, x[4] = b.one,
           NEW ev, ev.n = n, ev.at = x[1], RanOnlyFor(b, ev, runs),
           \A k \in 1..Len(runs[n]) :
              runs[n][k][1] = x[1] /\ runs[n][k][3] = x[3] => runs[n][k][2] # x[2]
    PROVE  OnceMeansOnce'
<1>5. DOMAIN runs' = 1..Len(runs') /\ \A m \in 1..Len(runs') : DOMAIN runs'[m] = 1..Len(runs'[m])
  BY DEF Further
<1>. SUFFICES ASSUME NEW p \in 1..Len(runs'), NEW m \in 1..Len(runs'),
                     NEW i \in 1..Len(runs'[p]), NEW j \in 1..Len(runs'[m]),
                     runs'[p][i][4], <<p, i>> # <<m, j>>, runs'[p][i][3] = runs'[m][j][3]
              PROVE  /\ p = m /\ runs'[p][i][1] = runs'[m][j][1]
                     /\ runs'[p][i][2] # runs'[m][j][2]
  BY <1>5 DEF OnceMeansOnce
<1>. DEFINE Was(q, k) ==
               q \in 1..Len(runs) /\ k \in 1..Len(runs[q]) /\ runs'[q][k] = runs[q][k]
            New_(q, k) == q = n /\ k = Len(runs[n]) + 1 /\ runs'[q][k] = x
<1>1. (Was(p, i) \/ New_(p, i)) /\ (Was(m, j) \/ New_(m, j))
  BY DEF Further
<1>2. CASE Was(p, i) /\ Was(m, j)
  <2>1. DOMAIN runs = 1..Len(runs) /\ \A q \in 1..Len(runs) : DOMAIN runs[q] = 1..Len(runs[q])
    BY DEF EventsTyped
  <2>2. /\ p \in DOMAIN runs /\ m \in DOMAIN runs
        /\ i \in DOMAIN runs[p] /\ j \in DOMAIN runs[m]
        /\ runs[p][i][4] /\ runs[p][i][3] = runs[m][j][3]
    BY <1>2, <2>1
  <2>3. /\ p = m /\ runs[p][i][1] = runs[m][j][1]
        /\ runs[p][i][2] # runs[m][j][2]
    BY <2>2 DEF OnceMeansOnce
  <2>. QED BY <1>2, <2>3
<1>3. CASE New_(p, i) /\ Was(m, j)
  <2>1. m = n /\ runs[m][j][1] = x[1]
    BY <1>3 DEF RanOnlyFor
  <2>. QED BY <1>3, <2>1
<1>4. CASE Was(p, i) /\ New_(m, j)
  <2>1. p = n /\ runs[p][i][1] = x[1]
    BY <1>4 DEF RanOnlyFor
  <2>. QED BY <1>4, <2>1
<1>. QED BY <1>1, <1>2, <1>3, <1>4

LEMMA RunHolds ==
    ASSUME EventsInv, NEW i, Foremost(i), i.b.one \in BOOLEAN,
           NEW ev \in EventRecords, Proceeds(ev, Inner), ev.on = i.on, ev.running,
           underway' = Put(ev),
           runs' = [runs EXCEPT ![Inner.n] = Append(@, <<Inner.at, i.on, i.b.id, i.b.one>>)],
           LET e == Inner.at
               h == Removed(handlers[e], i.b.fn, i.b.selector, i.b.ns)
           IN  /\ handlers' = IF i.b.one THEN [handlers EXCEPT ![e] = h] ELSE handlers
               /\ listening' = IF i.b.one THEN Listening(e, h) ELSE listening,
           UNCHANGED <<triggered, sent, binds, acted, nested>>
    PROVE  EventsInv'
<1>. USE DEF EventsInv
<1>. DEFINE x == <<Inner.at, i.on, i.b.id, i.b.one>>
            n == Inner.n
            old == runs[n]
            new == runs'[n]
<1>1. /\ ~Idle /\ n \in 1..sent /\ sent = Len(runs) /\ sent \in Nat /\ binds \in Nat
      /\ EventHolds(Inner, handlers, binds, runs[n], acted[n])
      /\ ev.n = n /\ ev.origin = Inner.origin /\ ev.path = Inner.path /\ ev.at = Inner.at
      /\ ev.prevented = Inner.prevented /\ Inner.todo # <<>>
      /\ Inner.todo[1] = i /\ 1 \in 1..Len(Inner.todo) /\ Rest(Inner.todo, ev.todo)
  <2>1. ~Idle /\ Inner.todo # <<>> /\ Inner.todo[1] = i
    BY DEF Foremost
  <2>2. Inner \in EventRecords /\ n \in 1..sent /\ sent \in Nat /\ binds \in Nat
        /\ EventHolds(Inner, handlers, binds, runs[n], acted[n])
    BY <2>1, InnerIs
  <2>3. 1 \in 1..Len(Inner.todo)
    BY <2>1, <2>2, TailIs DEF EventRecords
  <2>. QED BY <2>1, <2>2, <2>3 DEF Proceeds, EventsTyped
<1>2. /\ Climbs(ev) /\ Orderly(ev.todo) /\ Known(ev, handlers, binds)
      /\ HasRun(ev, old) /\ ev.origin \notin {"method", "done"} /\ acted[n] = 0
  BY <1>1, RestHolds
<1>3. /\ i.b.id \in 1..binds
      /\ ~nested => RanOnlyFor(i.b, Inner, runs)
  BY ItemIs
<1>4. /\ handlers' \in [Node -> Lists] /\ listening' \subseteq Node /\ ListsHold'
      /\ Fresh(handlers', handlers, binds)
      /\ \A d \in Node : \A k \in 1..Len(handlers'[d].list) :
            /\ Old(handlers'[d].list[k], handlers, d)
            /\ i.b.one => handlers'[d].list[k].id # i.b.id
  BY Unbound
<1>5. x \in Runs
  BY DEF Foremost, Items, Bindings, Runs
<1>6. /\ runs' \in Seq(Seq(Runs)) /\ Len(runs') = sent /\ DOMAIN runs' = 1..sent
      /\ \A m \in 1..sent : (m # n => runs'[m] = runs[m]) /\ DOMAIN runs'[m] = 1..Len(runs'[m])
      /\ Len(old) \in Nat /\ Len(new) = Len(old) + 1
      /\ \A k \in 1..Len(new) :
            \/ k \in 1..Len(old) /\ new[k] = old[k]
            \/ k = Len(old) + 1 /\ new[k] = x
  <2>1. runs \in Seq(Seq(Runs)) /\ n \in 1..Len(runs)
    BY <1>1 DEF EventsTyped
  <2>2. runs' = [runs EXCEPT ![n] = Append(@, x)]
    OBVIOUS
  <2>. HIDE DEF x, n
  <2>3. runs' \in Seq(Seq(Runs)) /\ HasOneMore(runs, runs', n, x)
    BY <1>5, <2>1, <2>2, OneMore
  <2>. QED BY <1>1, <2>3 DEF HasOneMore
<1>. HIDE DEF x, n, old, new
<1>7. Carries
  <2>1. \A m \in 1..sent : m # Inner.n => runs'[m] = runs[m] /\ acted'[m] = acted[m]
    BY <1>6 DEF n
  <2>. QED BY <1>1, <1>4, <1>6, <2>1 DEF Carries
<1>8. Known(ev, handlers', binds)
  <2>1. \A q \in 1..Len(ev.todo) :
           /\ ev.todo[q].b.id \in 1..binds
           /\ \A e \in Node : \A k \in 1..Len(handlers[e].list) :
                 handlers[e].list[k].id = ev.todo[q].b.id
                    => e = ev.at /\ handlers[e].list[k] = ev.todo[q].b
    BY <1>2 DEF Known
  <2>2. \A e \in Node : \A k \in 1..Len(handlers'[e].list) :
           \E j \in 1..Len(handlers[e].list) : handlers'[e].list[k] = handlers[e].list[j]
    BY <1>4 DEF Old
  <2>3. ASSUME NEW q \in 1..Len(ev.todo), NEW e \in Node, NEW k \in 1..Len(handlers'[e].list),
               handlers'[e].list[k].id = ev.todo[q].b.id
        PROVE  e = ev.at /\ handlers'[e].list[k] = ev.todo[q].b
    <3>1. PICK j \in 1..Len(handlers[e].list) : handlers'[e].list[k] = handlers[e].list[j]
      BY <2>2
    <3>. QED BY <2>1, <2>3, <3>1
  <2>. QED BY <2>1, <2>3 DEF Known
<1>9. HasRun(ev, new)
  <2>1. ASSUME NEW k \in 1..Len(new)
        PROVE  /\ \A p \in 1..Len(ev.path) : Higher(new[k][1], ev.path[p])
               /\ ev.todo # <<>> => new[k][1] = ev.at \/ Higher(new[k][1], ev.at)
               /\ new[k][1] = ev.at =>
                    \A q \in 1..Len(ev.todo) :
                       /\ new[k][2] = ev.todo[q].on \/ ev.todo[q].on \in ToSet(Up(new[k][2]))
                       /\ new[k][3] = ev.todo[q].b.id => new[k][2] # ev.todo[q].on
    <3>1. CASE k \in 1..Len(old) /\ new[k] = old[k]
      BY <1>2, <3>1 DEF HasRun
    <3>2. CASE new[k] = x
      <4>1. x[1] = ev.at /\ x[2] = i.on /\ x[3] = i.b.id
        BY <1>1 DEF x
      <4>2. \A p \in 1..Len(ev.path) : Higher(ev.at, ev.path[p])
        BY <1>1 DEF EventHolds, Climbs
      <4>3. ASSUME NEW q \in 1..Len(ev.todo)
            PROVE  /\ i.on = ev.todo[q].on \/ ev.todo[q].on \in ToSet(Up(i.on))
                   /\ i.b.id = ev.todo[q].b.id => i.on # ev.todo[q].on
        <5>1. /\ q \in Nat /\ q + 1 \in 1..Len(Inner.todo)
              /\ ev.todo[q] = Inner.todo[q + 1] /\ 1 < q + 1
          BY <1>1 DEF Rest
        <5>2. Follows(Inner.todo[1], Inner.todo[q + 1])
              /\ Apart(Inner.todo[1], Inner.todo[q + 1])
          BY <1>1, <5>1 DEF EventHolds, Orderly
        <5>. QED BY <1>1, <5>1, <5>2 DEF Follows, Apart
      <4>. QED BY <3>2, <4>1, <4>2, <4>3
    <3>. QED BY <1>6, <3>1, <3>2
  <2>. QED BY <2>1 DEF HasRun
<1>10. EventHolds(ev, handlers', binds', runs'[ev.n], acted'[ev.n])
  BY <1>1, <1>2, <1>8, <1>9 DEF EventHolds, n, new
<1>11. underway' \in Seq(EventRecords) /\ StackInOrder'
  BY <1>1, <1>7, <1>10, TopReplaced DEF n
<1>12. ASSUME NEW k \in 1..Len(old)
       PROVE  /\ old[k] # x /\ Before(old[k], x)
              /\ old[k][1] = x[1] /\ old[k][3] = x[3] => old[k][2] # x[2]
  <2>1. /\ old[k][1] = Inner.at \/ Higher(old[k][1], Inner.at)
        /\ old[k][1] = Inner.at =>
              /\ old[k][2] = i.on \/ i.on \in ToSet(Up(old[k][2]))
              /\ old[k][3] = i.b.id => old[k][2] # i.on
    <3>1. HasRun(Inner, old) /\ Inner.todo # <<>>
      BY <1>1, <1>2 DEF EventHolds, old
    <3>. QED BY <1>1, <3>1 DEF HasRun
  <2>2. x[1] = Inner.at /\ x[2] = i.on /\ x[3] = i.b.id
    BY DEF x
  <2>. QED BY <2>1, <2>2 DEF Before, Higher, Up
<1>13. RunsHold'
  <2>1. ASSUME NEW k \in 1..Len(new) PROVE new[k][3] \in 1..binds
    <3>1. CASE k \in 1..Len(old) /\ new[k] = old[k]
      BY <1>1, <3>1 DEF RunsHold, old
    <3>2. CASE new[k] = x
      BY <1>3, <3>2 DEF x
    <3>. QED BY <1>6, <3>1, <3>2
  <2>2. ASSUME NEW j \in 1..Len(new), NEW k \in 1..Len(new), j < k
        PROVE  new[j] # new[k] /\ Before(new[j], new[k])
    <3>1. j \in 1..Len(old) /\ new[j] = old[j]
      BY <1>6, <2>2
    <3>2. CASE k \in 1..Len(old) /\ new[k] = old[k]
      BY <1>1, <2>2, <3>1, <3>2 DEF RunsHold, old
    <3>3. CASE new[k] = x
      BY <1>12, <3>1, <3>3
    <3>. QED BY <1>6, <3>2, <3>3
  <2>3. \A m \in 1..sent : acted[m] <= 1
    BY DEF RunsHold
  <2>4. ASSUME NEW m \in 1..sent, NEW k \in 1..Len(runs'[m]) PROVE runs'[m][k][3] \in 1..binds
    <3>1. CASE m = n
      BY <2>1, <3>1 DEF new
    <3>2. CASE m # n
      BY <1>6, <3>2 DEF RunsHold
    <3>. QED BY <3>1, <3>2
  <2>5. ASSUME NEW m \in 1..sent, NEW j \in 1..Len(runs'[m]), NEW k \in 1..Len(runs'[m]), j < k
        PROVE  runs'[m][j] # runs'[m][k] /\ Before(runs'[m][j], runs'[m][k])
    <3>1. CASE m = n
      <4>1. runs'[m] = new
        BY <3>1 DEF new
      <4>2. j \in 1..Len(new) /\ k \in 1..Len(new)
        BY <4>1
      <4>3. new[j] # new[k] /\ Before(new[j], new[k])
        BY <2>2, <2>5, <4>2
      <4>. QED BY <4>1, <4>3
    <3>2. CASE m # n
      BY <1>6, <2>5, <3>2 DEF RunsHold
    <3>. QED BY <3>1, <3>2
  <2>. QED BY <2>3, <2>4, <2>5 DEF RunsHold
<1>14. Further(n, x)
  <2>1. ASSUME NEW m \in 1..Len(runs'), NEW k \in 1..Len(runs'[m])
        PROVE  \/ m \in 1..Len(runs) /\ k \in 1..Len(runs[m]) /\ runs'[m][k] = runs[m][k]
               \/ m = n /\ k = Len(runs[n]) + 1 /\ runs'[m][k] = x
    <3>1. CASE m = n
      BY <1>1, <1>6, <3>1 DEF new, old
    <3>2. CASE m # n
      BY <1>1, <1>6, <3>2
    <3>. QED BY <3>1, <3>2
  <2>. QED BY <1>6, <2>1 DEF Further
<1>15. x[3] = i.b.id /\ x[4] = i.b.one
  BY DEF x
<1>16. ASSUME ~nested PROVE OnceMeansOnce'
  <2>1. OnceMeansOnce
    BY <1>16 DEF OnceHolds
  <2>2. Inner.n = n /\ Inner.at = x[1] /\ RanOnlyFor(i.b, Inner, runs)
    BY <1>3, <1>16 DEF n, x
  <2>3. \A k \in 1..Len(runs[n]) :
           runs[n][k][1] = x[1] /\ runs[n][k][3] = x[3] => runs[n][k][2] # x[2]
    BY <1>12 DEF old
  <2>. QED BY <1>14, <1>15, <1>16, <2>1, <2>2, <2>3, OnceThen
<1>17. ASSUME ~nested, NEW d \in Node, NEW k \in 1..Len(handlers'[d].list)
       PROVE  ~Spent(handlers'[d].list[k], runs')
  <2>1. PICK j \in 1..Len(handlers[d].list) : handlers'[d].list[k] = handlers[d].list[j]
    BY <1>4 DEF Old
  <2>2. ~Spent(handlers'[d].list[k], runs)
    BY <1>17, <2>1 DEF OnceHolds
  <2>3. ASSUME handlers'[d].list[k].id = i.b.id
        PROVE  handlers'[d].list[k] = i.b /\ ~i.b.one
    <3>1. ~i.b.one
      BY <1>4, <2>3
    <3>2. handlers[d].list[j].id = i.b.id
      BY <2>1, <2>3
    <3>3. handlers[d].list[j] = i.b
      BY <3>2, ItemIs
    <3>. QED BY <2>1, <3>1, <3>3
  <2>. HIDE DEF x
  <2>4. ASSUME Spent(handlers'[d].list[k], runs')
        PROVE  handlers'[d].list[k].id = x[3] /\ (x[4] \/ handlers'[d].list[k].one)
    BY <1>14, <2>2, <2>4, SpentThen
  <2>. QED BY <1>15, <2>3, <2>4
<1>18. /\ Len(underway') = Len(underway) /\ Len(underway) \in 1..Len(underway)
       /\ \A k \in 1..Len(underway) :
             underway'[k] = IF k = Len(underway) THEN ev ELSE underway[k]
       /\ \A k \in 1..Len(underway) : k = Len(underway) \/ k < Len(underway)
  BY <1>1, PutIs, InnerIs
<1>19. ASSUME ~nested, NEW q \in 1..Len(ev.todo) PROVE RanOnlyFor(ev.todo[q].b, ev, runs')
  <2>1. q + 1 \in 1..Len(Inner.todo) /\ ev.todo[q] = Inner.todo[q + 1]
    BY <1>1 DEF Rest
  <2>2. RanOnlyFor(Inner.todo[q + 1].b, Inner, runs)
    BY <1>18, <1>19, <2>1 DEF OnceHolds, Inner
  <2>3. ev.n = n /\ ev.n = Inner.n /\ ev.at = Inner.at /\ ev.at = x[1]
    BY <1>1 DEF x, n
  <2>4. RanOnlyFor(ev.todo[q].b, ev, runs)
    BY <2>1, <2>2, <2>3 DEF RanOnlyFor
  <2>. QED BY <1>14, <2>3, <2>4, OnlyForThen
<1>20. OnceHolds'
  <2>1. ASSUME ~nested, NEW k \in 1..Len(underway), k < Len(underway)
        PROVE  underway[k].origin = "done" /\ 1..Len(underway[k].todo) = {}
    <3>1. underway[k].origin = "done"
      BY <2>1 DEF OnceHolds
    <3>2. underway[k].todo = <<>>
      BY <3>1 DEF StackInOrder, EventHolds
    <3>. QED BY <3>1, <3>2
  <2>2. ~nested => \A k \in 1..Len(underway') : \A q \in 1..Len(underway'[k].todo) :
                      RanOnlyFor(underway'[k].todo[q].b, underway'[k], runs')
    BY <1>18, <1>19, <2>1
  <2>3. ~nested => \A k \in 1..Len(underway') :
                      k < Len(underway') => underway'[k].origin = "done"
    BY <1>18, <2>1
  <2>. QED BY <1>16, <1>17, <2>2, <2>3 DEF OnceHolds
<1>21. EventsTyped'
  BY <1>4, <1>6, <1>11 DEF EventsTyped
<1>. QED BY <1>4, <1>11, <1>13, <1>20, <1>21

LEMMA RunHandlerHolds ==
    ASSUME EventsInv, RunHandler
    PROVE  EventsInv'
<1>. DEFINE i == Inner.todo[1]
<1>1. ~Idle /\ ~Inner.running /\ Inner.todo # <<>>
      /\ UNCHANGED <<triggered, sent, binds, acted, nested>>
  BY DEF RunHandler
<1>2. Inner \in EventRecords
  BY <1>1, InnerIs DEF EventsInv
<1>3. /\ Inner.todo \in Seq(Items) /\ Inner.at \in Node
      /\ Tail(Inner.todo) \in Seq(Items) /\ Rest(Inner.todo, Tail(Inner.todo))
      /\ Head(Inner.todo) = i /\ i \in Items /\ i.on \in Node /\ i.b.one \in BOOLEAN
      /\ <<>> \in Seq(Items) /\ Rest(Inner.todo, <<>>)
  <2>1. Inner.todo \in Seq(Items) /\ Inner.at \in Node
    BY <1>2 DEF EventRecords
  <2>2. i \in Items => i.on \in Node /\ i.b.one \in BOOLEAN
    BY DEF Items, Bindings
  <2>. QED BY <1>1, <2>1, <2>2, TailIs
<1>4. Foremost(i)
  BY <1>1, <1>3 DEF Foremost
<1>. DEFINE dropped == [Inner EXCEPT !.todo = <<>>]
            passed == [Inner EXCEPT !.todo = Tail(@), !.on = i.on]
            ran == [Inner EXCEPT !.todo = Tail(@), !.on = i.on, !.running = TRUE]
<1>5. /\ dropped \in EventRecords /\ Proceeds(dropped, Inner) /\ ~dropped.running
      /\ passed \in EventRecords /\ Proceeds(passed, Inner) /\ ~passed.running
      /\ ran \in EventRecords /\ Proceeds(ran, Inner) /\ ran.running /\ ran.on = i.on
  BY <1>1, <1>2, <1>3 DEF EventRecords, Proceeds
<1>6. \/ /\ underway' = Put(dropped) \/ underway' = Put(passed)
         /\ UNCHANGED <<handlers, listening, runs>>
      \/ /\ underway' = Put(ran)
         /\ runs' = [runs EXCEPT ![Inner.n] = Append(@, <<Inner.at, i.on, i.b.id, i.b.one>>)]
         /\ LET e == Inner.at
                h == Removed(handlers[e], i.b.fn, i.b.selector, i.b.ns)
            IN  /\ handlers' = IF i.b.one THEN [handlers EXCEPT ![e] = h] ELSE handlers
                /\ listening' = IF i.b.one THEN Listening(e, h) ELSE listening
  BY <1>3 DEF RunHandler
<1>. HIDE DEF dropped, passed, ran
<1>7. CASE /\ underway' = Put(dropped) \/ underway' = Put(passed)
           /\ UNCHANGED <<handlers, listening, runs>>
  BY <1>1, <1>5, <1>7, PassHolds
<1>8. CASE /\ underway' = Put(ran)
           /\ runs' = [runs EXCEPT ![Inner.n] = Append(@, <<Inner.at, i.on, i.b.id, i.b.one>>)]
           /\ LET e == Inner.at
                  h == Removed(handlers[e], i.b.fn, i.b.selector, i.b.ns)
              IN  /\ handlers' = IF i.b.one THEN [handlers EXCEPT ![e] = h] ELSE handlers
                  /\ listening' = IF i.b.one THEN Listening(e, h) ELSE listening
  <2>. HIDE DEF i
  <2>. QED BY <1>1, <1>3, <1>4, <1>5, <1>8, RunHolds
<1>. QED BY <1>6, <1>7, <1>8

LEMMA NoEventsYet == EventsInit => EventsInv
<1>. SUFFICES ASSUME EventsInit PROVE EventsInv
  OBVIOUS
<1>. USE DEF EventsInit
<1>1. \A e \in Node : handlers[e].list = <<>> /\ handlers[e].delegateCount = 0
  OBVIOUS
<1>2. EventsTyped
  <2>1. [list |-> <<>>, delegateCount |-> 0] \in Lists
    BY DEF Lists
  <2>2. handlers \in [Node -> Lists]
    BY <2>1
  <2>3. 0 \in 0..MaxEventsSent /\ 0 \in 0..MaxBinds
    BY EventsAssumption
  <2>4. /\ underway \in Seq(EventRecords)
        /\ runs \in Seq(Seq(Runs)) /\ Len(runs) = 0 /\ acted \in Seq(Nat) /\ Len(acted) = 0
    OBVIOUS
  <2>5. listening \subseteq Node /\ triggered \in BOOLEAN /\ nested \in BOOLEAN
    OBVIOUS
  <2>. QED BY <2>2, <2>3, <2>4, <2>5 DEF EventsTyped
<1>3. ListsHold
  <2>1. \A e \in Node : 1..Len(handlers[e].list) = {} /\ Len(handlers[e].list) = 0
    BY <1>1
  <2>2. \A e \in Node : DelegatesFirst(handlers[e])
    BY <1>1, <2>1 DEF DelegatesFirst
  <2>. QED BY <1>1, <2>1, <2>2 DEF ListsHold, Numbered
<1>4. StackInOrder /\ RunsHold
  BY DEF StackInOrder, RunsHold
<1>5. OnceHolds
  <2>1. \A e \in Node : 1..Len(handlers[e].list) = {}
    BY <1>1
  <2>. QED BY <2>1 DEF OnceHolds, OnceMeansOnce
<1>. QED BY <1>2, <1>3, <1>4, <1>5 DEF EventsInv

LEMMA EventsStay == EventsInv /\ [EventsNext]_eventVars => EventsInv'
<1>. SUFFICES ASSUME EventsInv, [EventsNext]_eventVars PROVE EventsInv'
  OBVIOUS
<1>1. ASSUME NEW e \in Node, NEW b \in Bound, NEW for \in SelectorsOn, Bind(e, b, for)
      PROVE  EventsInv'
  BY <1>1, BindHolds
<1>2. ASSUME NEW e \in Node, NEW fn, NEW for, NEW ns, Unbind(e, fn, for, ns)
      PROVE  EventsInv'
  BY <1>2, UnbindHolds
<1>3. ASSUME NEW t \in Node, Occur(t)
      PROVE  EventsInv'
  <2>1. Idle /\ SendEvent(t, "browser", NoNamespace) /\ InHandler
    BY <1>3 DEF Occur, InHandler
  <2>. QED BY <2>1, SendHolds
<1>4. ASSUME NEW t \in Node, NEW ns \in {b.ns : b \in Bound}, Trigger(t, ns)
      PROVE  EventsInv'
  <2>1. InHandler /\ SendEvent(t, "trigger", ns) /\ ns \in Namespaces \cup {NoNamespace}
    BY <1>4 DEF Trigger, Namespaces
  <2>. QED BY <2>1, SendHolds
<1>5. ASSUME NEW p \in BOOLEAN, NEW s \in BOOLEAN, NEW i \in BOOLEAN, HandlerReturns(p, s, i)
      PROVE  EventsInv'
  BY <1>5, HandlerReturned
<1>6. CASE GoUp
  BY <1>6, GoUpHolds
<1>7. CASE RunHandler
  BY <1>7, RunHandlerHolds
<1>8. CASE Act
  BY <1>8, ActHolds
<1>9. CASE Forget
  BY <1>9, ForgetHolds
<1>10. CASE UNCHANGED eventVars
  <2>. USE <1>10 DEF eventVars
  <2>1. EventsTyped' /\ ListsHold'
    BY DEF EventsInv, EventsTyped, ListsHold
  <2>2. StackInOrder' /\ RunsHold'
    BY DEF EventsInv, StackInOrder, RunsHold, Inner
  <2>3. OnceHolds'
    BY DEF EventsInv, OnceHolds, OnceMeansOnce
  <2>. QED BY <2>1, <2>2, <2>3 DEF EventsInv
<1>. QED BY <1>1, <1>2, <1>3, <1>4, <1>5, <1>6, <1>7, <1>8, <1>9, <1>10 DEF EventsNext

LEMMA EventsAreWell == EventsInv => HandlersRunOnce
<1>. SUFFICES ASSUME EventsInv PROVE HandlersRunOnce
  OBVIOUS
<1>. USE DEF EventsInv
<1>1. /\ \A e \in Node : DOMAIN handlers[e].list = 1..Len(handlers[e].list)
      /\ DOMAIN runs = 1..sent /\ DOMAIN acted = 1..sent
      /\ \A n \in 1..sent : DOMAIN runs[n] = 1..Len(runs[n])
  BY DEF EventsTyped, Lists
<1>2. EventsTypeOK
  BY DEF EventsTypeOK, EventsTyped, ListsHold, DelegatesFirst
<1>3. BindingsAgree
  BY <1>1 DEF BindingsAgree, ListsHold, DelegatesFirst
<1>4. OnceAndInOrder
  BY <1>1 DEF OnceAndInOrder, RunsHold
<1>5. OnceMeansOnce
  BY DEF OnceHolds, OnceMeansOnce
<1>. QED BY <1>2, <1>3, <1>4, <1>5 DEF HandlersRunOnce

(***************************************************************************)
(* Bound, unbound and triggered in any order, while events are on their    *)
(* way and from their own handlers, over any tree, by selectors that match *)
(* any elements: an element has the browser's listener exactly while it    *)
(* has handlers, delegates first, as they are counted; an event runs a     *)
(* binding once at most for each element, on its way up and the delegates  *)
(* before the direct ones, and its default action is taken at most once;   *)
(* and what is bound with one() runs for a single event, once for each     *)
(* element that its selector matches there, unless handlers trigger events *)
(* of their type (jQuery.event in require.js).                             *)
(***************************************************************************)
THEOREM EventsRunTheirHandlers == EventsSpec => []HandlersRunOnce
<1>1. EventsInit => EventsInv
  BY NoEventsYet
<1>2. EventsInv /\ [EventsNext]_eventVars => EventsInv'
  BY EventsStay
<1>3. EventsInv => HandlersRunOnce
  BY EventsAreWell
<1>. QED BY <1>1, <1>2, <1>3, PTL DEF EventsSpec
===============================================================================
