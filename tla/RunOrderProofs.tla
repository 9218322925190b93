--------------------------- MODULE RunOrderProofs ---------------------------
(***************************************************************************)
(* Proofs about RunOrder, for any tasks, wishes, copies and events:        *)
(* resolve_run_order returns what its docstring says, the runner starts    *)
(* the task that comes first, and a task that is done is not done again.   *)
(*                                                                         *)
(* The order is what recursive functions over the length of a list         *)
(* compute.  Induction over that length goes by the least counterexample;  *)
(* a set stands for the predicate, and a function for the step.            *)
(***************************************************************************)
EXTENDS RunOrder, FiniteSetTheorems, WellFoundedInduction, TLAPS

-----------------------------------------------------------------------------
(* Induction and recursion over 0..n *)

LEMMA LeastNatural ==
  ASSUME NEW S \in SUBSET Nat, S # {}
  PROVE  \E m \in S : \A k \in S : m <= k
<1>1. PICK m \in S : \A k \in S : ~(<<k, m>> \in OpToRel(<, Nat))
  BY NatLessThanWellFounded, WFMin, Zenon
<1>2. \A k \in S : ~(k < m)
  BY <1>1, Zenon DEF OpToRel
<1> QED
  BY <1>2

LEMMA UpwardInduction ==
  ASSUME NEW n \in Nat, NEW G \in SUBSET (0..n), 0 \in G,
         \A k \in 1..n : k - 1 \in G => k \in G
  PROVE  \A k \in 0..n : k \in G
<1> DEFINE Bad == (0..n) \ G
<1> SUFFICES ASSUME Bad # {} PROVE FALSE
  OBVIOUS
<1>1. Bad \in SUBSET Nat
  OBVIOUS
<1>2. PICK m \in Bad : \A k \in Bad : m <= k
  BY <1>1, LeastNatural, Zenon
<1>3. m \in 0..n /\ m \notin G /\ m # 0
  OBVIOUS
<1>4. m - 1 \in 0..n /\ m \in 1..n
  BY <1>3
<1>5. m - 1 \notin Bad
  BY <1>2, <1>3
<1> QED
  BY <1>3, <1>4, <1>5

Iterates(f, n, a, step) == f[0] = a /\ \A k \in 1..n : f[k] = step[<<f[k - 1], k>>]

\* Iterating a step from a first value has a result.
LEMMA Iteration ==
  ASSUME NEW n \in Nat, NEW A, NEW a \in A, NEW step, step \in [A \X (1..n) -> A]
  PROVE  \E f \in [0..n -> A] : Iterates(f, n, a, step)
<1> DEFINE Runs(f, m) == f[0] = a /\ \A k \in 1..m : f[k] = step[<<f[k - 1], k>>]
           G == {m \in 0..n : \E f \in [0..m -> A] : Runs(f, m)}
<1>1. 0 \in G
  <2> DEFINE g == [k \in 0..0 |-> a]
  <2>1. g \in [0..0 -> A] /\ Runs(g, 0) /\ 0 \in 0..n
    OBVIOUS
  <2> HIDE DEF g
  <2> QED
    BY <2>1
<1>2. ASSUME NEW m \in 1..n, m - 1 \in G
      PROVE  m \in G
  <2>1. PICK f \in [0..(m - 1) -> A] : Runs(f, m - 1)
    BY <1>2
  <2> DEFINE g == [k \in 0..m |-> IF k = m THEN step[<<f[m - 1], m>>] ELSE f[k]]
  <2>2. m - 1 \in 0..(m - 1) /\ m \in Nat
    OBVIOUS
  <2>3. f[m - 1] \in A
    BY <2>1, <2>2
  <2>4. step[<<f[m - 1], m>>] \in A
    BY <2>3
  <2>5. g \in [0..m -> A]
    BY <2>1, <2>4
  <2>6. Runs(g, m)
    <3>1. g[0] = a
      BY <2>1
    <3>2. ASSUME NEW k \in 1..m PROVE g[k] = step[<<g[k - 1], k>>]
      <4>1. CASE k = m
        <5>1. m \in 0..m /\ m - 1 \in 0..m /\ m - 1 # m
          OBVIOUS
        <5> QED
          BY <4>1, <5>1
      <4>2. CASE k # m
        <5>1. k \in 1..(m - 1) /\ k - 1 \in 0..m /\ k - 1 # m
          BY <4>2
        <5> QED
          BY <2>1, <4>2, <5>1
      <4> QED
        BY <4>1, <4>2
    <3> QED
      BY <3>1, <3>2
  <2> HIDE DEF g
  <2> QED
    BY <2>5, <2>6
<1>3. n \in G
  <2>1. G \in SUBSET (0..n) /\ n \in 0..n
    OBVIOUS
  <2> HIDE DEF G
  <2> QED
    BY <1>1, <1>2, <2>1, UpwardInduction
<1> QED
  BY <1>3 DEF Iterates

-----------------------------------------------------------------------------
(* Sorting *)

\* No two items are of the same file.
Distinct(S) == \A i, j \in S : i.id = j.id /\ i.copied = j.copied => i = j

LEMMA BeforeIsOrder ==
  ASSUME NEW S \in SUBSET Item, Distinct(S)
  PROVE  /\ \A i \in S : ~Before(i, i)
         /\ \A i, j \in S : i = j \/ Before(i, j) \/ Before(j, i)
         /\ \A i, j, k \in S : Before(i, j) /\ Before(j, k) => Before(i, k)
<1>1. \A i \in S : /\ i.id \in Int /\ i.copied \in BOOLEAN /\ i.prio \in Int
                   /\ Created[i.id] \in Int
  BY RunOrderAssumption DEF Item, Task
<1>2. \A i \in S : ~Before(i, i)
  BY <1>1 DEF Before, ByName
<1>3. \A i, j \in S : i = j \/ Before(i, j) \/ Before(j, i)
  BY <1>1 DEF Before, ByName, Distinct
<1>4. \A i, j, k \in S : Before(i, j) /\ Before(j, k) => Before(i, k)
  BY <1>1 DEF Before, ByName
<1> QED
  BY <1>2, <1>3, <1>4

Ascending(q) == \A m, n \in DOMAIN q : m < n => Before(q[m], q[n])

\* What sorted() returns: the items, each once, in the order.
LEMMA SortedSorts ==
  ASSUME NEW S \in SUBSET Item, IsFiniteSet(S), Distinct(S)
  PROVE  /\ Sorted(S) \in Seq(S)
         /\ ToSet(Sorted(S)) = S
         /\ Ascending(Sorted(S))
<1> DEFINE c == Cardinality(S)
           Below(i) == {j \in S : Before(j, i)}
           R == [i \in S |-> Cardinality(Below(i))]
<1>1. c \in Nat
  BY FS_CardinalityType
<1>2. ASSUME NEW i \in S PROVE IsFiniteSet(Below(i)) /\ R[i] \in 0..(c - 1)
  <2>1. IsFiniteSet(S \ {i}) /\ Cardinality(S \ {i}) = c - 1
    BY FS_RemoveElement
  <2>2. Below(i) \in SUBSET (S \ {i})
    BY BeforeIsOrder
  <2> HIDE DEF Below
  <2>3. IsFiniteSet(Below(i)) /\ Cardinality(Below(i)) <= c - 1
    BY <2>1, <2>2, FS_Subset
  <2>4. Cardinality(Below(i)) \in Nat
    BY <2>3, FS_CardinalityType
  <2> QED
    BY <1>1, <2>3, <2>4
<1>3. ASSUME NEW i \in S, NEW j \in S, Before(i, j) PROVE R[i] < R[j]
  <2>1. Below(i) \in SUBSET Below(j) /\ i \in Below(j) /\ i \notin Below(i)
    BY <1>3, BeforeIsOrder
  <2>2. IsFiniteSet(Below(j))
    BY <1>2
  <2>3. R[i] = Cardinality(Below(i)) /\ R[j] = Cardinality(Below(j))
        /\ R[i] \in 0..(c - 1) /\ R[j] \in 0..(c - 1)
    BY <1>2
  <2> HIDE DEF Below, R
  <2>4. /\ Cardinality(Below(i)) <= Cardinality(Below(j))
        /\ Cardinality(Below(j)) = Cardinality(Below(i)) => Below(i) = Below(j)
    BY <2>1, <2>2, FS_Subset
  <2> QED
    BY <1>1, <2>1, <2>3, <2>4
<1> DEFINE T == 0..(c - 1)
<1>4. R \in Injection(S, T)
  <2>1. R \in [S -> T]
    BY <1>2
  <2>2. ASSUME NEW i \in S, NEW j \in S, R[i] = R[j] PROVE i = j
    <3>1. R[i] \in 0..(c - 1) /\ R[j] \in 0..(c - 1)
      BY <1>2
    <3> HIDE DEF R, Below
    <3> QED
      BY <1>3, <2>2, <3>1, BeforeIsOrder
  <2> HIDE DEF R, Below
  <2> QED
    BY <2>1, <2>2 DEF Injection, IsInjective
<1>5. IsFiniteSet(T) /\ Cardinality(T) = c
  BY <1>1, FS_Interval
<1>6. R \in Surjection(S, T)
  <2> HIDE DEF R, T, Below
  <2> QED
    BY <1>4, <1>5, FS_Injection
<1>7. \A t \in T : \E i \in S : R[i] = t
  <2> HIDE DEF R, T, Below
  <2> QED
    BY <1>6 DEF Surjection
<1> DEFINE q == Sorted(S)
<1>8. q = [n \in 1..c |-> CHOOSE i \in S : Cardinality(Below(i)) = n - 1]
  BY Zenon DEF Sorted
<1>9. ASSUME NEW n \in 1..c PROVE q[n] \in S /\ R[q[n]] = n - 1
  <2>1. n - 1 \in T
    BY <1>1
  <2>2. q[n] = CHOOSE i \in S : Cardinality(Below(i)) = n - 1
    BY <1>8
  <2>3. \A i \in S : R[i] = Cardinality(Below(i))
    OBVIOUS
  <2> HIDE DEF q, R, T, Below
  <2>4. \E i \in S : Cardinality(Below(i)) = n - 1
    BY <1>7, <2>1, <2>3
  <2> QED
    BY <2>2, <2>3, <2>4, Zenon
<1>10. q \in [1..c -> S] /\ DOMAIN q = 1..c
  <2> HIDE DEF R, T, Below
  <2>1. q = [n \in 1..c |-> q[n]]
    BY <1>8
  <2> HIDE DEF q
  <2> QED
    BY <1>9, <2>1
<1>11. q \in Seq(S)
  <2> HIDE DEF R, T, Below, q
  <2> QED
    BY <1>1, <1>10
<1>12. ToSet(q) = S
  <2>1. ASSUME NEW i \in S PROVE i \in ToSet(q)
    <3> DEFINE n == R[i] + 1
    <3>1. n \in 1..c /\ n - 1 = R[i] /\ R[i] \in Int
      BY <1>1, <1>2
    <3>2. q[n] \in S /\ R[q[n]] = R[i]
      BY <1>9, <3>1
    <3> HIDE DEF n, R, q, Below, T
    <3>3. q[n] = i
      BY <1>4, <3>2 DEF Injection, IsInjective
    <3> QED
      BY <1>10, <3>1, <3>3 DEF ToSet
  <2>2. ToSet(q) \subseteq S
    BY <1>9, <1>10 DEF ToSet
  <2> QED
    BY <2>1, <2>2
<1>13. Ascending(q)
  <2> SUFFICES ASSUME NEW m \in 1..c, NEW n \in 1..c, m < n PROVE Before(q[m], q[n])
    BY <1>10 DEF Ascending
  <2>1. q[m] \in S /\ q[n] \in S /\ R[q[m]] = m - 1 /\ R[q[n]] = n - 1
    BY <1>9
  <2>2. m \in Int /\ n \in Int /\ ~(n - 1 < m - 1) /\ m - 1 # n - 1
    BY <1>1
  <2> HIDE DEF R, q, Below, T
  <2> QED
    BY <1>3, <2>1, <2>2, BeforeIsOrder
<1> QED
  BY <1>11, <1>12, <1>13

-----------------------------------------------------------------------------
(* One pass over what remains *)

Ids(S) == {i.id : i \in S}
NoRepeat(q) == \A m, n \in DOMAIN q : q[m] = q[n] => m = n
States == [ordered : Seq(Item), placed : SUBSET Task, remaining : Seq(Item)]

\* A set of tasks that has every task whose dependencies are done or in it.
ClosedIn(S, open, done) == \A i \in open : i.deps \subseteq done \cup Ids(S) => i \in S

\* Every open task is ordered, remains or is still to be visited, and only
\* one of these; those that are ordered come after their dependencies, and
\* every closed set has them.
Parted(s, rest, open) ==
  /\ ToSet(s.ordered) \cup ToSet(s.remaining) \cup rest = open
  /\ NoRepeat(s.ordered) /\ NoRepeat(s.remaining)
  /\ ToSet(s.ordered) \cap (ToSet(s.remaining) \cup rest) = {}
  /\ ToSet(s.remaining) \cap rest = {}

Resolved(s, open, done) ==
  /\ s.placed = done \cup Ids(ToSet(s.ordered))
  /\ \A n \in DOMAIN s.ordered :
       s.ordered[n].deps \subseteq done \cup Ids({s.ordered[m] : m \in 1..(n - 1)})
  /\ \A S \in SUBSET open : ClosedIn(S, open, done) => ToSet(s.ordered) \subseteq S

Fits(s, rest, open, done) ==
  s \in States /\ Parted(s, rest, open) /\ Resolved(s, open, done)

Stuck(s) == \A n \in DOMAIN s.remaining : ~Ready(s.remaining[n], s.placed)

LEMMA Appending ==
  ASSUME NEW q \in Seq(Item), NEW e \in Item
  PROVE  /\ Append(q, e) \in Seq(Item)
         /\ Len(q) \in Nat /\ DOMAIN q = 1..Len(q)
         /\ Len(Append(q, e)) = Len(q) + 1 /\ DOMAIN Append(q, e) = 1..(Len(q) + 1)
         /\ \A n \in 1..Len(q) : Append(q, e)[n] = q[n]
         /\ Append(q, e)[Len(q) + 1] = e
         /\ ToSet(Append(q, e)) = ToSet(q) \cup {e}
         /\ NoRepeat(q) /\ e \notin ToSet(q) => NoRepeat(Append(q, e))
<1>1. /\ Append(q, e) \in Seq(Item)
      /\ Len(q) \in Nat /\ DOMAIN q = 1..Len(q)
      /\ Len(Append(q, e)) = Len(q) + 1 /\ DOMAIN Append(q, e) = 1..(Len(q) + 1)
      /\ \A n \in 1..Len(q) : Append(q, e)[n] = q[n]
      /\ Append(q, e)[Len(q) + 1] = e
  OBVIOUS
<1> DEFINE p == Append(q, e)
<1> HIDE DEF p
<1>2. /\ DOMAIN p = 1..(Len(q) + 1) /\ p[Len(q) + 1] = e
      /\ \A n \in 1..Len(q) : p[n] = q[n]
  BY <1>1 DEF p
<1>3. ToSet(p) = ToSet(q) \cup {e}
  <2>1. 1..(Len(q) + 1) = (1..Len(q)) \cup {Len(q) + 1}
    BY <1>1
  <2> QED
    BY <1>1, <1>2, <2>1 DEF ToSet
<1>4. ASSUME NoRepeat(q), e \notin ToSet(q) PROVE NoRepeat(p)
  <2> SUFFICES ASSUME NEW m \in 1..(Len(q) + 1), NEW n \in 1..(Len(q) + 1), p[m] = p[n]
               PROVE  m = n
    BY <1>2 DEF NoRepeat
  <2>1. \A k \in 1..(Len(q) + 1) : k = Len(q) + 1 \/ k \in 1..Len(q)
    BY <1>1
  <2>2. \A k \in 1..Len(q) : q[k] # e
    BY <1>1, <1>4 DEF ToSet
  <2> QED
    BY <1>1, <1>2, <1>4, <2>1, <2>2 DEF NoRepeat
<1> QED
  BY <1>1, <1>3, <1>4 DEF p

LEMMA TryIs ==
  ASSUME NEW s \in States, NEW item \in Item
  PROVE  /\ Ready(item, s.placed) =>
              Try(s, item) = [ordered |-> Append(s.ordered, item),
                              placed |-> s.placed \cup {item.id},
                              remaining |-> s.remaining]
         /\ ~Ready(item, s.placed) =>
              Try(s, item) = [ordered |-> s.ordered, placed |-> s.placed,
                              remaining |-> Append(s.remaining, item)]
         /\ Try(s, item) \in States
<1>1. /\ s = [ordered |-> s.ordered, placed |-> s.placed, remaining |-> s.remaining]
      /\ s.ordered \in Seq(Item) /\ s.placed \in SUBSET Task /\ s.remaining \in Seq(Item)
  BY DEF States
<1>2. item.id \in Task
  BY DEF Item
<1>3. CASE Ready(item, s.placed)
  <2>1. Try(s, item) = [s EXCEPT !.ordered = Append(@, item), !.placed = @ \cup {item.id}]
    BY <1>3, Zenon DEF Try
  <2>2. Try(s, item) = [ordered |-> Append(s.ordered, item),
                        placed |-> s.placed \cup {item.id}, remaining |-> s.remaining]
    BY <1>1, <2>1
  <2>3. Append(s.ordered, item) \in Seq(Item) /\ s.placed \cup {item.id} \in SUBSET Task
    BY <1>1, <1>2, Appending
  <2> QED
    BY <1>1, <1>3, <2>2, <2>3 DEF States
<1>4. CASE ~Ready(item, s.placed)
  <2>1. Try(s, item) = [s EXCEPT !.remaining = Append(@, item)]
    BY <1>4, Zenon DEF Try
  <2>2. Try(s, item) = [ordered |-> s.ordered, placed |-> s.placed,
                        remaining |-> Append(s.remaining, item)]
    BY <1>1, <2>1
  <2>3. Append(s.remaining, item) \in Seq(Item)
    BY <1>1, Appending
  <2> QED
    BY <1>1, <1>4, <2>2, <2>3 DEF States
<1> QED
  BY <1>3, <1>4

LEMMA TryFits ==
  ASSUME NEW s, NEW item \in Item, NEW rest, NEW open \in SUBSET Item, NEW done,
         item \notin rest, Fits(s, rest \cup {item}, open, done)
  PROVE  Fits(Try(s, item), rest, open, done)
<1> DEFINE t == Try(s, item)
<1>1. /\ s \in States /\ s.ordered \in Seq(Item) /\ s.remaining \in Seq(Item)
      /\ item \notin ToSet(s.ordered) /\ item \notin ToSet(s.remaining) /\ item \in open
      /\ t \in States
  BY TryIs DEF Fits, Parted, States
<1>2. CASE Ready(item, s.placed)
  <2> DEFINE p == Append(s.ordered, item)
  <2>1. t.ordered = p /\ t.placed = s.placed \cup {item.id} /\ t.remaining = s.remaining
    BY <1>1, <1>2, TryIs
  <2>2. /\ Len(s.ordered) \in Nat /\ DOMAIN s.ordered = 1..Len(s.ordered)
        /\ DOMAIN p = 1..(Len(s.ordered) + 1)
        /\ \A n \in 1..Len(s.ordered) : p[n] = s.ordered[n]
        /\ p[Len(s.ordered) + 1] = item
        /\ ToSet(p) = ToSet(s.ordered) \cup {item}
        /\ NoRepeat(s.ordered) => NoRepeat(p)
    BY <1>1, Appending
  <2> HIDE DEF p, t
  <2>3. Parted(t, rest, open)
    BY <1>1, <2>1, <2>2 DEF Fits, Parted
  <2>4. t.placed = done \cup Ids(ToSet(t.ordered))
    BY <2>1, <2>2 DEF Fits, Resolved, Ids
  <2>5. ASSUME NEW n \in 1..(Len(s.ordered) + 1)
        PROVE  p[n].deps \subseteq done \cup Ids({p[m] : m \in 1..(n - 1)})
    <3>1. {p[m] : m \in 1..(n - 1)} = {s.ordered[m] : m \in 1..(n - 1)}
      <4>1. \A m \in 1..(n - 1) : m \in 1..Len(s.ordered)
        BY <2>2
      <4> QED
        BY <2>2, <4>1
    <3>2. CASE n \in 1..Len(s.ordered)
      BY <2>2, <3>1, <3>2 DEF Fits, Resolved
    <3>3. CASE n = Len(s.ordered) + 1
      <4>1. {s.ordered[m] : m \in 1..(n - 1)} = ToSet(s.ordered)
        BY <2>2, <3>3 DEF ToSet
      <4> QED
        BY <1>2, <2>2, <3>1, <3>3, <4>1 DEF Ready, Fits, Resolved
    <3> QED
      BY <2>2, <3>2, <3>3
  <2>6. ASSUME NEW S \in SUBSET open, ClosedIn(S, open, done)
        PROVE  ToSet(t.ordered) \subseteq S
    <3>1. ToSet(s.ordered) \subseteq S
      BY <2>6 DEF Fits, Resolved
    <3>2. item.deps \subseteq done \cup Ids(S)
      BY <1>2, <3>1 DEF Ready, Fits, Resolved, Ids
    <3>3. item \in S
      BY <1>1, <2>6, <3>2 DEF ClosedIn
    <3> QED
      BY <2>1, <2>2, <3>1, <3>3
  <2>7. Resolved(t, open, done)
    <3>1. \A n \in DOMAIN t.ordered :
            t.ordered[n].deps \subseteq done \cup Ids({t.ordered[m] : m \in 1..(n - 1)})
      BY <2>1, <2>2, <2>5
    <3>2. \A S \in SUBSET open : ClosedIn(S, open, done) => ToSet(t.ordered) \subseteq S
      BY <2>6
    <3> QED
      BY <2>4, <3>1, <3>2, Zenon DEF Resolved
  <2> QED
    BY <1>1, <2>3, <2>7 DEF Fits, t
<1>3. CASE ~Ready(item, s.placed)
  <2> DEFINE p == Append(s.remaining, item)
  <2>1. t.ordered = s.ordered /\ t.placed = s.placed /\ t.remaining = p
    BY <1>1, <1>3, TryIs
  <2>2. /\ ToSet(p) = ToSet(s.remaining) \cup {item}
        /\ NoRepeat(s.remaining) => NoRepeat(p)
    BY <1>1, Appending
  <2> HIDE DEF p, t
  <2>3. Parted(t, rest, open)
    BY <1>1, <2>1, <2>2 DEF Fits, Parted
  <2>4. Resolved(t, open, done)
    BY <2>1 DEF Fits, Resolved
  <2> QED
    BY <1>1, <2>3, <2>4 DEF Fits, t
<1> QED
  BY <1>2, <1>3

\* A pass is a sequence of tries.
LEMMA PassRuns ==
  ASSUME NEW state \in States
  PROVE  \E u \in [0..Len(state.remaining) -> States] :
           /\ u[0] = [state EXCEPT !.remaining = <<>>]
           /\ \A k \in 1..Len(state.remaining) : u[k] = Try(u[k - 1], state.remaining[k])
           /\ OnePass(state) = u[Len(state.remaining)]
<1> DEFINE r == state.remaining
           len == Len(r)
           a == [state EXCEPT !.remaining = <<>>]
           step == [x \in States \X (1..len) |-> Try(x[1], r[x[2]])]
           Runs(u) == u = [n \in 0..len |-> IF n = 0 THEN a ELSE Try(u[n - 1], r[n])]
<1>1. len \in Nat /\ r \in Seq(Item) /\ \A k \in 1..len : r[k] \in Item
  BY DEF States
<1>2. a \in States
  <2>1. <<>> \in Seq(Item)
    OBVIOUS
  <2> QED
    BY <2>1 DEF States
<1>3. step \in [States \X (1..len) -> States]
  BY <1>1, TryIs
<1>4. PICK f \in [0..len -> States] :
        f[0] = a /\ \A k \in 1..len : f[k] = step[<<f[k - 1], k>>]
  <2> SUFFICES \E f \in [0..len -> States] : Iterates(f, len, a, step)
    BY Zenon DEF Iterates
  <2>1. len \in Nat /\ a \in States /\ step \in [States \X (1..len) -> States]
    BY <1>1, <1>2, <1>3
  <2> HIDE DEF a, step, len
  <2> QED
    BY <2>1, Iteration, Zenon
<1>5. \A k \in 1..len : f[k] = Try(f[k - 1], r[k])
  <2> SUFFICES ASSUME NEW k \in 1..len PROVE f[k] = Try(f[k - 1], r[k])
    OBVIOUS
  <2>1. k - 1 \in 0..len
    BY <1>1
  <2>2. f[k - 1] \in States
    BY <1>4, <2>1
  <2> QED
    BY <1>4, <2>2
<1> HIDE DEF a, step, len
<1>6. Runs(f)
  <2>1. \A n \in 0..len : n = 0 \/ n \in 1..len
    BY <1>1
  <2>2. \A n \in 0..len : f[n] = IF n = 0 THEN a ELSE Try(f[n - 1], r[n])
    BY <1>4, <1>5, <2>1
  <2> QED
    BY <1>4, <2>2
<1>7. \E u : Runs(u) /\ OnePass(state) = u[len]
  BY <1>6, Zenon DEF OnePass, a, len
<1>8. PICK u : Runs(u) /\ OnePass(state) = u[len]
  BY <1>7
<1>9. DOMAIN u = 0..len /\ u[0] = a /\ \A k \in 1..len : u[k] = Try(u[k - 1], r[k])
  <2>1. \A n \in 0..len : u[n] = IF n = 0 THEN a ELSE Try(u[n - 1], r[n])
    BY <1>8
  <2> QED
    BY <1>1, <1>8, <2>1
<1>10. \A k \in 0..len : u[k] = f[k]
  <2> DEFINE G == {k \in 0..len : u[k] = f[k]}
  <2>1. 0 \in G
    BY <1>1, <1>4, <1>9
  <2>2. \A k \in 1..len : k - 1 \in G => k \in G
    BY <1>1, <1>5, <1>9
  <2>3. \A k \in 0..len : k \in G
    <3> HIDE DEF G
    <3>1. G \in SUBSET (0..len)
      BY DEF G
    <3> QED
      BY <1>1, <2>1, <2>2, <3>1, UpwardInduction
  <2> QED
    BY <2>3
<1>11. f[len] = OnePass(state)
  BY <1>1, <1>8, <1>10
<1> QED
  BY <1>4, <1>5, <1>11 DEF a, len

\* What is left to visit after the k-th.
Rest(q, k) == {q[j] : j \in (k + 1)..Len(q)}

LEMMA RestShrinks ==
  ASSUME NEW q \in Seq(Item), NEW k \in 1..Len(q)
  PROVE  Rest(q, k - 1) = Rest(q, k) \cup {q[k]} /\ (NoRepeat(q) => q[k] \notin Rest(q, k))
<1>1. Len(q) \in Nat /\ DOMAIN q = 1..Len(q)
  OBVIOUS
<1>2. ((k - 1) + 1)..Len(q) = ((k + 1)..Len(q)) \cup {k}
  BY <1>1
<1>3. \A j \in (k + 1)..Len(q) : j \in 1..Len(q) /\ j # k
  BY <1>1
<1> QED
  BY <1>1, <1>2, <1>3 DEF Rest, NoRepeat

\* The first that is ordered, when nothing was before, is the first of those
\* visited whose dependencies are done.
FirstReady(q, e, k, done) ==
  \E j \in 1..k : /\ e = q[j] /\ Ready(q[j], done)
                  /\ \A i \in 1..(j - 1) : ~Ready(q[i], done)

\* After k tries of a pass that began with the state old.
Visited(old, s, k, open, done) ==
  /\ Fits(s, Rest(old.remaining, k), open, done)
  /\ Len(s.ordered) + Len(s.remaining) = Len(old.ordered) + k
  /\ Len(old.ordered) <= Len(s.ordered)
  /\ \A j \in 1..Len(old.ordered) : s.ordered[j] = old.ordered[j]
  /\ Len(s.ordered) = Len(old.ordered) =>
       /\ s.ordered = old.ordered /\ s.placed = old.placed
       /\ \A j \in 1..k : ~Ready(old.remaining[j], old.placed)
  /\ ToSet(s.remaining) \subseteq ToSet(old.remaining)
  /\ Stuck(old) => Len(s.ordered) = Len(old.ordered)
  /\ Len(old.ordered) = 0 /\ Len(s.ordered) # 0 =>
       FirstReady(old.remaining, s.ordered[1], k, done)

LEMMA VisitNone ==
  ASSUME NEW old, NEW open \in SUBSET Item, NEW done, Fits(old, {}, open, done)
  PROVE  Visited(old, [old EXCEPT !.remaining = <<>>], 0, open, done)
<1> DEFINE s == [old EXCEPT !.remaining = <<>>]
<1>1. /\ old = [ordered |-> old.ordered, placed |-> old.placed, remaining |-> old.remaining]
      /\ old.ordered \in Seq(Item) /\ old.placed \in SUBSET Task
      /\ old.remaining \in Seq(Item)
  BY DEF Fits, States
<1>2. s = [ordered |-> old.ordered, placed |-> old.placed, remaining |-> <<>>]
  BY <1>1
<1> HIDE DEF s
<1>3. <<>> \in Seq(Item) /\ Len(<<>>) = 0 /\ DOMAIN <<>> = {} /\ ToSet(<<>>) = {}
      /\ NoRepeat(<<>>)
  BY DEF ToSet, NoRepeat
<1>4. Rest(old.remaining, 0) = ToSet(old.remaining)
  <2>1. DOMAIN old.remaining = 1..Len(old.remaining) /\ 0 + 1 = 1
    BY <1>1
  <2> QED
    BY <2>1 DEF Rest, ToSet
<1>5. s \in States
  BY <1>1, <1>2, <1>3 DEF States
<1>6. Parted(s, Rest(old.remaining, 0), open)
  BY <1>2, <1>3, <1>4 DEF Fits, Parted
<1>7. Resolved(s, open, done)
  BY <1>2 DEF Fits, Resolved
<1>8. Len(old.ordered) \in Nat
  BY <1>1
<1> QED
  BY <1>2, <1>3, <1>5, <1>6, <1>7, <1>8 DEF Visited, Fits, s

LEMMA VisitOne ==
  ASSUME NEW old, NEW open \in SUBSET Item, NEW done, Fits(old, {}, open, done),
         NEW s, NEW k \in 1..Len(old.remaining), Visited(old, s, k - 1, open, done),
         NEW q, q = old.remaining, NEW item, item = q[k], NEW t, t = Try(s, item)
  PROVE  Visited(old, t, k, open, done)
<1>1. /\ q \in Seq(Item) /\ item \in Item /\ NoRepeat(q) /\ Len(q) \in Nat
      /\ DOMAIN q = 1..Len(q) /\ old.ordered \in Seq(Item) /\ Len(old.ordered) \in Nat
      /\ k \in Nat /\ k - 1 \in Nat /\ (k - 1) + 1 = k
      /\ s \in States /\ s.ordered \in Seq(Item) /\ s.remaining \in Seq(Item)
  BY DEF Fits, Parted, States, Visited
<1>2. Fits(t, Rest(q, k), open, done)
  <2>1. Rest(q, k - 1) = Rest(q, k) \cup {item} /\ item \notin Rest(q, k)
    BY <1>1, RestShrinks
  <2> QED
    BY <1>1, <2>1, TryFits DEF Visited
<1>3. /\ Len(s.ordered) \in Nat /\ Len(s.remaining) \in Nat
      /\ Len(s.ordered) + Len(s.remaining) = Len(old.ordered) + (k - 1)
      /\ Len(old.ordered) <= Len(s.ordered)
  <2>1. /\ Len(s.ordered) + Len(s.remaining) = Len(old.ordered) + (k - 1)
        /\ Len(old.ordered) <= Len(s.ordered)
    BY Zenon DEF Visited
  <2>2. Len(s.ordered) \in Nat /\ Len(s.remaining) \in Nat
    BY <1>1
  <2> QED
    BY <2>1, <2>2
<1>4. item \in ToSet(q)
  BY <1>1 DEF ToSet
<1>5. old.placed = done \cup Ids(ToSet(old.ordered))
  BY DEF Fits, Resolved
<1>6. Len(old.ordered) = 0 => old.placed = done
  <2>1. Len(old.ordered) = 0 => DOMAIN old.ordered = {}
    BY <1>1
  <2> QED
    BY <1>5, <2>1 DEF ToSet, Ids
<1>7. \A j \in 1..k : j = k \/ j \in 1..(k - 1)
  BY <1>1
<1>8. CASE Ready(item, s.placed)
  <2> DEFINE p == Append(s.ordered, item)
  <2>1. t.ordered = p /\ t.remaining = s.remaining
    <3>1. t = [ordered |-> p, placed |-> s.placed \cup {item.id}, remaining |-> s.remaining]
      BY <1>1, <1>8, TryIs, Zenon
    <3> HIDE DEF p
    <3> QED
      BY <3>1
  <2>2. /\ Len(p) = Len(s.ordered) + 1 /\ p[Len(s.ordered) + 1] = item
        /\ \A n \in 1..Len(s.ordered) : p[n] = s.ordered[n]
    BY <1>1, Appending
  <2> HIDE DEF p
  <2>3. \A j \in 1..Len(old.ordered) : p[j] = old.ordered[j]
    <3>1. \A j \in 1..Len(old.ordered) : j \in 1..Len(s.ordered)
      BY <1>1, <1>3
    <3> QED
      BY <2>2, <3>1 DEF Visited
  <2>4. ~Stuck(old)
    <3>1. ASSUME Stuck(old) PROVE s.placed = old.placed
      BY <1>1, <3>1 DEF Visited
    <3> QED
      BY <1>1, <1>8, <3>1 DEF Stuck
  <2>5. Len(old.ordered) = 0 => FirstReady(q, p[1], k, done)
    <3> SUFFICES ASSUME Len(old.ordered) = 0 PROVE FirstReady(q, p[1], k, done)
      OBVIOUS
    <3>1. CASE Len(s.ordered) = 0
      <4>1. s.placed = done /\ \A j \in 1..(k - 1) : ~Ready(q[j], done)
        BY <1>6, <3>1 DEF Visited
      <4>2. p[1] = q[k] /\ k \in 1..k
        BY <1>1, <2>2, <3>1
      <4> QED
        BY <1>8, <4>1, <4>2 DEF FirstReady
    <3>2. CASE Len(s.ordered) # 0
      <4>1. FirstReady(q, s.ordered[1], k - 1, done)
        BY <3>2 DEF Visited
      <4>2. p[1] = s.ordered[1]
        BY <1>3, <2>2, <3>2
      <4>3. \A j \in 1..(k - 1) : j \in 1..k
        BY <1>1
      <4> QED
        BY <4>1, <4>2, <4>3 DEF FirstReady
    <3> QED
      BY <3>1, <3>2
  <2>6. /\ Len(t.ordered) + Len(t.remaining) = Len(old.ordered) + k
        /\ Len(old.ordered) < Len(t.ordered) /\ Len(t.ordered) \in Nat
    <3>1. Len(t.ordered) = Len(s.ordered) + 1 /\ Len(t.remaining) = Len(s.remaining)
      BY <2>1, <2>2
    <3>2. k \in Nat /\ Len(old.ordered) \in Nat
      BY <1>1
    <3> DEFINE a == Len(s.ordered)
               b == Len(s.remaining)
               c == Len(old.ordered)
    <3>3. a \in Nat /\ b \in Nat /\ c \in Nat /\ a + b = c + (k - 1) /\ c <= a
      BY <1>3, <3>2
    <3> HIDE DEF a, b, c
    <3>4. (a + 1) + b = c + k /\ c < a + 1 /\ a + 1 \in Nat
      BY <3>2, <3>3
    <3> QED
      BY <1>3, <3>1, <3>4 DEF a, b, c
  <2>7. ToSet(t.remaining) \subseteq ToSet(q)
    BY <2>1 DEF Visited
  <2> QED
    BY <1>1, <1>2, <2>1, <2>3, <2>4, <2>5, <2>6, <2>7 DEF Visited
<1>9. CASE ~Ready(item, s.placed)
  <2> DEFINE p == Append(s.remaining, item)
  <2>1. t.ordered = s.ordered /\ t.placed = s.placed /\ t.remaining = p
    <3>1. t = [ordered |-> s.ordered, placed |-> s.placed, remaining |-> p]
      BY <1>1, <1>9, TryIs, Zenon
    <3> HIDE DEF p
    <3> QED
      BY <3>1
  <2>2. Len(p) = Len(s.remaining) + 1 /\ ToSet(p) = ToSet(s.remaining) \cup {item}
    BY <1>1, Appending
  <2> HIDE DEF p
  <2>3. /\ Len(t.ordered) + Len(t.remaining) = Len(old.ordered) + k
        /\ Len(old.ordered) <= Len(t.ordered)
    <3>1. Len(t.ordered) = Len(s.ordered) /\ Len(t.remaining) = Len(s.remaining) + 1
      BY <2>1, <2>2
    <3>2. k \in Nat /\ Len(old.ordered) \in Nat
      BY <1>1
    <3> DEFINE a == Len(s.ordered)
               b == Len(s.remaining)
               c == Len(old.ordered)
    <3>3. a \in Nat /\ b \in Nat /\ c \in Nat /\ a + b = c + (k - 1) /\ c <= a
      BY <1>3, <3>2
    <3> HIDE DEF a, b, c
    <3>4. a + (b + 1) = c + k /\ c < a + 1 /\ a + 1 \in Nat
      BY <3>2, <3>3
    <3> QED
      BY <1>3, <3>1, <3>4 DEF a, b, c
  <2>4. Len(t.ordered) = Len(old.ordered) =>
          /\ t.ordered = old.ordered /\ t.placed = old.placed
          /\ \A j \in 1..k : ~Ready(q[j], old.placed)
    BY <1>7, <1>9, <2>1 DEF Visited
  <2>5. ToSet(t.remaining) \subseteq ToSet(q)
    BY <1>4, <2>1, <2>2 DEF Visited
  <2>6. Len(old.ordered) = 0 /\ Len(t.ordered) # 0 => FirstReady(q, t.ordered[1], k, done)
    <3>1. \A j \in 1..(k - 1) : j \in 1..k
      BY <1>1
    <3> QED
      BY <2>1, <3>1 DEF Visited, FirstReady
  <2> QED
    BY <1>2, <2>1, <2>3, <2>4, <2>5, <2>6 DEF Visited
<1> QED
  BY <1>8, <1>9

\* A pass places some task, or none of those that remain is ready.
Passed(old, s, open, done) ==
  /\ Fits(s, {}, open, done)
  /\ Len(s.ordered) + Len(s.remaining) = Len(old.ordered) + Len(old.remaining)
  /\ Len(old.ordered) < Len(s.ordered) \/ (s.ordered = old.ordered /\ Stuck(s))
  /\ \A j \in 1..Len(old.ordered) : s.ordered[j] = old.ordered[j]
  /\ Stuck(old) => s.ordered = old.ordered /\ Stuck(s)
  /\ Len(old.ordered) = 0 /\ Len(s.ordered) # 0 =>
       FirstReady(old.remaining, s.ordered[1], Len(old.remaining), done)

LEMMA PassFits ==
  ASSUME NEW old, NEW open \in SUBSET Item, NEW done, Fits(old, {}, open, done)
  PROVE  Passed(old, OnePass(old), open, done)
<1> DEFINE q == old.remaining
           len == Len(q)
<1>1. /\ old \in States /\ q \in Seq(Item) /\ len \in Nat /\ DOMAIN q = 1..len
      /\ old.ordered \in Seq(Item) /\ Len(old.ordered) \in Nat
  BY DEF Fits, States
<1>2. PICK u \in [0..len -> States] :
        /\ u[0] = [old EXCEPT !.remaining = <<>>]
        /\ \A k \in 1..len : u[k] = Try(u[k - 1], q[k])
        /\ OnePass(old) = u[len]
  BY <1>1, PassRuns
<1> DEFINE G == {k \in 0..len : Visited(old, u[k], k, open, done)}
<1>3. 0 \in G
  BY <1>1, <1>2, VisitNone
<1>4. ASSUME NEW k \in 1..len, k - 1 \in G PROVE k \in G
  <2>1. Visited(old, u[k - 1], k - 1, open, done) /\ u[k] = Try(u[k - 1], q[k])
    BY <1>2, <1>4
  <2>2. Visited(old, u[k], k, open, done)
    BY <2>1, VisitOne
  <2> QED
    BY <2>2
<1>5. Visited(old, OnePass(old), len, open, done)
  <2>1. G \in SUBSET (0..len) /\ len \in 0..len
    BY <1>1
  <2>2. len \in G
    <3> HIDE DEF G
    <3> QED
      BY <1>1, <1>3, <1>4, <2>1, UpwardInduction
  <2> QED
    BY <1>2, <2>2
<1> DEFINE s == OnePass(old)
<1>6. Rest(q, len) = {}
  BY <1>1 DEF Rest
<1>7. s \in States /\ s.ordered \in Seq(Item) /\ Len(s.ordered) \in Nat
      /\ s.remaining \in Seq(Item) /\ DOMAIN s.remaining = 1..Len(s.remaining)
  BY <1>5 DEF Visited, Fits, States
<1>8. Len(s.ordered) = Len(old.ordered) => s.ordered = old.ordered /\ Stuck(s)
  <2> SUFFICES ASSUME Len(s.ordered) = Len(old.ordered)
               PROVE  s.ordered = old.ordered /\ Stuck(s)
    OBVIOUS
  <2>1. /\ s.ordered = old.ordered /\ s.placed = old.placed
        /\ \A j \in 1..len : ~Ready(q[j], old.placed)
        /\ ToSet(s.remaining) \subseteq ToSet(q)
    BY <1>5 DEF Visited
  <2> HIDE DEF s
  <2>2. ASSUME NEW n \in DOMAIN s.remaining PROVE ~Ready(s.remaining[n], s.placed)
    <3>1. s.remaining[n] \in ToSet(q)
      BY <2>1 DEF ToSet
    <3> QED
      BY <1>1, <2>1, <3>1 DEF ToSet
  <2> QED
    BY <2>1, <2>2 DEF Stuck
<1> HIDE DEF s
<1>9. /\ Fits(s, {}, open, done)
      /\ Len(s.ordered) + Len(s.remaining) = Len(old.ordered) + len
      /\ Len(old.ordered) <= Len(s.ordered)
      /\ \A j \in 1..Len(old.ordered) : s.ordered[j] = old.ordered[j]
      /\ Stuck(old) => Len(s.ordered) = Len(old.ordered)
      /\ Len(old.ordered) = 0 /\ Len(s.ordered) # 0 => FirstReady(q, s.ordered[1], len, done)
  BY <1>5, <1>6, Zenon DEF Visited, s
<1>10. Len(old.ordered) < Len(s.ordered) \/ Len(s.ordered) = Len(old.ordered)
  BY <1>1, <1>7, <1>9
<1> QED
  BY <1>8, <1>9, <1>10, Zenon DEF Passed, s

-----------------------------------------------------------------------------
(* resolve_run_order *)

LEMMA ResolveRuns ==
  ASSUME NEW items, NEW done \in SUBSET Task, NEW time, Queue(items, time) \in Seq(Item)
  PROVE  \E u \in [0..Len(Queue(items, time)) -> States] :
           /\ u[0] = Unplaced(Queue(items, time), done)
           /\ \A k \in 1..Len(Queue(items, time)) : u[k] = OnePass(u[k - 1])
           /\ Resolve(items, done, time) = u[Len(Queue(items, time))].ordered
<1> DEFINE queue == Queue(items, time)
           len == Len(queue)
           a == Unplaced(queue, done)
           step == [x \in States \X (1..len) |-> OnePass(x[1])]
           Runs(u) == u = [n \in 0..len |-> IF n = 0 THEN a ELSE OnePass(u[n - 1])]
<1>1. len \in Nat
  OBVIOUS
<1>2. a \in States
  <2>1. <<>> \in Seq(Item)
    OBVIOUS
  <2> QED
    BY <2>1 DEF States, Unplaced
<1>3. \A s \in States : OnePass(s) \in States
  <2> SUFFICES ASSUME NEW s \in States PROVE OnePass(s) \in States
    OBVIOUS
  <2>1. PICK f \in [0..Len(s.remaining) -> States] : OnePass(s) = f[Len(s.remaining)]
    BY PassRuns
  <2>2. Len(s.remaining) \in 0..Len(s.remaining)
    BY DEF States
  <2> QED
    BY <2>1, <2>2
<1>4. step \in [States \X (1..len) -> States]
  BY <1>3
<1>5. PICK f \in [0..len -> States] :
        f[0] = a /\ \A k \in 1..len : f[k] = step[<<f[k - 1], k>>]
  <2> SUFFICES \E f \in [0..len -> States] : Iterates(f, len, a, step)
    BY Zenon DEF Iterates
  <2>1. len \in Nat /\ a \in States /\ step \in [States \X (1..len) -> States]
    BY <1>1, <1>2, <1>4
  <2> HIDE DEF a, step, len
  <2> QED
    BY <2>1, Iteration, Zenon
<1>6. \A k \in 1..len : f[k] = OnePass(f[k - 1])
  <2> SUFFICES ASSUME NEW k \in 1..len PROVE f[k] = OnePass(f[k - 1])
    OBVIOUS
  <2>1. k - 1 \in 0..len
    BY <1>1
  <2>2. f[k - 1] \in States
    BY <1>5, <2>1
  <2> QED
    BY <1>5, <2>2
<1> HIDE DEF a, step, len
<1>7. Runs(f)
  <2>1. \A n \in 0..len : n = 0 \/ n \in 1..len
    BY <1>1
  <2>2. \A n \in 0..len : f[n] = IF n = 0 THEN a ELSE OnePass(f[n - 1])
    BY <1>5, <1>6, <2>1
  <2> QED
    BY <1>5, <2>2
<1>8. \E u : Runs(u) /\ Resolve(items, done, time) = u[len].ordered
  BY <1>7, Zenon DEF Resolve, a, len
<1>9. PICK u : Runs(u) /\ Resolve(items, done, time) = u[len].ordered
  BY <1>8
<1>10. DOMAIN u = 0..len /\ u[0] = a /\ \A k \in 1..len : u[k] = OnePass(u[k - 1])
  <2>1. \A n \in 0..len : u[n] = IF n = 0 THEN a ELSE OnePass(u[n - 1])
    BY <1>9
  <2> QED
    BY <1>1, <1>9, <2>1
<1>11. \A k \in 0..len : u[k] = f[k]
  <2> DEFINE G == {k \in 0..len : u[k] = f[k]}
  <2>1. 0 \in G
    BY <1>1, <1>5, <1>10
  <2>2. \A k \in 1..len : k - 1 \in G => k \in G
    BY <1>1, <1>6, <1>10
  <2>3. \A k \in 0..len : k \in G
    <3> HIDE DEF G
    <3>1. G \in SUBSET (0..len)
      BY DEF G
    <3> QED
      BY <1>1, <2>1, <2>2, <3>1, UpwardInduction
  <2> QED
    BY <2>3
<1>12. f[len].ordered = Resolve(items, done, time)
  BY <1>1, <1>9, <1>11
<1> QED
  BY <1>5, <1>6, <1>12 DEF a, len

\* After k passes over a queue: k tasks are placed, or no more can be.
Passing(queue, s, k, open, done) ==
  /\ Fits(s, {}, open, done)
  /\ Len(s.ordered) + Len(s.remaining) = Len(queue)
  /\ k <= Len(s.ordered) \/ Stuck(s)
  /\ Len(s.ordered) # 0 => FirstReady(queue, s.ordered[1], Len(queue), done)
  /\ k = 0 => s = Unplaced(queue, done)

LEMMA PassingFirst ==
  ASSUME NEW open \in SUBSET Item, NEW done \in SUBSET Task, NEW queue \in Seq(Item),
         NoRepeat(queue), ToSet(queue) = open
  PROVE  Passing(queue, Unplaced(queue, done), 0, open, done)
<1> DEFINE s == Unplaced(queue, done)
<1>1. s = [ordered |-> <<>>, placed |-> done, remaining |-> queue]
  BY DEF Unplaced
<1> HIDE DEF s
<1>2. /\ <<>> \in Seq(Item) /\ Len(<<>>) = 0 /\ DOMAIN <<>> = {} /\ ToSet(<<>>) = {}
      /\ NoRepeat(<<>>) /\ Ids({}) = {} /\ Len(queue) \in Nat
  BY DEF ToSet, NoRepeat, Ids
<1>3. s \in States
  BY <1>1, <1>2 DEF States
<1>4. Parted(s, {}, open)
  BY <1>1, <1>2 DEF Parted
<1>5. Resolved(s, open, done)
  BY <1>1, <1>2 DEF Resolved
<1> QED
  BY <1>1, <1>2, <1>3, <1>4, <1>5 DEF Passing, Fits, s

LEMMA PassingNext ==
  ASSUME NEW open \in SUBSET Item, NEW done \in SUBSET Task, NEW queue \in Seq(Item),
         NEW k \in 1..Len(queue), NEW old, Passing(queue, old, k - 1, open, done),
         NEW s, s = OnePass(old)
  PROVE  Passing(queue, s, k, open, done)
<1>1. Passed(old, s, open, done)
  BY PassFits DEF Passing
<1>2. /\ Len(queue) \in Nat /\ k \in Nat /\ k # 0
      /\ Len(old.ordered) \in Nat /\ Len(s.ordered) \in Nat
  BY <1>1 DEF Passing, Passed, Fits, States
<1>3. Fits(s, {}, open, done) /\ Len(s.ordered) + Len(s.remaining) = Len(queue)
  BY <1>1 DEF Passing, Passed
<1>4. k <= Len(s.ordered) \/ Stuck(s)
  <2>1. k - 1 <= Len(old.ordered) \/ Stuck(old)
    BY DEF Passing
  <2>2. Len(old.ordered) < Len(s.ordered) \/ Stuck(s)
    BY <1>1 DEF Passed
  <2>3. Stuck(old) => Stuck(s)
    BY <1>1 DEF Passed
  <2> QED
    BY <1>2, <2>1, <2>2, <2>3
<1>5. Len(s.ordered) # 0 => FirstReady(queue, s.ordered[1], Len(queue), done)
  <2> SUFFICES ASSUME Len(s.ordered) # 0
               PROVE  FirstReady(queue, s.ordered[1], Len(queue), done)
    OBVIOUS
  <2>1. CASE k = 1
    <3>1. old = [ordered |-> <<>>, placed |-> done, remaining |-> queue]
      BY <2>1 DEF Passing, Unplaced
    <3>2. Len(old.ordered) = 0 /\ old.remaining = queue
      BY <3>1
    <3> QED
      BY <1>1, <3>2 DEF Passed
  <2>2. CASE k # 1
    <3>1. Len(old.ordered) # 0
      <4> SUFFICES ASSUME Len(old.ordered) = 0 PROVE FALSE
        OBVIOUS
      <4>1. Stuck(old)
        <5>1. k - 1 <= Len(old.ordered) \/ Stuck(old)
          BY DEF Passing
        <5> QED
          BY <1>2, <2>2, <5>1
      <4>2. s.ordered = old.ordered
        BY <1>1, <4>1 DEF Passed
      <4> QED
        BY <4>2
    <3>2. s.ordered[1] = old.ordered[1]
      <4>1. 1 \in 1..Len(old.ordered)
        BY <1>2, <3>1
      <4> QED
        BY <1>1, <4>1 DEF Passed
    <3> QED
      BY <3>1, <3>2 DEF Passing
  <2> QED
    BY <2>1, <2>2
<1> QED
  BY <1>2, <1>3, <1>4, <1>5 DEF Passing

\* What resolve_run_order returns: each task of the least closed set once,
\* after its dependencies, and first the first of those that are ready.
Best(e, open, done) ==
  /\ e \in open /\ e.deps \subseteq done
  /\ \A i \in open : i.deps \subseteq done => ~Before(i, e)

RightOrder(order, open, done) ==
  /\ order \in Seq(Item) /\ NoRepeat(order) /\ ToSet(order) \subseteq open
  /\ ClosedIn(ToSet(order), open, done)
  /\ \A S \in SUBSET open : ClosedIn(S, open, done) => ToSet(order) \subseteq S
  /\ \A n \in DOMAIN order :
       order[n].deps \subseteq done \cup Ids({order[m] : m \in 1..(n - 1)})
  /\ Len(order) # 0 => Best(order[1], open, done)

LEMMA ResolveIs ==
  ASSUME NEW items \in SUBSET Item, IsFiniteSet(items), Distinct(items),
         NEW done \in SUBSET Task, NEW time
  PROVE  RightOrder(Resolve(items, done, time), {i \in items : ~Gated(i, time)}, done)
<1> DEFINE open == {i \in items : ~Gated(i, time)}
           order == Resolve(items, done, time)
<1> DEFINE queue == Queue(items, time)
           len == Len(queue)
<1>1. open \in SUBSET Item /\ open \in SUBSET items /\ IsFiniteSet(open) /\ Distinct(open)
  <2>1. open \in SUBSET items
    OBVIOUS
  <2> QED
    BY <2>1, FS_Subset DEF Distinct
<1>2. /\ queue \in Seq(open) /\ ToSet(queue) = open /\ Ascending(queue)
      /\ queue \in Seq(Item)
  <2>1. queue = Sorted(open)
    BY Zenon DEF Queue
  <2>2. Sorted(open) \in Seq(open) /\ ToSet(Sorted(open)) = open /\ Ascending(Sorted(open))
    BY <1>1, SortedSorts
  <2>3. Sorted(open) \in Seq(Item)
    BY <1>1, <2>2
  <2> QED
    BY <2>1, <2>2, <2>3
<1> HIDE DEF queue
<1>3. /\ len \in Nat /\ DOMAIN queue = 1..len /\ \A n \in 1..len : queue[n] \in open
  BY <1>2
<1>4. NoRepeat(queue)
  <2> SUFFICES ASSUME NEW m \in 1..len, NEW n \in 1..len, queue[m] = queue[n]
               PROVE  m = n
    BY <1>3 DEF NoRepeat
  <2>1. ~Before(queue[m], queue[n]) /\ ~Before(queue[n], queue[m])
    BY <1>1, <1>3, BeforeIsOrder
  <2> QED
    BY <1>2, <1>3, <2>1 DEF Ascending
<1>5. PICK u \in [0..len -> States] :
        /\ u[0] = Unplaced(queue, done)
        /\ \A k \in 1..len : u[k] = OnePass(u[k - 1])
        /\ Resolve(items, done, time) = u[len].ordered
  BY <1>2, ResolveRuns DEF queue
<1> DEFINE G == {k \in 0..len : Passing(queue, u[k], k, open, done)}
<1>6. 0 \in G
  <2>1. Passing(queue, Unplaced(queue, done), 0, open, done)
    BY <1>1, <1>2, <1>4, PassingFirst
  <2> QED
    BY <1>3, <1>5, <2>1
<1>7. ASSUME NEW k \in 1..len, k - 1 \in G PROVE k \in G
  <2>1. Passing(queue, u[k - 1], k - 1, open, done) /\ u[k] = OnePass(u[k - 1])
    BY <1>5, <1>7
  <2>2. Passing(queue, u[k], k, open, done)
    BY <1>1, <1>2, <2>1, PassingNext
  <2> QED
    BY <2>2
<1> DEFINE s == u[len]
<1>8. Passing(queue, s, len, open, done)
  <2>1. G \in SUBSET (0..len) /\ len \in 0..len
    BY <1>3
  <2>2. len \in G
    <3> HIDE DEF G
    <3> QED
      BY <1>3, <1>6, <1>7, <2>1, UpwardInduction
  <2> QED
    BY <2>2
<1> HIDE DEF s, G, len
<1>9. /\ order = s.ordered /\ s \in States /\ order \in Seq(Item) /\ NoRepeat(order)
      /\ ToSet(order) \subseteq open
      /\ ToSet(order) \cup ToSet(s.remaining) = open
      /\ s.placed = done \cup Ids(ToSet(order))
      /\ \A n \in DOMAIN order :
           order[n].deps \subseteq done \cup Ids({order[m] : m \in 1..(n - 1)})
      /\ \A S \in SUBSET open : ClosedIn(S, open, done) => ToSet(order) \subseteq S
  <2>1. order = s.ordered
    BY <1>5 DEF s, len
  <2>2. s \in States /\ Parted(s, {}, open) /\ Resolved(s, open, done)
    BY <1>8 DEF Passing, Fits
  <2>3. s.ordered \in Seq(Item)
    BY <2>2 DEF States
  <2> QED
    BY <2>1, <2>2, <2>3 DEF Parted, Resolved
<1>10. Stuck(s)
  <2> SUFFICES ASSUME ~Stuck(s) PROVE FALSE
    OBVIOUS
  <2>1. len <= Len(s.ordered) /\ Len(s.ordered) + Len(s.remaining) = len
    BY <1>8 DEF Passing, len
  <2>2. s.remaining \in Seq(Item) /\ Len(s.ordered) \in Nat /\ Len(s.remaining) \in Nat
    BY <1>9 DEF States
  <2>3. Len(s.remaining) = 0
    BY <1>3, <2>1, <2>2
  <2>4. DOMAIN s.remaining = {}
    BY <2>2, <2>3
  <2> QED
    BY <2>4 DEF Stuck
<1>11. ClosedIn(ToSet(order), open, done)
  <2> SUFFICES ASSUME NEW i \in open, i.deps \subseteq done \cup Ids(ToSet(order)),
                      i \notin ToSet(order)
               PROVE  FALSE
    BY DEF ClosedIn
  <2>1. PICK n \in DOMAIN s.remaining : s.remaining[n] = i
    BY <1>9 DEF ToSet
  <2> QED
    BY <1>9, <1>10, <2>1 DEF Stuck, Ready
<1>12. Len(order) # 0 => Best(order[1], open, done)
  <2> SUFFICES ASSUME Len(order) # 0 PROVE Best(order[1], open, done)
    OBVIOUS
  <2>1. FirstReady(queue, order[1], len, done)
    BY <1>8, <1>9 DEF Passing, len
  <2>2. PICK j \in 1..len : /\ order[1] = queue[j] /\ Ready(queue[j], done)
                            /\ \A i \in 1..(j - 1) : ~Ready(queue[i], done)
    BY <2>1 DEF FirstReady
  <2>3. ASSUME NEW i \in open, Ready(i, done) PROVE ~Before(i, queue[j])
    <3>1. PICK m \in 1..len : queue[m] = i
      BY <1>2, <1>3 DEF ToSet
    <3>2. ~(m < j)
      BY <1>3, <2>2, <2>3, <3>1
    <3>3. CASE m = j
      BY <1>1, <1>3, <3>1, <3>3, BeforeIsOrder
    <3>4. CASE j < m
      <4>1. Before(queue[j], queue[m]) /\ queue[j] \in open /\ queue[m] \in open
        BY <1>2, <1>3, <3>4 DEF Ascending
      <4> QED
        BY <1>1, <3>1, <4>1, BeforeIsOrder
    <3> QED
      BY <1>3, <3>2, <3>3, <3>4
  <2> QED
    BY <1>3, <2>2, <2>3 DEF Best, Ready
<1> QED
  <2>1. RightOrder(order, open, done)
    <3> HIDE DEF order, open
    <3> QED
      BY <1>9, <1>11, <1>12 DEF RightOrder
  <2> QED
    BY <2>1, Zenon

-----------------------------------------------------------------------------
(* What is done *)

\* Every task has a directory.
Placed == place \in [Task -> Place]

LEMMA PlacedFirst == Init => Placed
  BY DEF Init, Placed, Place

\* What the runner does: it moves a pending task to running/, a running one
\* out of it, and at a start puts a copy where no file is.
LEMMA StepKeeps ==
  ASSUME Placed, Step
  PROVE  /\ Placed'
         /\ \A t \in Task : place[t] = "done" => place'[t] = "done"
<1>1. CASE Reconcile
  BY <1>1 DEF Reconcile, Canonical, Placed, Place
<1>2. CASE List \/ Read \/ Select
  BY <1>2 DEF List, Read, Select, World, Placed
<1>3. CASE Begin
  BY <1>3 DEF Begin, Placed, Place
<1>4. CASE Finish
  BY <1>4 DEF Finish, Placed, Place
<1> QED
  BY <1>1, <1>2, <1>3, <1>4 DEF Step

\* What users, the synchronising tool and restarts do.
LEMMA EventKeeps ==
  ASSUME Placed, Event
  PROVE  /\ Placed'
         /\ \A t \in Task : place[t] = "done" => place'[t] \in {"done", "absent"}
<1>1. ASSUME NEW t \in Task, Move(t)
      PROVE  Placed' /\ \A u \in Task : place[u] = "done" => place'[u] \in {"done", "absent"}
  <2>1. PICK q \in Place : <<place[t], q>> \in Moves /\ place' = [place EXCEPT ![t] = q]
    BY <1>1 DEF Move
  <2>2. place[t] = "done" => q = "absent"
    BY <2>1 DEF Moves
  <2> QED
    BY <2>1, <2>2 DEF Placed
<1>2. ASSUME NEW t \in Task, Put(t)
      PROVE  Placed' /\ \A u \in Task : place[u] = "done" => place'[u] \in {"done", "absent"}
  BY <1>2 DEF Put, Placed, Place
<1>3. ASSUME NEW t \in Task, Conflict(t)
      PROVE  Placed' /\ \A u \in Task : place[u] = "done" => place'[u] \in {"done", "absent"}
  BY <1>3 DEF Conflict, Placed, Place
<1>4. CASE Restart
  BY <1>4 DEF Restart, Placed, Place
<1> QED
  BY <1>1, <1>2, <1>3, <1>4 DEF Event

LEMMA PlacedKept == Placed /\ [Next]_vars => Placed'
<1> SUFFICES ASSUME Placed, [Next]_vars PROVE Placed'
  OBVIOUS
<1> QED
  BY StepKeeps, EventKeeps DEF Next, ClockPasses, vars, Placed

\* Whatever conflicted copies come and go, and wherever the task was when one
\* was reconciled, begin_task and reconcile_filenames never bring a finished
\* task back.
THEOREM DonesStayDone == Spec => DoneStaysDone
<1>1. Placed /\ [Next]_vars =>
        [\A t \in Task : place[t] = "done" => place'[t] \in {"done", "absent"}]_vars
  BY StepKeeps, EventKeeps DEF Next, ClockPasses, vars
<1> QED
  BY <1>1, PlacedFirst, PlacedKept, PTL DEF Spec, DoneStaysDone

-----------------------------------------------------------------------------
(* The runner *)

Plain(t) == [id |-> t, copied |-> FALSE]

Shape == loop = [pc |-> loop.pc, todo |-> loop.todo, read |-> loop.read, pick |-> loop.pick]

\* Every file is read once.
ReadOnce ==
  /\ IsFiniteSet(loop.read) /\ Distinct(loop.read)
  /\ \A i \in loop.read : [id |-> i.id, copied |-> i.copied] \notin loop.todo

\* What was read of a task that has not changed since is what there is.
Known ==
  loop.pc = "read" =>
    \A t \in Task \ touched :
      /\ place[t] = "pending" => Plain(t) \in loop.todo \/ Parsed(Plain(t)) \in loop.read
      /\ \A i \in loop.read : i.id = t =>
           IF i.copied THEN copy[t] # NULL
           ELSE place[t] = "pending" /\ i = Parsed(Plain(t))

\* The task that is about to be started comes first.
ComesFirst(t) ==
  Settled(t) =>
    /\ Startable(t)
    /\ \A u \in Task : Settled(u) /\ Startable(u) => ~Before(ItemOf(u), ItemOf(t))

Chosen == loop.pc = "begin" => ComesFirst(loop.pick)

IInv == TypeOK /\ Shape /\ ReadOnce /\ Known /\ Chosen

LEMMA InitInv == Init => IInv
<1> SUFFICES ASSUME Init PROVE IInv
  OBVIOUS
<1>1. place \in [Task -> Place]
  BY DEF Init, Place
<1> DEFINE wishes == UNION {Wishes[t] : t \in Task}
<1>7. wishes \subseteq Fields
  <2>1. \A t \in Task : Wishes[t] \subseteq Fields
    BY RunOrderAssumption
  <2> QED
    BY <2>1, Zenon
<1>2. spec \in [Task -> Fields]
  <2>1. Default \in Fields
    BY DEF Default, Fields
  <2>2. spec \in [Task -> wishes \cup {Default}]
    BY Zenon DEF Init
  <2> HIDE DEF wishes
  <2> QED
    BY <1>7, <2>1, <2>2
<1>3. copy \in [Task -> Fields \cup {NULL}]
  <2>1. PICK c \in Task, fields \in wishes \cup {NULL} :
          copy = [t \in Task |-> IF t = c THEN fields ELSE NULL]
    BY ZenonT(40) DEF Init
  <2> HIDE DEF wishes
  <2>2. fields \in Fields \cup {NULL}
    BY <1>7
  <2> QED
    BY <2>1, <2>2
<1>4. clock = 0 /\ touched = {} /\ events = 0 /\ events \in 0..MaxEvents
  BY RunOrderAssumption DEF Init
<1>5. loop = [pc |-> "start", todo |-> {}, read |-> {}, pick |-> NULL]
  BY DEF Init, Starting, Idle
<1>6. ReadOnce
  BY <1>5, FS_EmptySet DEF ReadOnce, Distinct
<1> QED
  BY <1>1, <1>2, <1>3, <1>4, <1>5, <1>6 DEF IInv, TypeOK, Shape, Known, Chosen

\* An idle or starting runner has read nothing.
LEMMA AtRest ==
  ASSUME TypeOK, loop' \in {Idle, Starting},
         place' \in [Task -> Place], spec' \in [Task -> Fields],
         copy' \in [Task -> Fields \cup {NULL}],
         clock' = clock, touched' \subseteq Task, events' \in 0..MaxEvents
  PROVE  IInv'
<1>1. /\ loop' = [pc |-> loop'.pc, todo |-> {}, read |-> {}, pick |-> NULL]
      /\ loop'.pc \in {"idle", "start"}
  BY DEF Idle, Starting
<1>2. ReadOnce'
  BY <1>1, FS_EmptySet DEF ReadOnce, Distinct
<1> QED
  BY <1>1, <1>2 DEF IInv, TypeOK, Shape, Known, Chosen

LEMMA ReconcileKeeps == ASSUME IInv, Reconcile PROVE IInv'
<1>1. /\ place' \in [Task -> Place] /\ spec' \in [Task -> Fields]
      /\ copy' \in [Task -> Fields \cup {NULL}]
      /\ loop' = loop \/ loop' = Idle
      /\ UNCHANGED <<clock, touched, events>> /\ loop.pc = "start"
  BY DEF Reconcile, Canonical, IInv, TypeOK, Place
<1>2. CASE loop' = loop
  BY <1>1, <1>2 DEF IInv, TypeOK, Shape, ReadOnce, Distinct, Known, Chosen
<1>3. CASE loop' = Idle
  <2>1. TypeOK /\ touched' \subseteq Task /\ events' \in 0..MaxEvents
    BY <1>1 DEF IInv, TypeOK
  <2> QED
    BY <1>1, <1>3, <2>1, AtRest
<1> QED
  BY <1>1, <1>2, <1>3

LEMMA ListKeeps == ASSUME IInv, List PROVE IInv'
<1>1. /\ UNCHANGED <<place, spec, copy, clock, events>> /\ touched' = {}
      /\ loop' = [pc |-> "read", todo |-> {f \in File : There(f)}, read |-> {},
                  pick |-> NULL]
  BY DEF List, Idle
<1>2. ReadOnce'
  BY <1>1, FS_EmptySet DEF ReadOnce, Distinct
<1>3. Known'
  <2>1. \A t \in Task : place[t] = "pending" => Plain(t) \in {f \in File : There(f)}
    BY DEF Plain, File, There
  <2> QED
    BY <1>1, <2>1 DEF Known, Plain
<1> QED
  BY <1>1, <1>2, <1>3 DEF IInv, TypeOK, Shape, Chosen

LEMMA ParsedIs ==
  ASSUME TypeOK, NEW f \in File, There(f)
  PROVE  Parsed(f) \in Item /\ Parsed(f).id = f.id /\ Parsed(f).copied = f.copied
<1>1. f.id \in Task /\ f.copied \in BOOLEAN
  BY DEF File
<1>2. (IF f.copied THEN copy[f.id] ELSE spec[f.id]) \in Fields
  BY <1>1 DEF TypeOK, There
<1> QED
  BY <1>1, <1>2 DEF Parsed, Item, Fields

LEMMA ReadKeeps == ASSUME IInv, Read PROVE IInv'
<1>1. PICK f \in loop.todo :
        loop' = [loop EXCEPT !.todo = @ \ {f},
                             !.read = IF There(f) THEN @ \cup {Parsed(f)} ELSE @]
  BY DEF Read
<1>2. /\ loop.pc = "read" /\ UNCHANGED <<place, spec, copy, clock, touched, events>>
      /\ f \in File
  BY DEF Read, World, IInv, TypeOK
<1> DEFINE more == IF There(f) THEN loop.read \cup {Parsed(f)} ELSE loop.read
<1>3. loop' = [pc |-> "read", todo |-> loop.todo \ {f}, read |-> more, pick |-> loop.pick]
  BY <1>1, <1>2 DEF IInv, Shape
<1>4. /\ There(f) => Parsed(f) \in Item /\ Parsed(f).id = f.id /\ Parsed(f).copied = f.copied
      /\ loop.read \subseteq Item /\ loop.todo \subseteq File
  BY <1>2, ParsedIs DEF IInv, TypeOK
<1>5. f = [id |-> f.id, copied |-> f.copied] /\ f.id \in Task /\ f.copied \in BOOLEAN
  BY <1>2 DEF File
<1>6. IsFiniteSet(more)
  BY FS_AddElement DEF IInv, ReadOnce
<1>7. /\ Distinct(more)
      /\ \A i \in more : [id |-> i.id, copied |-> i.copied] \notin loop.todo \ {f}
  <2>1. \A i \in loop.read : ~(i.id = f.id /\ i.copied = f.copied)
    BY <1>5 DEF IInv, ReadOnce
  <2> QED
    BY <1>4, <1>5, <2>1 DEF IInv, ReadOnce, Distinct
<1> DEFINE p(t) == Parsed(Plain(t))
<1>8. ASSUME NEW t \in Task \ touched
      PROVE  /\ place[t] = "pending" => Plain(t) \in loop.todo \ {f} \/ p(t) \in more
             /\ \A i \in more : i.id = t =>
                  IF i.copied THEN copy[t] # NULL
                  ELSE place[t] = "pending" /\ i = p(t)
  <2>1. /\ place[t] = "pending" => Plain(t) \in loop.todo \/ p(t) \in loop.read
        /\ \A i \in loop.read : i.id = t =>
             IF i.copied THEN copy[t] # NULL
             ELSE place[t] = "pending" /\ i = p(t)
    BY <1>2 DEF IInv, Known
  <2>2. f = Plain(t) => (There(f) <=> place[t] = "pending")
    BY DEF Plain, There
  <2>3. f.id = t /\ ~f.copied => f = Plain(t)
    BY <1>5 DEF Plain
  <2>4. f.id = t /\ f.copied /\ There(f) => copy[t] # NULL
    BY DEF There
  <2>5. loop.read \subseteq more /\ (There(f) => Parsed(f) \in more)
    OBVIOUS
  <2>6. \A i \in more : i \in loop.read \/ (There(f) /\ i = Parsed(f))
    OBVIOUS
  <2> HIDE DEF more, p
  <2>7. place[t] = "pending" => Plain(t) \in loop.todo \ {f} \/ p(t) \in more
    BY <2>1, <2>2, <2>5 DEF p
  <2>8. ASSUME NEW i \in more, i.id = t
        PROVE  IF i.copied THEN copy[t] # NULL ELSE place[t] = "pending" /\ i = p(t)
    <3>1. CASE i \in loop.read
      BY <2>1, <2>8, <3>1
    <3>2. CASE There(f) /\ i = Parsed(f)
      BY <1>4, <1>5, <2>2, <2>3, <2>4, <2>8, <3>2 DEF p
    <3> QED
      BY <2>6, <3>1, <3>2
  <2> QED
    BY <2>7, <2>8
<1>9. Known'
  <2>1. \A t : p(t)' = p(t)
    BY <1>2 DEF Parsed, Plain
  <2> HIDE DEF more, p
  <2> QED
    BY <1>2, <1>3, <1>8, <2>1 DEF Known, p
<1>10. more \subseteq Item
  BY <1>4
<1> HIDE DEF more
<1> QED
  BY <1>2, <1>3, <1>4, <1>6, <1>7, <1>9, <1>10 DEF IInv, TypeOK, Shape, ReadOnce, Chosen

\* The order that Select computes, by what resolve_run_order returns.
LEMMA SelectOrder ==
  ASSUME IInv
  PROVE  RightOrder(Resolve(loop.read, In("done"), clock),
                    {i \in loop.read : ~Gated(i, clock)}, In("done"))
<1>1. /\ loop.read \in SUBSET Item /\ IsFiniteSet(loop.read) /\ Distinct(loop.read)
      /\ In("done") \in SUBSET Task
  BY DEF IInv, TypeOK, ReadOnce, In
<1> QED
  BY <1>1, ResolveIs, Zenon

LEMMA SelectKeeps == ASSUME IInv, Select PROVE IInv'
<1> DEFINE order == Resolve(loop.read, In("done"), clock)
           open == {i \in loop.read : ~Gated(i, clock)}
<1>1. /\ loop.pc = "read" /\ loop.todo = {}
      /\ UNCHANGED <<place, spec, copy, clock, touched, events>>
      /\ loop' = IF order = <<>> THEN Idle
                 ELSE [loop EXCEPT !.pc = "begin", !.pick = Head(order).id]
  BY DEF Select, World
<1>2. CASE order = <<>>
  <2>1. loop' = Idle
    BY <1>1, <1>2
  <2>2. TypeOK /\ TypeOK' /\ clock' = clock
    <3>1. /\ loop'.pc = "idle" /\ loop'.todo = {} /\ loop'.read = {}
      BY <2>1 DEF Idle
    <3> QED
      BY <1>1, <3>1 DEF IInv, TypeOK
  <2> QED
    BY <2>1, <2>2, AtRest DEF TypeOK
<1>3. CASE order # <<>>
  <2>1. /\ order \in Seq(Item) /\ ToSet(order) \subseteq open
        /\ Len(order) # 0 => Best(order[1], open, In("done"))
    <3>1. RightOrder(order, open, In("done"))
      BY SelectOrder, Zenon
    <3> HIDE DEF order, open
    <3> QED
      BY <3>1, Zenon DEF RightOrder
  <2> HIDE DEF order
  <2> DEFINE h == order[1]
  <2>2. Len(order) # 0 /\ Head(order) = h
    BY <1>3, <2>1
  <2>3. Best(h, open, In("done"))
    BY <2>1, <2>2
  <2>4. h \in loop.read /\ ~Gated(h, clock) /\ h.deps \subseteq In("done") /\ h \in Item
        /\ h.id \in Task
    BY <2>3 DEF Best, IInv, TypeOK, Item
  <2>5. \A i \in loop.read : ~Gated(i, clock) /\ i.deps \subseteq In("done") => ~Before(i, h)
    BY <2>3 DEF Best
  <2>6. loop' = [pc |-> "begin", todo |-> {}, read |-> loop.read, pick |-> h.id]
    BY <1>1, <1>3, <2>2 DEF IInv, Shape
  <2> HIDE DEF h
  <2>7. ComesFirst(h.id)
    <3> SUFFICES ASSUME Settled(h.id)
                 PROVE  /\ Startable(h.id)
                        /\ \A u \in Task : Settled(u) /\ Startable(u) =>
                                             ~Before(ItemOf(u), ItemOf(h.id))
      BY DEF ComesFirst
    <3>1. place[h.id] = "pending" /\ h = Parsed(Plain(h.id)) /\ ~h.copied
      <4>1. h.id \in Task \ touched /\ copy[h.id] = NULL
        BY <2>4 DEF Settled
      <4> QED
        BY <1>1, <2>4, <4>1 DEF IInv, Known
    <3>2. /\ h.prio = spec[h.id].prio /\ h.deps = spec[h.id].deps
          /\ h.eligible = spec[h.id].eligible
      BY <3>1 DEF Parsed, Plain
    <3>3. clock \in Int /\ spec[h.id].eligible \in Int
      BY <2>4 DEF IInv, TypeOK, Fields
    <3>4. Startable(h.id)
      BY <2>4, <3>1, <3>2, <3>3 DEF Startable, Gated
    <3>5. ASSUME NEW u \in Task, Settled(u), Startable(u)
          PROVE  ~Before(ItemOf(u), ItemOf(h.id))
      <4> DEFINE i == Parsed(Plain(u))
      <4>1. u \in Task \ touched /\ place[u] = "pending"
        BY <3>5 DEF Settled, Startable
      <4>2. i \in loop.read
        BY <1>1, <4>1 DEF IInv, Known
      <4>3. /\ i.id = u /\ ~i.copied /\ i.prio = spec[u].prio /\ i.deps = spec[u].deps
            /\ i.eligible = spec[u].eligible
        BY DEF Parsed, Plain
      <4>4. clock \in Int /\ spec[u].eligible \in Int
        BY DEF IInv, TypeOK, Fields
      <4> HIDE DEF i
      <4>5. ~Before(i, h)
        BY <2>5, <3>5, <4>2, <4>3, <4>4 DEF Startable, Gated
      <4> QED
        BY <3>1, <3>2, <4>3, <4>5 DEF Before, ByName, ItemOf
    <3> QED
      BY <3>4, <3>5
  <2>9. PICK t : t = h.id
    OBVIOUS
  <2>8. ComesFirst(t)'
    <3>1. ComesFirst(t)
      BY <2>7, <2>9
    <3> QED
      BY <1>1, <3>1
      DEF ComesFirst, Settled, Startable, ItemOf, In, Before, ByName
  <2>10. Chosen'
    <3>1. loop'.pick = t
      BY <2>6, <2>9
    <3> QED
      BY <2>8, <3>1 DEF Chosen, ComesFirst, Settled, Startable, ItemOf
  <2>11. /\ loop'.pc = "begin" /\ loop'.todo = {} /\ loop'.read = loop.read
         /\ loop'.pick = t /\ t \in Task
         /\ loop' = [pc |-> loop'.pc, todo |-> loop'.todo, read |-> loop'.read,
                     pick |-> loop'.pick]
    BY <2>4, <2>6, <2>9
  <2>12. UNCHANGED <<place, spec, copy, clock, touched, events>>
    BY <1>1
  <2>13. TypeOK'
    BY <2>11, <2>12 DEF IInv, TypeOK
  <2> QED
    BY <2>10, <2>11, <2>13 DEF IInv, Shape, ReadOnce, Distinct, Known
<1> QED
  BY <1>2, <1>3

LEMMA BeginKeeps == ASSUME IInv, Begin PROVE IInv'
<1>1. /\ loop.pc = "begin" /\ UNCHANGED <<spec, copy, clock, touched, events>>
      /\ place' \in [Task -> Place] /\ loop.pick \in Task
      /\ loop' = [loop EXCEPT !.pc = "run", !.read = {}] \/ loop' = Idle
  BY DEF Begin, WithoutFile, IInv, TypeOK, Place
<1>2. CASE loop' = Idle
  <2>1. TypeOK /\ touched' \subseteq Task /\ events' \in 0..MaxEvents
        /\ spec' \in [Task -> Fields] /\ copy' \in [Task -> Fields \cup {NULL}]
    BY <1>1 DEF IInv, TypeOK
  <2> QED
    BY <1>1, <1>2, <2>1, AtRest
<1>3. CASE loop' = [loop EXCEPT !.pc = "run", !.read = {}]
  <2>1. loop' = [pc |-> "run", todo |-> loop.todo, read |-> {}, pick |-> loop.pick]
    BY <1>3 DEF IInv, Shape
  <2>2. ReadOnce'
    BY <2>1, FS_EmptySet DEF ReadOnce, Distinct
  <2> QED
    BY <1>1, <2>1, <2>2 DEF IInv, TypeOK, Shape, Known, Chosen
<1> QED
  BY <1>1, <1>2, <1>3

LEMMA FinishKeeps == ASSUME IInv, Finish PROVE IInv'
<1>1. /\ UNCHANGED <<spec, copy, clock, touched, events>>
      /\ place' \in [Task -> Place] /\ loop' = Idle
  BY DEF Finish, IInv, TypeOK, Place
<1>2. TypeOK /\ touched' \subseteq Task /\ events' \in 0..MaxEvents
      /\ spec' \in [Task -> Fields] /\ copy' \in [Task -> Fields \cup {NULL}]
  BY <1>1 DEF IInv, TypeOK
<1> QED
  BY <1>1, <1>2, AtRest

\* What the others change they touch.
LEMMA OthersTouch ==
  ASSUME IInv, ClockPasses \/ (Event /\ ~Restart)
  PROVE  /\ TypeOK' /\ loop' = loop /\ touched \subseteq touched'
         /\ \A t \in Task \ touched' :
              place'[t] = place[t] /\ spec'[t] = spec[t] /\ copy'[t] = copy[t]
         /\ clock <= clock'
         /\ \A t \in Task \ touched' : spec[t].eligible <= clock' => spec[t].eligible <= clock
<1>1. TypeOK /\ clock \in {0, 1} /\ \A t \in Task : spec[t].eligible \in {0, 1}
  BY DEF IInv, TypeOK, Fields
<1>2. CASE ClockPasses
  BY <1>1, <1>2 DEF ClockPasses, TypeOK
<1>3. CASE Event /\ ~Restart
  <2>1. PICK t \in Task : Move(t) \/ Put(t) \/ Conflict(t)
    BY <1>3 DEF Event
  <2>2. events' \in 0..MaxEvents
    BY <1>1, <1>3, RunOrderAssumption DEF Event, TypeOK
  <2>3. /\ place' \in [Task -> Place] /\ spec' \in [Task -> Fields]
        /\ copy' \in [Task -> Fields \cup {NULL}] /\ clock' = clock /\ loop' = loop
        /\ touched' = touched \cup {t}
        /\ \A u \in Task \ {t} :
             place'[u] = place[u] /\ spec'[u] = spec[u] /\ copy'[u] = copy[u]
    <3>1. CASE Move(t)
      BY <1>1, <3>1 DEF Move, TypeOK
    <3>2. CASE Put(t)
      <4>1. PICK s \in Wishes[t] : spec' = [spec EXCEPT ![t] = s]
        BY <3>2 DEF Put
      <4>2. s \in Fields /\ "pending" \in Place
        BY <4>1, RunOrderAssumption DEF Place
      <4>3. place' = [place EXCEPT ![t] = "pending"] /\ touched' = touched \cup {t}
            /\ UNCHANGED <<copy, clock, loop>>
        BY <3>2 DEF Put
      <4>4. /\ place \in [Task -> Place] /\ spec \in [Task -> Fields]
            /\ copy \in [Task -> Fields \cup {NULL}]
        BY <1>1 DEF TypeOK
      <4> HIDE DEF Fields, Place
      <4> QED
        BY <4>1, <4>2, <4>3, <4>4
    <3>3. CASE Conflict(t)
      BY <1>1, <3>3 DEF Conflict, TypeOK, Place
    <3> QED
      BY <2>1, <3>1, <3>2, <3>3
  <2> QED
    BY <1>1, <2>2, <2>3 DEF TypeOK
<1> QED
  BY <1>2, <1>3

LEMMA OthersKeep == ASSUME IInv, ClockPasses \/ (Event /\ ~Restart) PROVE IInv'
<1>1. /\ TypeOK' /\ loop' = loop /\ touched \subseteq touched'
      /\ \A t \in Task \ touched' :
           place'[t] = place[t] /\ spec'[t] = spec[t] /\ copy'[t] = copy[t]
      /\ clock <= clock'
      /\ \A t \in Task \ touched' : spec[t].eligible <= clock' => spec[t].eligible <= clock
  BY OthersTouch
<1>2. TypeOK
  BY DEF IInv
<1>3. Known'
  <2> SUFFICES ASSUME loop.pc = "read", NEW t \in Task \ touched'
               PROVE  /\ place'[t] = "pending" =>
                           Plain(t) \in loop.todo \/ Parsed(Plain(t))' \in loop.read
                      /\ \A i \in loop.read : i.id = t =>
                           IF i.copied THEN copy'[t] # NULL
                           ELSE place'[t] = "pending" /\ i = Parsed(Plain(t))'
    BY <1>1 DEF Known, Plain
  <2>1. Parsed(Plain(t))' = Parsed(Plain(t))
    BY <1>1 DEF Parsed, Plain
  <2>2. t \in Task \ touched /\ place'[t] = place[t] /\ copy'[t] = copy[t]
    BY <1>1
  <2>3. /\ place[t] = "pending" => Plain(t) \in loop.todo \/ Parsed(Plain(t)) \in loop.read
        /\ \A i \in loop.read : i.id = t =>
             IF i.copied THEN copy[t] # NULL
             ELSE place[t] = "pending" /\ i = Parsed(Plain(t))
    <3>1. Known
      BY DEF IInv
    <3> QED
      BY <2>2, <3>1, Zenon DEF Known
  <2> QED
    BY <2>1, <2>2, <2>3
<1>4. ASSUME NEW t \in Task, Settled(t)'
      PROVE  /\ Settled(t) /\ spec'[t] = spec[t]
             /\ Startable(t)' => Startable(t)
             /\ Startable(t) => Startable(t)'
  <2>1. t \in Task \ touched' /\ spec'[t] = spec[t] /\ copy'[t] = NULL
        /\ spec[t].deps \subseteq Task \ touched'
    BY <1>1, <1>4 DEF Settled
  <2>2. place'[t] = place[t] /\ copy[t] = NULL
        /\ \A d \in spec[t].deps : d \in Task /\ place'[d] = place[d]
    BY <1>1, <2>1
  <2>3. Settled(t)
    BY <1>1, <2>1, <2>2 DEF Settled
  <2>4. spec[t].eligible \in Int /\ clock \in Int /\ clock' \in Int
    BY <1>1, <1>2 DEF TypeOK, Fields
  <2>5. spec[t].eligible <= clock <=> spec[t].eligible <= clock'
    BY <1>1, <2>1, <2>4
  <2> QED
    BY <2>1, <2>2, <2>3, <2>5 DEF Startable, In
<1>5. ASSUME NEW t \in Task, ComesFirst(t)
      PROVE  ComesFirst(t)'
  <2> SUFFICES ASSUME Settled(t)'
               PROVE  /\ Startable(t)'
                      /\ \A u \in Task : Settled(u)' /\ Startable(u)' =>
                                           ~Before(ItemOf(u), ItemOf(t))'
    BY DEF ComesFirst
  <2>1. Settled(t) /\ Startable(t)' /\ spec'[t] = spec[t]
    BY <1>4, <1>5 DEF ComesFirst
  <2>2. ASSUME NEW u \in Task, Settled(u)', Startable(u)'
        PROVE  ~Before(ItemOf(u), ItemOf(t))'
    <3>1. Settled(u) /\ Startable(u) /\ spec'[u] = spec[u]
      BY <1>4, <2>2
    <3>2. ~Before(ItemOf(u), ItemOf(t))
      BY <1>5, <2>1, <3>1 DEF ComesFirst
    <3> QED
      BY <2>1, <3>1, <3>2 DEF Before, ByName, ItemOf
  <2> QED
    BY <2>1, <2>2
<1>6. Chosen'
  <2> SUFFICES ASSUME loop.pc = "begin" PROVE ComesFirst(loop.pick)'
    BY <1>1 DEF Chosen
  <2>1. loop.pick \in Task /\ ComesFirst(loop.pick)
    BY DEF IInv, TypeOK, Chosen
  <2>2. PICK t \in Task : t = loop.pick /\ t = loop'.pick
    BY <1>1, <2>1
  <2>3. ComesFirst(t)'
    BY <1>5, <2>1, <2>2
  <2> QED
    BY <2>2, <2>3 DEF ComesFirst, Settled, Startable, ItemOf
<1> QED
  BY <1>1, <1>3, <1>6 DEF IInv, Shape, ReadOnce, Distinct

LEMMA RestartKeeps == ASSUME IInv, Event, Restart PROVE IInv'
<1>1. /\ UNCHANGED <<spec, copy, clock, touched>> /\ loop' = Starting
      /\ place' \in [Task -> Place] /\ events' \in 0..MaxEvents
  BY RunOrderAssumption DEF Event, Restart, IInv, TypeOK, Place
<1>2. TypeOK /\ touched' \subseteq Task
      /\ spec' \in [Task -> Fields] /\ copy' \in [Task -> Fields \cup {NULL}]
  BY <1>1 DEF IInv, TypeOK
<1> QED
  BY <1>1, <1>2, AtRest

LEMMA NextInv == IInv /\ [Next]_vars => IInv'
<1> SUFFICES ASSUME IInv, [Next]_vars PROVE IInv'
  OBVIOUS
<1>1. CASE UNCHANGED vars
  BY <1>1 DEF vars, IInv, TypeOK, Shape, ReadOnce, Distinct, Known, Chosen, ComesFirst,
              Settled, Startable, ItemOf, In, Before, ByName, Parsed, Plain
<1> QED
  BY <1>1, ReconcileKeeps, ListKeeps, ReadKeeps, SelectKeeps, BeginKeeps, FinishKeeps,
     OthersKeep, RestartKeeps DEF Next, Step

-----------------------------------------------------------------------------
\* The runner only ever holds tasks there are, and files of pending/ it read.
THEOREM TypesHold == Spec => []TypeOK
<1>1. IInv => TypeOK
  BY DEF IInv
<1> QED
  BY <1>1, InitInv, NextInv, PTL DEF Spec

LEMMA SelectedRight == IInv => OrderCorrect
<1> SUFFICES ASSUME IInv, loop.pc = "read", loop.todo = {} PROVE OrderCorrect
  BY DEF OrderCorrect
<1> DEFINE done == In("done")
           order == Resolve(loop.read, done, clock)
           open == {i \in loop.read : ~Gated(i, clock)}
<1>1. /\ order \in Seq(Item) /\ NoRepeat(order) /\ ToSet(order) \subseteq open
      /\ ClosedIn(ToSet(order), open, done)
      /\ \A S \in SUBSET open : ClosedIn(S, open, done) => ToSet(order) \subseteq S
      /\ \A n \in DOMAIN order :
           order[n].deps \subseteq done \cup Ids({order[m] : m \in 1..(n - 1)})
  <2>1. RightOrder(order, open, done)
    BY SelectOrder, Zenon
  <2> HIDE DEF order, open, done
  <2> QED
    BY <2>1, Zenon DEF RightOrder
<1> HIDE DEF order, open, done
<1>2. ToSet(order) = {i \in open : \A S \in SUBSET open : ClosedIn(S, open, done) => i \in S}
  BY <1>1
<1>3. Len(order) = Cardinality(ToSet(order))
  <2>1. Len(order) \in Nat /\ DOMAIN order = 1..Len(order)
    BY <1>1
  <2>2. IsFiniteSet(1..Len(order)) /\ Cardinality(1..Len(order)) = Len(order)
    <3>1. 1 \in Int /\ Len(order) \in Int
      BY <2>1
    <3>2. /\ IsFiniteSet(1..Len(order))
          /\ Cardinality(1..Len(order)) = IF 1 > Len(order) THEN 0 ELSE Len(order) - 1 + 1
      BY <3>1, FS_Interval, Zenon
    <3> QED
      BY <2>1, <3>2
  <2>3. order \in [1..Len(order) -> ToSet(order)]
    BY <1>1, <2>1 DEF ToSet
  <2>4. order \in Surjection(1..Len(order), ToSet(order))
    BY <2>1, <2>3 DEF Surjection, ToSet
  <2>5. order \in Injection(1..Len(order), ToSet(order))
    BY <1>1, <2>1, <2>3 DEF Injection, IsInjective, NoRepeat
  <2> QED
    BY <2>2, <2>4, <2>5, FS_Surjection
<1>4. \A n \in 1..Len(order) :
        order[n].deps \subseteq done \cup Ids({order[m] : m \in 1..(n - 1)})
  <2>1. DOMAIN order = 1..Len(order)
    BY <1>1
  <2> QED
    BY <1>1, <2>1
<1> QED
  BY <1>2, <1>3, <1>4, Zenon DEF OrderCorrect, ClosedIn, Ids, order, open, done

\* Whatever the fields of the files that were read, resolve_run_order returns
\* the tasks that can run in this cycle, each once, after its dependencies.
THEOREM OrdersCorrect == Spec => []OrderCorrect
<1> QED
  BY InitInv, NextInv, SelectedRight, PTL DEF Spec

\* Whatever users, restarts and the synchronising tool do while the runner
\* looks, the task it begins was the best of those they left alone.
THEOREM BestStarts == Spec => StartsBest
<1> DEFINE First == loop.pc = "begin" /\ loop'.pc = "run" =>
                      LET t == loop.pick
                      IN Settled(t) =>
                           /\ Startable(t)
                           /\ \A u \in Task : Settled(u) /\ Startable(u)
                                                => ~Before(ItemOf(u), ItemOf(t))
<1>1. IInv => [First]_vars
  BY Zenon DEF IInv, Chosen, ComesFirst
<1> QED
  BY <1>1, InitInv, NextInv, PTL DEF Spec, StartsBest
=============================================================================
