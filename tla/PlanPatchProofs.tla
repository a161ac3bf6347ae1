-------------------------- MODULE PlanPatchProofs --------------------------
(***************************************************************************)
(* What the patch operations of PlanPatch do to the ids and the completed  *)
(* milestones of any plan, however long.                                   *)
(***************************************************************************)
EXTENDS PlanPatch, TLAPS, WellFoundedInduction, SequenceTheorems

\* A non-empty set of natural numbers has a least element.
LEMMA LeastExists ==
    ASSUME NEW T, T \subseteq Nat, T # {}
    PROVE  Min(T) \in T
<1>1. \E x \in T : \A y \in T : ~ (<<y, x>> \in OpToRel(<, Nat))
  BY NatLessThanWellFounded, WFMin
<1>2. \E x \in T : \A y \in T : x =< y
  <2>1. PICK x \in T : \A y \in T : ~ (<<y, x>> \in OpToRel(<, Nat))
    BY <1>1
  <2>2. \A y \in T : ~ (y < x)
    BY <2>1 DEF OpToRel
  <2> QED
    BY <2>2
<1> QED
  BY <1>2 DEF Min

\* A non-empty set of numbers up to n has a greatest element.
LEMMA GreatestExists ==
    ASSUME NEW n \in Nat, NEW T, T \subseteq 1..n, T # {}
    PROVE  Max(T) \in T
<1> DEFINE U == {k \in Nat : n - k \in T}
<1>1. U \subseteq Nat /\ U # {}
  <2>1. PICK i \in T : TRUE
    OBVIOUS
  <2>2. i \in 1..n
    BY <2>1
  <2>3. n - i \in Nat /\ n - (n - i) = i
    BY <2>2
  <2>4. n - i \in U
    BY <2>1, <2>3
  <2> QED
    BY <2>4
<1> HIDE DEF U
<1>2. PICK u \in U : \A v \in U : u =< v
  <2>1. PICK u \in U : \A v \in U : ~ (<<v, u>> \in OpToRel(<, Nat))
    BY <1>1, NatLessThanWellFounded, WFMin
  <2>2. \A v \in U : ~ (v < u)
    BY <1>1, <2>1 DEF OpToRel
  <2> QED
    BY <1>1, <2>2
<1>3. u \in Nat /\ n - u \in T
  BY DEF U
<1>4. ASSUME NEW j \in T PROVE n - u >= j
  <2>1. j \in 1..n /\ n - j \in Nat /\ n - (n - j) = j
    OBVIOUS
  <2>2. n - j \in U
    BY <2>1 DEF U
  <2> QED
    BY <1>2, <1>3, <2>1, <2>2
<1> QED
  BY <1>3, <1>4 DEF Max

\* The first and the last milestone with an id of the plan have that id.
LEMMA Positions ==
    ASSUME NEW ms \in Seq(Milestone), NEW x \in IdsOf(ms)
    PROVE  /\ FirstAt(ms, x) \in DOMAIN ms /\ ms[FirstAt(ms, x)].id = x
           /\ LastAt(ms, x) \in DOMAIN ms /\ ms[LastAt(ms, x)].id = x
<1> DEFINE I == {i \in 1..Len(ms) : ms[i].id = x}
<1>1. I # {} /\ I \subseteq Nat /\ I \subseteq 1..Len(ms) /\ Len(ms) \in Nat
  BY DEF IdsOf
<1>2. Min(I) \in I /\ Max(I) \in I
  BY <1>1, LeastExists, GreatestExists
<1>3. FirstAt(ms, x) = Min(I)
  BY <1>1 DEF FirstAt, SelectInSeq
<1>4. LastAt(ms, x) = Max(I)
  BY <1>1 DEF LastAt, SelectLastInSeq
<1> QED
  BY <1>2, <1>3, <1>4

\* If the entries of r are entries of ms, so are its ids; if its completed
\* entries are, so are its completed ids.
LEMMA Embedding ==
    ASSUME NEW r, NEW ms
    PROVE  /\ (\A i \in DOMAIN r : \E j \in DOMAIN ms : ms[j] = r[i])
                => IdsOf(r) \subseteq IdsOf(ms)
           /\ (\A i \in DOMAIN r : r[i].done => \E j \in DOMAIN ms : ms[j] = r[i])
                => DoneIds(r) \subseteq DoneIds(ms)
<1>1. ASSUME \A i \in DOMAIN r : \E j \in DOMAIN ms : ms[j] = r[i]
      PROVE  IdsOf(r) \subseteq IdsOf(ms)
  BY <1>1 DEF IdsOf
<1>2. ASSUME \A i \in DOMAIN r : r[i].done => \E j \in DOMAIN ms : ms[j] = r[i]
      PROVE  DoneIds(r) \subseteq DoneIds(ms)
  BY <1>2 DEF DoneIds
<1> QED
  BY <1>1, <1>2

\* Completed ids are ids of the plan, and ids of the plan are ids.
LEMMA IdsOfMilestones ==
    ASSUME NEW ms \in Seq(Milestone)
    PROVE  DoneIds(ms) \subseteq IdsOf(ms) /\ IdsOf(ms) \subseteq Ids
<1>1. \A i \in DOMAIN ms : ms[i].id \in Ids
  <2> SUFFICES ASSUME NEW i \in DOMAIN ms PROVE ms[i].id \in Ids
    OBVIOUS
  <2>1. ms[i] \in Milestone
    OBVIOUS
  <2> QED
    BY <2>1 DEF Milestone
<1> QED
  BY <1>1 DEF DoneIds, IdsOf

\* The parts of a plan before and from a position.
LEMMA Parts ==
    ASSUME NEW S, NEW s \in Seq(S), NEW p \in 1..(Len(s) + 1)
    PROVE  /\ SubSeq(s, 1, p - 1) \in Seq(S) /\ Len(SubSeq(s, 1, p - 1)) = p - 1
           /\ \A j \in 1..(p - 1) : SubSeq(s, 1, p - 1)[j] = s[j]
           /\ SubSeq(s, p, Len(s)) \in Seq(S) /\ Len(SubSeq(s, p, Len(s))) = Len(s) - p + 1
           /\ \A j \in 1..(Len(s) - p + 1) : SubSeq(s, p, Len(s))[j] = s[p + j - 1]
<1>1. Len(s) \in Nat /\ \A i \in 1..Len(s) : s[i] \in S
  BY ElementOfSeq
<1>2. p \in Int /\ p - 1 \in Int /\ 1..(p - 1) \subseteq 1..Len(s) /\ p..Len(s) \subseteq 1..Len(s)
  BY <1>1
<1>3. /\ SubSeq(s, 1, p - 1) \in Seq(S)
      /\ Len(SubSeq(s, 1, p - 1)) = IF 1 <= p - 1 THEN p - 1 - 1 + 1 ELSE 0
      /\ \A j \in 1..(p - 1 - 1 + 1) : SubSeq(s, 1, p - 1)[j] = s[1 + j - 1]
  <2>1. \A i \in 1..(p - 1) : s[i] \in S
    BY <1>1, <1>2
  <2> QED
    BY <1>2, <2>1, SubSeqProperties
<1>4. /\ SubSeq(s, p, Len(s)) \in Seq(S)
      /\ Len(SubSeq(s, p, Len(s))) = IF p <= Len(s) THEN Len(s) - p + 1 ELSE 0
      /\ \A j \in 1..(Len(s) - p + 1) : SubSeq(s, p, Len(s))[j] = s[p + j - 1]
  <2>1. \A i \in p..Len(s) : s[i] \in S
    BY <1>1, <1>2
  <2> QED
    BY <1>1, <1>2, <2>1, SubSeqProperties
<1>5. \A j \in 1..(p - 1) : j \in 1..(p - 1 - 1 + 1) /\ 1 + j - 1 = j
  OBVIOUS
<1> QED
  BY <1>1, <1>3, <1>4, <1>5

\* What an insertion returns: the new milestone behind the last one that has the
\* id, and the others in their order.
LEMMA InsertedAt ==
    ASSUME NEW ms \in Seq(Milestone), NEW after \in Ids, NEW new \in Ids,
           CanInsert(ms, after, new)
    PROVE  LET p == LastAt(ms, after) + 1
               r == InsertMilestone(ms, after, new)
           IN  /\ p \in 1..(Len(ms) + 1) /\ r \in Seq(Milestone) /\ Len(r) = Len(ms) + 1
               /\ \A i \in DOMAIN r :
                     r[i] = IF i < p THEN ms[i] ELSE IF i = p THEN Todo(new) ELSE ms[i - 1]
<1> DEFINE p == LastAt(ms, after) + 1
           r == InsertMilestone(ms, after, new)
           s == SubSeq(ms, 1, p - 1)
           t == SubSeq(ms, p, Len(ms))
           n == <<Todo(new)>>
<1>1. p \in 1..(Len(ms) + 1) /\ Len(ms) \in Nat /\ DOMAIN ms = 1..Len(ms)
  <2>1. LastAt(ms, after) \in 1..Len(ms)
    BY Positions DEF CanInsert
  <2> QED
    BY <2>1
<1>2. Todo(new) \in Milestone /\ Todo(new).id = new /\ Todo(new).done = FALSE
  BY DEF Todo, Milestone
<1> HIDE DEF p
<1>3. r = s \o n \o t
  BY DEF InsertMilestone, InsertAt, p
<1>4. /\ s \in Seq(Milestone) /\ Len(s) = p - 1 /\ \A j \in 1..(p - 1) : s[j] = ms[j]
      /\ t \in Seq(Milestone) /\ Len(t) = Len(ms) - p + 1
      /\ \A j \in 1..(Len(ms) - p + 1) : t[j] = ms[p + j - 1]
  BY <1>1, Parts
<1>5. n \in Seq(Milestone) /\ Len(n) = 1 /\ n[1] = Todo(new)
  BY <1>2
<1> HIDE DEF r, s, t, n
<1>6. /\ s \o n \in Seq(Milestone) /\ Len(s \o n) = p
      /\ \A j \in 1..p : (s \o n)[j] = IF j < p THEN ms[j] ELSE Todo(new)
  <2>1. /\ s \o n \in Seq(Milestone) /\ Len(s \o n) = Len(s) + Len(n)
        /\ \A i \in 1..(Len(s) + Len(n)) :
              (s \o n)[i] = IF i <= Len(s) THEN s[i] ELSE n[i - Len(s)]
    BY <1>4, <1>5, ConcatProperties
  <2> QED
    BY <1>1, <1>4, <1>5, <2>1
<1>7. /\ r \in Seq(Milestone) /\ Len(r) = Len(s \o n) + Len(t)
      /\ \A i \in 1..(Len(s \o n) + Len(t)) :
            r[i] = IF i <= Len(s \o n) THEN (s \o n)[i] ELSE t[i - Len(s \o n)]
  BY <1>3, <1>4, <1>6, ConcatProperties
<1>8. Len(r) = Len(ms) + 1 /\ DOMAIN r = 1..(Len(ms) + 1)
  BY <1>1, <1>4, <1>6, <1>7
<1>9. \A i \in DOMAIN r : r[i] = IF i < p THEN ms[i] ELSE IF i = p THEN Todo(new) ELSE ms[i - 1]
  <2> SUFFICES ASSUME NEW i \in DOMAIN r
               PROVE  r[i] = IF i < p THEN ms[i] ELSE IF i = p THEN Todo(new) ELSE ms[i - 1]
    OBVIOUS
  <2>1. CASE i <= p
    <3>1. i \in 1..p /\ i \in 1..(Len(s \o n) + Len(t)) /\ i <= Len(s \o n)
      BY <1>1, <1>4, <1>6, <1>8, <2>1
    <3>2. r[i] = (s \o n)[i]
      BY <1>7, <3>1
    <3> QED
      BY <1>1, <1>6, <2>1, <3>1, <3>2
  <2>2. CASE i > p
    <3>1. i - p \in 1..(Len(ms) - p + 1) /\ p + (i - p) - 1 = i - 1
      BY <1>1, <1>8, <2>2
    <3>2. r[i] = t[i - p]
      BY <1>1, <1>4, <1>6, <1>7, <1>8, <2>2
    <3>3. t[i - p] = ms[p + (i - p) - 1]
      BY <1>4, <3>1
    <3> QED
      BY <1>1, <1>8, <2>2, <3>1, <3>2, <3>3
  <2> QED
    BY <1>1, <1>8, <2>1, <2>2
<1> QED
  BY <1>1, <1>7, <1>8, <1>9 DEF r, p

\* An inserted milestone is pending: the ids grow by its id, what is completed
\* stays as it was, and ids stay unique.
LEMMA Inserting ==
    ASSUME NEW ms \in Seq(Milestone), NEW after \in Ids, NEW new \in Ids,
           CanInsert(ms, after, new)
    PROVE  /\ InsertMilestone(ms, after, new) \in Seq(Milestone)
           /\ IdsOf(InsertMilestone(ms, after, new)) = IdsOf(ms) \cup {new}
           /\ DoneIds(InsertMilestone(ms, after, new)) = DoneIds(ms)
           /\ UniqueIds(ms) => UniqueIds(InsertMilestone(ms, after, new))
<1> DEFINE p == LastAt(ms, after) + 1
           r == InsertMilestone(ms, after, new)
<1>0. /\ p \in 1..(Len(ms) + 1) /\ r \in Seq(Milestone) /\ Len(r) = Len(ms) + 1
      /\ \A i \in DOMAIN r :
            r[i] = IF i < p THEN ms[i] ELSE IF i = p THEN Todo(new) ELSE ms[i - 1]
  BY InsertedAt
<1> HIDE DEF p, r
<1>1. p \in 1..(Len(ms) + 1) /\ Len(ms) \in Nat /\ DOMAIN ms = 1..Len(ms)
  BY <1>0
<1>2. Todo(new) \in Milestone /\ Todo(new).id = new /\ Todo(new).done = FALSE
  BY DEF Todo, Milestone
<1>8. Len(r) = Len(ms) + 1 /\ DOMAIN r = 1..(Len(ms) + 1)
  BY <1>0, <1>1
<1>9. \A i \in DOMAIN r : r[i] = IF i < p THEN ms[i] ELSE IF i = p THEN Todo(new) ELSE ms[i - 1]
  BY <1>0
<1>10. \A i \in DOMAIN ms : \E j \in DOMAIN r : r[j] = ms[i]
  <2> SUFFICES ASSUME NEW i \in DOMAIN ms PROVE \E j \in DOMAIN r : r[j] = ms[i]
    OBVIOUS
  <2>1. CASE i < p
    BY <1>1, <1>8, <1>9, <2>1
  <2>2. CASE i >= p
    <3>1. i + 1 \in DOMAIN r /\ r[i + 1] = ms[i]
      BY <1>1, <1>8, <1>9, <2>2
    <3> QED
      BY <3>1
  <2> QED
    BY <1>1, <2>1, <2>2
<1>11. \A i \in DOMAIN r : r[i] = Todo(new) \/ \E j \in DOMAIN ms : ms[j] = r[i]
  <2> SUFFICES ASSUME NEW i \in DOMAIN r, i # p PROVE \E j \in DOMAIN ms : ms[j] = r[i]
    BY <1>9, <1>1, <1>8
  <2>1. CASE i < p
    BY <1>1, <1>8, <1>9, <2>1
  <2>2. CASE i > p
    <3>1. i - 1 \in DOMAIN ms /\ r[i] = ms[i - 1]
      BY <1>1, <1>8, <1>9, <2>2
    <3> QED
      BY <3>1
  <2> QED
    BY <1>1, <1>8, <2>1, <2>2
<1>12. p \in DOMAIN r /\ r[p] = Todo(new)
  BY <1>1, <1>8, <1>9
<1>13. IdsOf(r) = IdsOf(ms) \cup {new}
  <2>1. IdsOf(ms) \subseteq IdsOf(r)
    BY <1>10, Embedding
  <2>2. new \in IdsOf(r)
    BY <1>2, <1>12 DEF IdsOf
  <2>3. IdsOf(r) \subseteq IdsOf(ms) \cup {new}
    BY <1>2, <1>11 DEF IdsOf
  <2> QED
    BY <2>1, <2>2, <2>3
<1>14. DoneIds(r) = DoneIds(ms)
  <2>1. \A i \in DOMAIN r : r[i].done => \E j \in DOMAIN ms : ms[j] = r[i]
    BY <1>2, <1>11
  <2>2. DoneIds(r) \subseteq DoneIds(ms)
    BY <2>1, Embedding
  <2>3. DoneIds(ms) \subseteq DoneIds(r)
    BY <1>10, Embedding
  <2> QED
    BY <2>2, <2>3
<1>15. ASSUME UniqueIds(ms) PROVE UniqueIds(r)
  <2> SUFFICES ASSUME NEW i \in DOMAIN r, NEW j \in DOMAIN r, r[i].id = r[j].id PROVE i = j
    BY DEF UniqueIds
  <2> DEFINE from(k) == IF k < p THEN k ELSE k - 1
  <2>1. \A k \in DOMAIN r : k # p => from(k) \in DOMAIN ms /\ r[k] = ms[from(k)]
    BY <1>1, <1>8, <1>9
  <2>2. \A k \in DOMAIN r : k # p => r[k].id # new
    BY <2>1 DEF CanInsert, IdsOf
  <2>3. CASE i = p \/ j = p
    BY <1>2, <1>12, <2>2, <2>3
  <2>4. CASE i # p /\ j # p
    <3>1. from(i) = from(j)
      BY <1>15, <2>1, <2>4 DEF UniqueIds
    <3> QED
      BY <1>1, <1>8, <2>4, <3>1
  <2> QED
    BY <2>3, <2>4
<1> QED
  BY <1>0, <1>13, <1>14, <1>15 DEF r

\* What a removal returns: the others in their order.
LEMMA RemovedAt ==
    ASSUME NEW ms \in Seq(Milestone), NEW x \in Ids, Editable(ms, x)
    PROVE  LET p == LastAt(ms, x)
               r == RemoveMilestone(ms, x)
           IN  /\ p \in 1..Len(ms) /\ ~ms[p].done
               /\ r \in Seq(Milestone) /\ Len(r) = Len(ms) - 1
               /\ \A i \in DOMAIN r : r[i] = IF i < p THEN ms[i] ELSE ms[i + 1]
<1> DEFINE p == LastAt(ms, x)
           r == RemoveMilestone(ms, x)
           s == SubSeq(ms, 1, p - 1)
           t == SubSeq(ms, p + 1, Len(ms))
<1>1. p \in 1..Len(ms) /\ Len(ms) \in Nat /\ DOMAIN ms = 1..Len(ms) /\ ~ms[p].done
  BY Positions DEF Editable
<1> HIDE DEF p
<1>2. r = s \o t
  BY DEF RemoveMilestone, RemoveAt, p
<1>3. /\ s \in Seq(Milestone) /\ Len(s) = p - 1 /\ \A j \in 1..(p - 1) : s[j] = ms[j]
  BY <1>1, Parts
<1>4. /\ t \in Seq(Milestone) /\ Len(t) = Len(ms) - p
      /\ \A j \in 1..(Len(ms) - p) : t[j] = ms[p + j]
  <2>1. p + 1 \in 1..(Len(ms) + 1) /\ Len(ms) - (p + 1) + 1 = Len(ms) - p
        /\ \A j \in 1..(Len(ms) - p) : p + 1 + j - 1 = p + j
    BY <1>1
  <2>2. /\ t \in Seq(Milestone) /\ Len(t) = Len(ms) - (p + 1) + 1
        /\ \A j \in 1..(Len(ms) - (p + 1) + 1) : t[j] = ms[p + 1 + j - 1]
    BY <2>1, Parts
  <2> HIDE DEF t
  <2> QED
    BY <2>1, <2>2
<1> HIDE DEF r, s, t
<1>5. /\ r \in Seq(Milestone) /\ Len(r) = Len(s) + Len(t)
      /\ \A i \in 1..(Len(s) + Len(t)) : r[i] = IF i <= Len(s) THEN s[i] ELSE t[i - Len(s)]
  BY <1>2, <1>3, <1>4, ConcatProperties
<1>6. Len(r) = Len(ms) - 1 /\ DOMAIN r = 1..(Len(ms) - 1)
  BY <1>1, <1>3, <1>4, <1>5
<1>7. \A i \in DOMAIN r : r[i] = IF i < p THEN ms[i] ELSE ms[i + 1]
  <2> SUFFICES ASSUME NEW i \in DOMAIN r PROVE r[i] = IF i < p THEN ms[i] ELSE ms[i + 1]
    OBVIOUS
  <2>1. CASE i < p
    <3>1. i \in 1..(p - 1) /\ i \in 1..(Len(s) + Len(t)) /\ i <= Len(s)
      BY <1>1, <1>3, <1>4, <1>6, <2>1
    <3>2. r[i] = s[i]
      BY <1>5, <3>1
    <3> QED
      BY <1>3, <2>1, <3>1, <3>2
  <2>2. CASE i >= p
    <3>1. i - (p - 1) \in 1..(Len(ms) - p) /\ p + (i - (p - 1)) = i + 1
      BY <1>1, <1>6, <2>2
    <3>2. i \in 1..(Len(s) + Len(t)) /\ ~(i <= Len(s)) /\ i - Len(s) = i - (p - 1)
      BY <1>1, <1>3, <1>4, <1>6, <2>2
    <3>3. r[i] = t[i - (p - 1)]
      BY <1>5, <3>2
    <3>4. t[i - (p - 1)] = ms[p + (i - (p - 1))]
      BY <1>4, <3>1
    <3> QED
      BY <1>1, <1>6, <2>2, <3>1, <3>3, <3>4
  <2> QED
    BY <1>1, <1>6, <2>1, <2>2
<1> QED
  BY <1>1, <1>5, <1>6, <1>7 DEF r, p

\* Removing an editable milestone removes nothing that is completed, and ids stay
\* unique.
LEMMA Removing ==
    ASSUME NEW ms \in Seq(Milestone), NEW x \in Ids, Editable(ms, x)
    PROVE  /\ RemoveMilestone(ms, x) \in Seq(Milestone)
           /\ IdsOf(RemoveMilestone(ms, x)) \subseteq IdsOf(ms)
           /\ DoneIds(RemoveMilestone(ms, x)) = DoneIds(ms)
           /\ UniqueIds(ms) => UniqueIds(RemoveMilestone(ms, x))
<1> DEFINE p == LastAt(ms, x)
           r == RemoveMilestone(ms, x)
<1>0. /\ p \in 1..Len(ms) /\ ~ms[p].done /\ r \in Seq(Milestone) /\ Len(r) = Len(ms) - 1
      /\ \A i \in DOMAIN r : r[i] = IF i < p THEN ms[i] ELSE ms[i + 1]
  BY RemovedAt
<1> HIDE DEF p, r
<1>1. p \in 1..Len(ms) /\ Len(ms) \in Nat /\ DOMAIN ms = 1..Len(ms) /\ ~ms[p].done
  BY <1>0
<1>6. Len(r) = Len(ms) - 1 /\ DOMAIN r = 1..(Len(ms) - 1)
  BY <1>0, <1>1
<1>7. \A i \in DOMAIN r : r[i] = IF i < p THEN ms[i] ELSE ms[i + 1]
  BY <1>0
<1>8. \A i \in DOMAIN r : \E j \in DOMAIN ms : ms[j] = r[i]
  <2> SUFFICES ASSUME NEW i \in DOMAIN r PROVE \E j \in DOMAIN ms : ms[j] = r[i]
    OBVIOUS
  <2>1. i \in DOMAIN ms /\ i + 1 \in DOMAIN ms
    BY <1>1, <1>6
  <2> QED
    BY <1>7, <2>1
<1>9. \A i \in DOMAIN ms : ms[i].done => \E j \in DOMAIN r : r[j] = ms[i]
  <2> SUFFICES ASSUME NEW i \in DOMAIN ms, i # p PROVE \E j \in DOMAIN r : r[j] = ms[i]
    BY <1>1
  <2>1. CASE i < p
    BY <1>1, <1>6, <1>7, <2>1
  <2>2. CASE i > p
    <3>1. i - 1 \in DOMAIN r /\ r[i - 1] = ms[i]
      BY <1>1, <1>6, <1>7, <2>2
    <3> QED
      BY <3>1
  <2> QED
    BY <1>1, <2>1, <2>2
<1>10. IdsOf(r) \subseteq IdsOf(ms) /\ DoneIds(r) \subseteq DoneIds(ms)
  BY <1>8, Embedding
<1>11. DoneIds(ms) \subseteq DoneIds(r)
  BY <1>9, Embedding
<1>12. ASSUME UniqueIds(ms) PROVE UniqueIds(r)
  <2> SUFFICES ASSUME NEW i \in DOMAIN r, NEW j \in DOMAIN r, r[i].id = r[j].id PROVE i = j
    BY DEF UniqueIds
  <2> DEFINE from(k) == IF k < p THEN k ELSE k + 1
  <2>1. \A k \in DOMAIN r : from(k) \in DOMAIN ms /\ r[k] = ms[from(k)]
    BY <1>1, <1>6, <1>7
  <2>2. from(i) = from(j)
    BY <1>12, <2>1 DEF UniqueIds
  <2> QED
    BY <1>1, <1>6, <2>2
<1> QED
  BY <1>0, <1>10, <1>11, <1>12 DEF r

\* Marking the milestone at one position completed adds its id to the
\* completed ones, and changes nothing else.
LEMMA Marking ==
    ASSUME NEW ms \in Seq(Milestone), NEW i \in DOMAIN ms
    PROVE  LET r == [ms EXCEPT ![i].done = TRUE] IN
           /\ r \in Seq(Milestone)
           /\ IdsOf(r) = IdsOf(ms)
           /\ DoneIds(r) = DoneIds(ms) \cup {ms[i].id}
           /\ UniqueIds(ms) => UniqueIds(r)
           /\ DOMAIN r = DOMAIN ms /\ r[i].id = ms[i].id /\ r[i].done
           /\ \A j \in DOMAIN ms : j # i => r[j] = ms[j]
<1> DEFINE r == [ms EXCEPT ![i].done = TRUE]
<1>1. ms \in [1..Len(ms) -> Milestone] /\ DOMAIN ms = 1..Len(ms) /\ Len(ms) \in Nat
  OBVIOUS
<1>2. \A j \in DOMAIN ms : ms[j] \in Milestone
  BY <1>1
<1>3. DOMAIN r = DOMAIN ms /\ r[i] = [ms[i] EXCEPT !.done = TRUE]
      /\ \A j \in DOMAIN ms : j # i => r[j] = ms[j]
  OBVIOUS
<1>4. r[i] \in Milestone /\ r[i].id = ms[i].id /\ r[i].done = TRUE
  BY <1>2, <1>3 DEF Milestone
<1>5. r \in Seq(Milestone)
  <2>1. r \in [1..Len(ms) -> Milestone]
    BY <1>1, <1>2, <1>3, <1>4
  <2> QED
    BY <1>1, <2>1
<1> HIDE DEF r
<1>6. IdsOf(r) = IdsOf(ms)
  BY ZenonT(40), <1>3, <1>4 DEF IdsOf
<1>7. DoneIds(r) = DoneIds(ms) \cup {ms[i].id}
  BY ZenonT(40), <1>3, <1>4 DEF DoneIds
<1>8. UniqueIds(ms) => UniqueIds(r)
  <2>1. \A j \in DOMAIN ms : r[j].id = ms[j].id
    BY <1>3, <1>4
  <2> QED
    BY <1>3, <2>1 DEF UniqueIds
<1> QED
  BY <1>3, <1>4, <1>5, <1>6, <1>7, <1>8 DEF r
=============================================================================
