------------------------- MODULE EventStreamProofs -------------------------
(***************************************************************************)
(* What EventStream promises a client, proved for any number of events,    *)
(* connections, crashes and any ?since=: nothing is lost between replay    *)
(* and live events, repeats happen only at that seam, and no connection    *)
(* replays what an earlier one delivered.                                  *)
(***************************************************************************)
EXTENDS EventStream, TLAPS, SequenceTheorems, WellFoundedInduction

-----------------------------------------------------------------------------
(* Sequences of frames and lists of subscribers *)

Frame == [id : Int, ev : Nat]
Once(s) == \A i, j \in DOMAIN s : s[i] = s[j] => i = j

LEMMA EventsOfFrames ==
    ASSUME NEW w \in Seq(Frame)
    PROVE  /\ EventsOf(w) \in Seq(Nat) /\ Len(EventsOf(w)) = Len(w)
           /\ \A i \in 1 .. Len(w) : EventsOf(w)[i] = w[i].ev
<1>1. w \in [1 .. Len(w) -> Frame] /\ Len(w) \in Nat /\ DOMAIN w = 1 .. Len(w)
  BY LenProperties
<1>2. \A i \in 1 .. Len(w) : w[i].ev \in Nat
  BY <1>1 DEF Frame
<1>3. [i \in 1 .. Len(w) |-> w[i].ev] \in Seq(Nat)
  BY <1>1, <1>2, IsASeq
<1> QED
  BY <1>1, <1>3 DEF EventsOf

\* Equal sequences of numbers.
LEMMA SameEvents ==
    ASSUME NEW a \in Seq(Nat), NEW b \in Seq(Nat), NEW n \in Nat,
           Len(a) = n, Len(b) = n, \A i \in 1 .. n : a[i] = b[i]
    PROVE  a = b
BY SeqEqual

\* A frame more at the end, a frame less at the front.
LEMMA EventsOfMore ==
    ASSUME NEW w \in Seq(Frame), NEW f \in Frame
    PROVE  EventsOf(Append(w, f)) = Append(EventsOf(w), f.ev)
<1> DEFINE v == Append(w, f)
           a == EventsOf(w)
           b == EventsOf(v)
<1>1. /\ v \in Seq(Frame) /\ Len(w) \in Nat /\ Len(v) = Len(w) + 1
      /\ \A i \in 1 .. Len(w) : v[i] = w[i]
      /\ v[Len(w) + 1] = f
  OBVIOUS
<1>2. f.ev \in Nat
  BY DEF Frame
<1> HIDE DEF v
<1>3. a \in Seq(Nat) /\ Len(a) = Len(w) /\ \A i \in 1 .. Len(w) : a[i] = w[i].ev
  BY EventsOfFrames
<1>4. b \in Seq(Nat) /\ Len(b) = Len(v) /\ \A i \in 1 .. Len(v) : b[i] = v[i].ev
  BY <1>1, EventsOfFrames
<1> HIDE DEF a, b
<1>5. \A i \in 1 .. Len(w) + 1 : b[i] = Append(a, f.ev)[i]
  BY SMTT(30), <1>1, <1>2, <1>3, <1>4
<1>6. Append(a, f.ev) \in Seq(Nat) /\ Len(Append(a, f.ev)) = Len(w) + 1
  BY <1>2, <1>3
<1>7. b = Append(a, f.ev)
  BY <1>1, <1>4, <1>5, <1>6, SameEvents
<1> QED
  BY <1>7 DEF a, b, v

LEMMA EventsOfLess ==
    ASSUME NEW w \in Seq(Frame), w # <<>>
    PROVE  /\ Head(w) \in Frame /\ Tail(w) \in Seq(Frame)
           /\ EventsOf(w) = <<Head(w).ev>> \o EventsOf(Tail(w))
<1> DEFINE v == Tail(w)
           h == Head(w)
           a == EventsOf(w)
           b == EventsOf(v)
<1>1. /\ h \in Frame /\ v \in Seq(Frame) /\ Len(w) \in Nat \ {0} /\ Len(v) = Len(w) - 1
      /\ \A i \in 1 .. Len(w) - 1 : v[i] = w[i + 1]
      /\ w[1] = h
  OBVIOUS
<1>2. h.ev \in Nat
  BY <1>1 DEF Frame
<1> HIDE DEF v, h
<1>3. a \in Seq(Nat) /\ Len(a) = Len(w) /\ \A i \in 1 .. Len(w) : a[i] = w[i].ev
  BY EventsOfFrames
<1>4. b \in Seq(Nat) /\ Len(b) = Len(v) /\ \A i \in 1 .. Len(v) : b[i] = v[i].ev
  BY <1>1, EventsOfFrames
<1> HIDE DEF a, b
<1>5. /\ <<h.ev>> \o b \in Seq(Nat) /\ Len(<<h.ev>> \o b) = Len(w)
      /\ (<<h.ev>> \o b)[1] = h.ev
      /\ \A i \in 2 .. Len(w) : (<<h.ev>> \o b)[i] = b[i - 1]
  BY <1>1, <1>2, <1>4
<1>6. \A i \in 1 .. Len(w) : (<<h.ev>> \o b)[i] = a[i]
  <2>1. \A i \in 2 .. Len(w) : b[i - 1] = w[i].ev
    BY SMTT(30), <1>1, <1>4
  <2>2. \A i \in 1 .. Len(w) : i = 1 \/ i \in 2 .. Len(w)
    BY <1>1
  <2> QED
    BY <1>1, <1>3, <1>5, <2>1, <2>2
<1>7. a = <<h.ev>> \o b
  BY <1>1, <1>3, <1>5, <1>6, SameEvents
<1> QED
  BY <1>1, <1>7 DEF a, b, v, h

\* What stands at the front of a sequence can be moved to the end of the one
\* before it.
LEMMA FirstMoves ==
    ASSUME NEW a \in Seq(Nat), NEW b \in Seq(Nat), NEW e \in Nat
    PROVE  Append(a, e) \o b = a \o (<<e>> \o b)
<1>1. <<e>> \in Seq(Nat) /\ Append(a, e) = a \o <<e>>
  BY AppendIsConcat
<1> QED
  BY <1>1, ConcatAssociative

LEMMA LastJoins ==
    ASSUME NEW a \in Seq(Nat), NEW b \in Seq(Nat), NEW e \in Nat
    PROVE  a \o Append(b, e) = Append(a \o b, e) /\ a \o b \in Seq(Nat)
<1>1. /\ a \o Append(b, e) \in Seq(Nat) /\ Append(a \o b, e) \in Seq(Nat)
      /\ Len(a \o Append(b, e)) = Len(a) + Len(b) + 1
      /\ Len(Append(a \o b, e)) = Len(a) + Len(b) + 1
      /\ Len(a) + Len(b) + 1 \in Nat
  OBVIOUS
<1>2. \A i \in 1 .. Len(a) + Len(b) + 1 : (a \o Append(b, e))[i] = Append(a \o b, e)[i]
  OBVIOUS
<1> QED
  BY <1>1, <1>2, SameEvents

LEMMA InConcat ==
    ASSUME NEW a \in Seq(Nat), NEW b \in Seq(Nat)
    PROVE  /\ a \o b \in Seq(Nat)
           /\ \A e : e \in ToSet(a \o b) <=> e \in ToSet(a) \/ e \in ToSet(b)
<1> DEFINE s == a \o b
<1>1. /\ Len(a) \in Nat /\ Len(b) \in Nat /\ Len(s) = Len(a) + Len(b)
      /\ DOMAIN a = 1 .. Len(a) /\ DOMAIN b = 1 .. Len(b)
      /\ s \in Seq(Nat) /\ DOMAIN s = 1 .. Len(s)
  OBVIOUS
<1>2. \A i \in 1 .. Len(a) : s[i] = a[i] /\ i \in 1 .. Len(s)
  BY <1>1
<1>3. \A i \in 1 .. Len(b) : s[Len(a) + i] = b[i] /\ Len(a) + i \in 1 .. Len(s)
  OBVIOUS
<1>4. \A i \in 1 .. Len(s) : \/ i \in 1 .. Len(a)
                             \/ i - Len(a) \in 1 .. Len(b) /\ s[i] = b[i - Len(a)]
  OBVIOUS
<1> HIDE DEF s
<1>5. \A e : e \in ToSet(s) <=> e \in ToSet(a) \/ e \in ToSet(b)
  <2>1. ASSUME NEW e \in ToSet(s) PROVE e \in ToSet(a) \/ e \in ToSet(b)
    <3>1. PICK i \in 1 .. Len(s) : e = s[i]
      BY <1>1 DEF ToSet
    <3> QED
      BY <1>1, <1>2, <1>4, <3>1 DEF ToSet
  <2>2. ASSUME NEW e \in ToSet(a) PROVE e \in ToSet(s)
    BY <1>1, <1>2 DEF ToSet
  <2>3. ASSUME NEW e \in ToSet(b) PROVE e \in ToSet(s)
    <3>1. PICK i \in 1 .. Len(b) : e = b[i]
      BY <1>1 DEF ToSet
    <3> QED
      BY <1>1, <1>3, <3>1 DEF ToSet
  <2> QED
    BY <2>1, <2>2, <2>3
<1> QED
  BY <1>1, <1>5 DEF s

LEMMA LeastExists ==
    ASSUME NEW T, T \subseteq Nat, T # {}
    PROVE  Min(T) \in T
<1>1. PICK x \in T : \A y \in T : ~ (<<y, x>> \in OpToRel(<, Nat))
  BY NatLessThanWellFounded, WFMin
<1>2. \A y \in T : ~ (y < x)
  BY <1>1 DEF OpToRel
<1>3. \A y \in T : x <= y
  BY <1>2
<1> QED
  BY <1>3 DEF Min

\* Without its first x a list that has everything once keeps all but x.
LEMMA RemoveFirstKeeps ==
    ASSUME NEW S, NEW s \in Seq(S), NEW x
    PROVE  /\ RemoveFirst(s, x) \in Seq(S)
           /\ Once(s) => /\ Once(RemoveFirst(s, x))
                         /\ ToSet(RemoveFirst(s, x)) = ToSet(s) \ {x}
<1>1. CASE ~ \E i \in 1 .. Len(s) : s[i] = x
  <2>1. RemoveFirst(s, x) = s
    BY <1>1 DEF RemoveFirst
  <2> QED
    BY <1>1, <2>1 DEF ToSet
<1>2. CASE \E i \in 1 .. Len(s) : s[i] = x
  <2> DEFINE I == {i \in 1 .. Len(s) : s[i] = x}
             k == SelectInSeq(s, LAMBDA v : v = x)
             r == RemoveFirst(s, x)
  <2>1. k = Min(I) /\ I # {} /\ I \subseteq Nat
    BY <1>2 DEF SelectInSeq
  <2>2. k \in 1 .. Len(s) /\ s[k] = x
    BY <2>1, LeastExists
  <2>3. r = RemoveAt(s, k)
    BY <1>2 DEF RemoveFirst
  <2> HIDE DEF k
  <2>4. r = SubSeq(s, 1, k - 1) \o SubSeq(s, k + 1, Len(s))
    BY <2>3 DEF RemoveAt
  <2>5. /\ r \in Seq(S) /\ Len(r) = Len(s) - 1
        /\ \A i \in 1 .. Len(r) : r[i] = IF i < k THEN s[i] ELSE s[i + 1]
    <3> DEFINE x1 == SubSeq(s, 1, k - 1)
               x2 == SubSeq(s, k + 1, Len(s))
    <3>1. /\ x1 \in Seq(S) /\ Len(x1) = k - 1
          /\ \A i \in 1 .. k - 1 : x1[i] = s[i]
      BY <2>2
    <3>2. /\ x2 \in Seq(S) /\ Len(x2) = Len(s) - k
          /\ \A i \in 1 .. Len(s) - k : x2[i] = s[k + i]
      BY <2>2
    <3> HIDE DEF x1, x2
    <3>3. r = x1 \o x2
      BY <2>4 DEF x1, x2
    <3> HIDE DEF r
    <3>4. /\ r \in Seq(S) /\ Len(r) = Len(s) - 1
          /\ \A i \in 1 .. Len(r) : r[i] = IF i <= k - 1 THEN x1[i] ELSE x2[i - (k - 1)]
      <4>1. /\ r \in Seq(S) /\ Len(r) = Len(x1) + Len(x2)
            /\ \A i \in 1 .. Len(x1) + Len(x2) :
                 r[i] = IF i <= Len(x1) THEN x1[i] ELSE x2[i - Len(x1)]
        BY <3>1, <3>2, <3>3, ConcatProperties
      <4> QED
        BY <2>2, <3>1, <3>2, <4>1
    <3>5. \A i \in 1 .. Len(r) : i > k - 1 =>
              i - (k - 1) \in 1 .. Len(s) - k /\ k + (i - (k - 1)) = i + 1
      BY <2>2, <3>4
    <3> QED
      BY <2>2, <3>1, <3>2, <3>4, <3>5
  <2> HIDE DEF r
  <2>6. Once(s) => Once(r)
    BY SMTT(30), <2>2, <2>5 DEF Once
  <2>7. Once(s) => ToSet(r) \subseteq ToSet(s) \ {x}
    BY SMTT(30), <2>2, <2>5 DEF ToSet, Once
  <2>8. ASSUME NEW i \in 1 .. Len(s), s[i] # x PROVE s[i] \in ToSet(r)
    <3>1. CASE i < k
      <4>1. i \in 1 .. Len(r) /\ r[i] = s[i]
        BY <2>2, <2>5, <3>1
      <4> QED BY <4>1, <2>5 DEF ToSet
    <3>2. CASE i > k
      <4>1. i - 1 \in 1 .. Len(r) /\ r[i - 1] = s[i]
        BY <2>2, <2>5, <3>2
      <4> QED BY <4>1, <2>5 DEF ToSet
    <3> QED
      BY <2>2, <2>8, <3>1, <3>2
  <2>9. ToSet(s) \ {x} \subseteq ToSet(r)
    BY <2>8 DEF ToSet
  <2> QED
    BY <2>5, <2>6, <2>7, <2>9 DEF r
<1> QED
  BY <1>1, <1>2

LEMMA AppendKeeps ==
    ASSUME NEW S, NEW s \in Seq(S), NEW x \in S
    PROVE  /\ Append(s, x) \in Seq(S)
           /\ ToSet(Append(s, x)) = ToSet(s) \cup {x}
           /\ Once(s) /\ x \notin ToSet(s) => Once(Append(s, x))
<1>1. \A i \in 1 .. Len(s) + 1 : Append(s, x)[i] = IF i <= Len(s) THEN s[i] ELSE x
  OBVIOUS
<1>2. DOMAIN Append(s, x) = 1 .. Len(s) + 1 /\ DOMAIN s = 1 .. Len(s) /\ Len(s) \in Nat
  OBVIOUS
<1>3. ToSet(Append(s, x)) = ToSet(s) \cup {x}
  <2>1. Append(s, x)[Len(s) + 1] = x
    BY <1>1, <1>2
  <2>2. \A i \in 1 .. Len(s) : i \in 1 .. Len(s) + 1 /\ Append(s, x)[i] = s[i]
    BY <1>1, <1>2
  <2>3. \A i \in 1 .. Len(s) + 1 : i \in 1 .. Len(s) \/ i = Len(s) + 1
    BY <1>2
  <2> QED BY <1>2, <2>1, <2>2, <2>3 DEF ToSet
<1>4. Once(s) /\ x \notin ToSet(s) => Once(Append(s, x))
  BY <1>1, <1>2 DEF Once, ToSet
<1> QED
  BY <1>3, <1>4

LEMMA TailKeeps ==
    ASSUME NEW S, NEW s \in Seq(S), s # <<>>
    PROVE  /\ Head(s) \in S /\ Tail(s) \in Seq(S)
           /\ ToSet(s) = {Head(s)} \cup ToSet(Tail(s))
           /\ Once(s) => Once(Tail(s)) /\ Head(s) \notin ToSet(Tail(s))
<1>1. /\ Len(s) \in Nat \ {0} /\ DOMAIN s = 1 .. Len(s) /\ Head(s) = s[1]
      /\ DOMAIN Tail(s) = 1 .. Len(s) - 1
      /\ \A i \in 1 .. Len(s) - 1 : Tail(s)[i] = s[i + 1]
  OBVIOUS
<1>2. \A i \in 1 .. Len(s) : i = 1 \/ (i - 1 \in 1 .. Len(s) - 1 /\ Tail(s)[i - 1] = s[i])
  BY <1>1
<1>3. ToSet(s) = {Head(s)} \cup ToSet(Tail(s))
  <2>1. ToSet(Tail(s)) \subseteq ToSet(s) /\ Head(s) \in ToSet(s)
    BY <1>1 DEF ToSet
  <2>2. ToSet(s) \subseteq {Head(s)} \cup ToSet(Tail(s))
    <3>1. ASSUME NEW e \in ToSet(s) PROVE e = Head(s) \/ e \in ToSet(Tail(s))
      <4>1. PICK i \in 1 .. Len(s) : e = s[i]
        BY <1>1 DEF ToSet
      <4> QED
        BY <1>1, <1>2, <4>1 DEF ToSet
    <3> QED BY <3>1
  <2> QED BY <2>1, <2>2
<1>4. Once(s) => Once(Tail(s)) /\ Head(s) \notin ToSet(Tail(s))
  BY <1>1 DEF Once, ToSet
<1> QED
  BY <1>3, <1>4

\* Another list for one of them.
LEMMA ListChanges ==
    ASSUME NEW S, NEW ls \in Seq(Seq(S)), NEW e, NEW l,
           e \in DOMAIN ls => l \in Seq(S)
    PROVE  /\ [ls EXCEPT ![e] = l] \in Seq(Seq(S))
           /\ Len([ls EXCEPT ![e] = l]) = Len(ls)
           /\ DOMAIN [ls EXCEPT ![e] = l] = DOMAIN ls
           /\ \A k \in DOMAIN ls : [ls EXCEPT ![e] = l][k] = IF k = e THEN l ELSE ls[k]
<1>1. CASE e \in DOMAIN ls
  <2>1. e \in 1 .. Len(ls) /\ DOMAIN ls = 1 .. Len(ls)
    BY <1>1
  <2>2. /\ [ls EXCEPT ![e] = l] \in Seq(Seq(S))
        /\ Len([ls EXCEPT ![e] = l]) = Len(ls)
    BY <1>1, <2>1, ExceptSeq
  <2> QED
    BY <1>1, <2>1, <2>2
<1>2. CASE e \notin DOMAIN ls
  <2>1. [ls EXCEPT ![e] = l] = ls
    BY <1>2
  <2> QED
    BY <1>2, <2>1
<1> QED
  BY <1>1, <1>2

LEMMA ListGrows ==
    ASSUME NEW S, NEW ls \in Seq(Seq(S)), NEW e, NEW x \in S
    PROVE  /\ [ls EXCEPT ![e] = Append(@, x)] \in Seq(Seq(S))
           /\ Len([ls EXCEPT ![e] = Append(@, x)]) = Len(ls)
           /\ DOMAIN [ls EXCEPT ![e] = Append(@, x)] = DOMAIN ls
           /\ \A k \in DOMAIN ls :
                [ls EXCEPT ![e] = Append(@, x)][k] = IF k = e THEN Append(ls[e], x) ELSE ls[k]
<1> DEFINE l == Append(ls[e], x)
<1>1. e \in DOMAIN ls => l \in Seq(S)
  OBVIOUS
<1> HIDE DEF l
<1>2. /\ [ls EXCEPT ![e] = l] \in Seq(Seq(S)) /\ Len([ls EXCEPT ![e] = l]) = Len(ls)
      /\ DOMAIN [ls EXCEPT ![e] = l] = DOMAIN ls
      /\ \A k \in DOMAIN ls : [ls EXCEPT ![e] = l][k] = IF k = e THEN l ELSE ls[k]
  BY SMTT(30), <1>1, ListChanges
<1> QED
  BY <1>2 DEF l

-----------------------------------------------------------------------------
(* Types *)

Stream == [st : {"unused", "accepted", "subscribed", "open", "lost", "over"},
           em : Nat, since : Nat, replay : Seq(Frame), queue : Seq(Nat),
           subAt : Nat, readAt : Nat]

TypeOK ==
    /\ log \in Seq(Nat) /\ torn \in Nat /\ newline \in BOOLEAN /\ emitted \in Nat
    /\ phase \in {"idle", "writing", "gluing", "telling"} /\ pending \in Seq(Conns)
    /\ phase = "writing" => torn > 0
    /\ phase # "idle" => runs # None
    /\ phase = "telling" <=> pending # <<>>
    /\ subs \in Seq(Seq(Conns)) /\ {shared, active, runs} \subseteq 0 .. Len(subs)
    /\ stream \in [Conns -> Stream]
    /\ wire \in [Conns -> Seq(Frame)]
    /\ client \in [conn : Conns \cup {None}, last : Int, param : Nat]
    /\ got \in [Conns -> Seq(Nat)]

LEMMA EmptySequences == ASSUME NEW S PROVE <<>> \in Seq(S)
OBVIOUS

LEMMA NoStreamType == NoStream \in Stream
<1>1. <<>> \in Seq(Frame) /\ <<>> \in Seq(Nat)
  BY EmptySequences
<1> QED
  BY <1>1 DEF NoStream, Stream, None

LEMMA TypeInit == Init => TypeOK
<1> SUFFICES ASSUME Init PROVE TypeOK
  OBVIOUS
<1>1. /\ <<>> \in Seq(Nat) /\ <<>> \in Seq(Frame) /\ <<>> \in Seq(Conns)
      /\ <<>> \in Seq(Seq(Conns)) /\ Len(<<>>) = 0
  BY EmptySequences
<1>2. client \in [conn : Conns \cup {None}, last : Int, param : Nat]
  BY EventStreamAssumption DEF Init
<1> QED
  BY <1>1, <1>2, NoStreamType DEF Init, TypeOK, None

\* What Resolve returns, and what it does to the lists of subscribers.
LEMMA ResolveType ==
    ASSUME TypeOK, NEW e \in 1 .. Len(subs) + 1, Resolve(e)
    PROVE  /\ subs' \in Seq(Seq(Conns)) /\ Len(subs') >= Len(subs) /\ e \in 1 .. Len(subs')
           /\ \A k \in DOMAIN subs : k \in DOMAIN subs' /\ subs'[k] = subs[k]
           /\ \A k \in DOMAIN subs' : k \notin DOMAIN subs => subs'[k] = <<>>
           /\ active # None => e = active /\ subs' = subs
           /\ active = None /\ shared # None => e = shared /\ subs' = subs
<1>1. Len(subs) \in Nat /\ DOMAIN subs = 1 .. Len(subs)
  BY DEF TypeOK
<1>2. CASE active # None \/ shared # None
  <2>1. subs' = subs /\ e = IF active # None THEN active ELSE shared
    BY <1>2 DEF Resolve
  <2>2. subs \in Seq(Seq(Conns)) /\ e \in 1 .. Len(subs)
    BY <1>1, <1>2, <2>1 DEF TypeOK, None
  <2> QED
    BY <1>1, <2>1, <2>2
<1>3. CASE ~ (active # None \/ shared # None)
  <2>1. <<>> \in Seq(Conns)
    BY EmptySequences
  <2>2. subs' = Append(subs, <<>>) /\ e = Len(subs) + 1
    BY <1>3 DEF Resolve
  <2>3. /\ subs' \in Seq(Seq(Conns)) /\ Len(subs') = Len(subs) + 1
        /\ DOMAIN subs' = 1 .. Len(subs) + 1
        /\ \A k \in 1 .. Len(subs) : subs'[k] = subs[k]
        /\ subs'[Len(subs) + 1] = <<>>
    BY <2>1, <2>2 DEF TypeOK
  <2>4. \A k \in 1 .. Len(subs) + 1 : k \notin 1 .. Len(subs) => k = Len(subs) + 1
    BY <1>1
  <2>5. \A k \in DOMAIN subs' : k \notin DOMAIN subs => subs'[k] = <<>>
    BY <1>1, <2>3, <2>4
  <2>6. \A k \in DOMAIN subs : k \in DOMAIN subs' /\ subs'[k] = subs[k]
    BY <1>1, <2>3
  <2>7. Len(subs') >= Len(subs) /\ e \in 1 .. Len(subs')
    BY <1>1, <2>2, <2>3
  <2> QED
    BY <1>3, <2>3, <2>5, <2>6, <2>7
<1> QED
  BY <1>2, <1>3

LEMMA HistoryType ==
    ASSUME TypeOK, NEW n \in Nat
    PROVE  /\ HistorySince(n) \in Seq(Frame)
           /\ Len(HistorySince(n)) = IF n <= Len(log) THEN Len(log) - n ELSE 0
           /\ \A i \in 1 .. Len(HistorySince(n)) :
                /\ n + i \in 1 .. Len(log)
                /\ HistorySince(n)[i] = [id |-> n + i - 1, ev |-> log[n + i]]
<1> DEFINE m == IF n <= Len(log) THEN Len(log) - n ELSE 0
<1>1. /\ m \in Nat /\ 1 .. Len(log) - n = 1 .. m
      /\ \A i \in 1 .. m : n + i \in 1 .. Len(log) /\ n + i - 1 \in Int
  BY DEF TypeOK
<1> HIDE DEF m
<1>2. \A i \in 1 .. m : [id |-> n + i - 1, ev |-> log[n + i]] \in Frame
  <2>1. ASSUME NEW i \in 1 .. m PROVE log[n + i] \in Nat /\ n + i - 1 \in Int
    <3>1. n + i \in 1 .. Len(log) /\ n + i - 1 \in Int
      BY <1>1
    <3> QED
      BY <3>1, ElementOfSeq DEF TypeOK
  <2> QED
    BY <2>1 DEF Frame
<1>3. HistorySince(n) = [i \in 1 .. m |-> [id |-> n + i - 1, ev |-> log[n + i]]]
  BY <1>1 DEF HistorySince
<1>4. HistorySince(n) \in [1 .. m -> Frame]
  BY <1>2, <1>3
<1>5. HistorySince(n) \in Seq(Frame)
  BY <1>1, <1>4, SeqDef
<1>6. Len(HistorySince(n)) = m
  <2>1. DOMAIN HistorySince(n) = 1 .. m
    BY <1>4
  <2>2. DOMAIN HistorySince(n) = 1 .. Len(HistorySince(n)) /\ Len(HistorySince(n)) \in Nat
    BY <1>5, LenProperties
  <2> QED
    BY <1>1, <2>1, <2>2
<1> QED
  BY <1>1, <1>3, <1>5, <1>6 DEF m

\* The fields of a stream.
LEMMA StreamFields ==
    ASSUME TypeOK, NEW c \in Conns
    PROVE  /\ stream[c] \in Stream /\ stream[c].em \in Nat /\ stream[c].since \in Nat
           /\ stream[c].replay \in Seq(Frame) /\ stream[c].queue \in Seq(Nat)
           /\ stream[c].subAt \in Nat /\ stream[c].readAt \in Nat
           /\ wire[c] \in Seq(Frame) /\ got[c] \in Seq(Nat)
BY DEF TypeOK, Stream

LEMMA TypeEmit ==
    ASSUME TypeOK, EmitWrites \/ EmitWritten \/ Notify
    PROVE  TypeOK'
<1>1. CASE EmitWrites
  <2>1. emitted + 1 \in Nat /\ torn + 1 \in Nat /\ torn + 1 > 0
    BY DEF TypeOK
  <2> QED
    BY <1>1, <2>1 DEF EmitWrites, registryVars, streamVars, TypeOK
<1>2. CASE EmitWritten
  <2>1. runs \in DOMAIN subs
    BY <1>2 DEF EmitWritten, Writing, TypeOK, None
  <2>2. pending' \in Seq(Conns)
    BY <1>2, <2>1 DEF EmitWritten, TypeOK
  <2>3. log' \in Seq(Nat) /\ torn' \in Nat /\ newline' \in BOOLEAN
    <3>1. Append(log, emitted) \in Seq(Nat) /\ log \in Seq(Nat)
      BY DEF TypeOK
    <3>2. phase = "writing" => torn - 1 \in Nat
      BY DEF TypeOK
    <3>3. torn \in Nat
      BY DEF TypeOK
    <3> QED
      BY <1>2, <3>1, <3>2, <3>3 DEF EmitWritten
  <2>4. UNCHANGED <<emitted, subs, registryVars, streamVars, crashes>>
    BY <1>2 DEF EmitWritten
  <2>5. phase' \in {"idle", "telling"} /\ (phase' = "telling" <=> pending' # <<>>)
    BY <1>2 DEF EmitWritten
  <2>6. runs # None
    BY <1>2 DEF EmitWritten, Writing, TypeOK
  <2> QED
    BY <2>2, <2>3, <2>4, <2>5, <2>6 DEF TypeOK, registryVars, streamVars
<1>3. CASE Notify
  <2>1. pending # <<>> /\ pending \in Seq(Conns)
    BY <1>3 DEF Notify, TypeOK
  <2>2. Head(pending) \in Conns /\ pending' \in Seq(Conns)
    BY <1>3, <2>1 DEF Notify
  <2>3. stream' \in [Conns -> Stream]
    <3> DEFINE c == Head(pending)
    <3>1. Append(stream[c].queue, emitted) \in Seq(Nat) /\ stream[c] \in Stream
      BY <2>2, StreamFields DEF TypeOK
    <3>2. [stream[c] EXCEPT !.queue = Append(@, emitted)] \in Stream
      BY <3>1 DEF Stream
    <3> QED
      BY <1>3, <2>2, <3>2 DEF Notify, TypeOK
  <2>4. runs # None /\ phase' \in {"idle", "telling"}
        /\ (phase' = "telling" <=> pending' # <<>>)
    BY <1>3 DEF Notify, TypeOK
  <2> QED
    BY <1>3, <2>2, <2>3, <2>4 DEF Notify, TypeOK, registryVars
<1> QED
  BY <1>1, <1>2, <1>3

LEMMA TypeServe ==
    ASSUME TypeOK, NEW c \in Conns, StreamStep(c)
    PROVE  TypeOK'
<1> USE StreamFields
<1>1. CASE Subscribe(c)
  <2>1. stream' \in [Conns -> Stream]
    <3>1. stream[c] \in Stream /\ emitted \in Nat
      BY DEF TypeOK
    <3>2. [stream[c] EXCEPT !.st = "subscribed", !.subAt = emitted] \in Stream
      BY <3>1 DEF Stream
    <3> QED
      BY <1>1, <3>2 DEF Subscribe, TypeOK
  <2>2. subs' \in Seq(Seq(Conns)) /\ Len(subs') = Len(subs)
    <3> DEFINE e == stream[c].em
    <3>1. subs \in Seq(Seq(Conns)) /\ c \in Conns
      BY DEF TypeOK
    <3>2. subs' = [subs EXCEPT ![e] = Append(@, c)]
      BY <1>1 DEF Subscribe
    <3> HIDE DEF e
    <3>3. /\ [subs EXCEPT ![e] = Append(@, c)] \in Seq(Seq(Conns))
          /\ Len([subs EXCEPT ![e] = Append(@, c)]) = Len(subs)
      BY <3>1, ListGrows
    <3> QED
      BY <3>2, <3>3
  <2> QED
    BY <1>1, <2>1, <2>2 DEF Subscribe, TypeOK, emitterVars, registryVars
<1>2. CASE ReadHistory(c)
  <2>1. stream' \in [Conns -> Stream]
    <3>1. HistorySince(stream[c].since) \in Seq(Frame) /\ emitted \in Nat
      BY HistoryType DEF TypeOK
    <3> DEFINE s == [stream[c] EXCEPT !.st = "open", !.readAt = emitted,
                                      !.replay = HistorySince(stream[c].since)]
    <3>2. s \in Stream
      BY <3>1 DEF Stream
    <3>3. stream' = [stream EXCEPT ![c] = s]
      BY <1>2 DEF ReadHistory, TypeOK
    <3> QED
      BY <3>2, <3>3 DEF TypeOK
  <2> QED
    BY <1>2, <2>1 DEF ReadHistory, TypeOK, emitterVars, registryVars
<1>3. CASE Replay(c)
  <2>1. Head(stream[c].replay) \in Frame /\ Tail(stream[c].replay) \in Seq(Frame)
    BY <1>3 DEF Replay
  <2>2. stream' \in [Conns -> Stream]
    <3>1. stream[c] \in Stream
      BY DEF TypeOK
    <3>2. [stream[c] EXCEPT !.replay = Tail(@)] \in Stream
      BY <2>1, <3>1 DEF Stream
    <3> QED
      BY <1>3, <3>2 DEF Replay, TypeOK
  <2>3. wire' \in [Conns -> Seq(Frame)]
    <3> DEFINE f == Head(stream[c].replay)
    <3>1. [id |-> f.id, ev |-> f.ev] \in Frame
      BY <2>1 DEF Frame
    <3>2. Append(wire[c], [id |-> f.id, ev |-> f.ev]) \in Seq(Frame)
      BY <3>1
    <3> QED
      BY <1>3, <3>2 DEF Replay, Send, TypeOK
  <2> QED
    BY <1>3, <2>2, <2>3 DEF Replay, TypeOK, emitterVars, registryVars
<1>4. CASE Follow(c)
  <2>1. Head(stream[c].queue) \in Nat /\ Tail(stream[c].queue) \in Seq(Nat)
    BY <1>4 DEF Follow
  <2>2. stream' \in [Conns -> Stream]
    <3>1. stream[c] \in Stream
      BY DEF TypeOK
    <3>2. [stream[c] EXCEPT !.queue = Tail(@)] \in Stream
      BY <2>1, <3>1 DEF Stream
    <3> QED
      BY <1>4, <3>2 DEF Follow, TypeOK
  <2>3. wire' \in [Conns -> Seq(Frame)]
    <3>1. EventCount - 1 \in Int
      BY DEF EventCount, TypeOK
    <3>2. [id |-> EventCount - 1, ev |-> Head(stream[c].queue)] \in Frame
      BY <2>1, <3>1 DEF Frame
    <3>3. Append(wire[c], [id |-> EventCount - 1, ev |-> Head(stream[c].queue)])
              \in Seq(Frame)
      BY <3>2
    <3> QED
      BY <1>4, <3>3 DEF Follow, Send, TypeOK
  <2> QED
    BY <1>4, <2>2, <2>3 DEF Follow, TypeOK, emitterVars, registryVars
<1>5. CASE Unsubscribe(c)
  <2>1. stream' \in [Conns -> Stream]
    BY <1>5, NoStreamType DEF Unsubscribe, TypeOK, Stream
  <2>2. subs' \in Seq(Seq(Conns)) /\ Len(subs') = Len(subs)
    <3> DEFINE e == stream[c].em
    <3>1. subs \in Seq(Seq(Conns))
      BY DEF TypeOK
    <3>2. e \in DOMAIN subs => RemoveFirst(subs[e], c) \in Seq(Conns)
      BY <3>1, RemoveFirstKeeps
    <3> QED
      BY <1>5, <3>1, <3>2, ListChanges DEF Unsubscribe
  <2> QED
    BY <1>5, <2>1, <2>2 DEF Unsubscribe, TypeOK, emitterVars, registryVars
<1> QED
  BY <1>1, <1>2, <1>3, <1>4, <1>5 DEF StreamStep

LEMMA TypeClient ==
    ASSUME TypeOK, NEW c \in Conns, ClientStep(c)
    PROVE  TypeOK'
<1> USE StreamFields
<1>1. CASE Connect(c)
  <2>1. PICK e \in 1 .. Len(subs) + 1 :
          /\ Resolve(e)
          /\ shared' = IF active # None THEN shared ELSE e
          /\ stream' = [stream EXCEPT
                 ![c] = [NoStream EXCEPT !.st = "accepted", !.em = e,
                                         !.since = ParseSince]]
    BY <1>1 DEF Connect
  <2>2. e \in Nat /\ ParseSince \in Nat
    BY SMTT(30) DEF ParseSince, TypeOK
  <2>3. [NoStream EXCEPT !.st = "accepted", !.em = e, !.since = ParseSince] \in Stream
    BY <2>2, NoStreamType DEF Stream
  <2>4. stream' \in [Conns -> Stream]
    BY <2>1, <2>3 DEF TypeOK
  <2>5. /\ subs' \in Seq(Seq(Conns)) /\ Len(subs') >= Len(subs) /\ e \in 1 .. Len(subs')
        /\ Len(subs) \in Nat /\ Len(subs') \in Nat
    BY SMTT(30), <2>1, ResolveType DEF TypeOK
  <2>6. {shared', active', runs'} \subseteq 0 .. Len(subs')
    <3>1. /\ shared \in 0 .. Len(subs) /\ active \in 0 .. Len(subs)
          /\ runs \in 0 .. Len(subs)
      BY DEF TypeOK
    <3>2. active' = active /\ runs' = runs /\ shared' \in {shared, e}
      BY <1>1, <2>1 DEF Connect
    <3> QED
      BY <2>5, <3>1, <3>2
  <2>7. client' \in [conn : Conns \cup {None}, last : Int, param : Nat]
    BY <1>1 DEF Connect, TypeOK
  <2> QED
    BY <1>1, <2>4, <2>5, <2>6, <2>7 DEF Connect, emitterVars, TypeOK
<1>2. CASE Receive(c)
  <2>1. Head(wire[c]) \in Frame /\ Tail(wire[c]) \in Seq(Frame)
    BY <1>2, EventsOfLess DEF Receive
  <2>2. Head(wire[c]).id \in Int /\ Head(wire[c]).ev \in Nat
    BY <2>1 DEF Frame
  <2>3. got' \in [Conns -> Seq(Nat)] /\ wire' \in [Conns -> Seq(Frame)]
    BY SMTT(30), <1>2, <2>1, <2>2 DEF Receive, TypeOK
  <2>4. client' \in [conn : Conns \cup {None}, last : Int, param : Nat]
    BY <1>2, <2>2 DEF Receive, TypeOK
  <2> QED
    BY <1>2, <2>3, <2>4 DEF Receive, TypeOK, emitterVars, registryVars
<1>3. CASE Disconnect(c)
  <2>1. <<>> \in Seq(Frame)
    BY EmptySequences
  <2>2. wire' \in [Conns -> Seq(Frame)]
    BY <1>3, <2>1 DEF Disconnect, TypeOK
  <2>3. stream' \in [Conns -> Stream]
    <3>1. [stream[c] EXCEPT !.st = "lost"] \in Stream
      BY DEF Stream
    <3> QED
      BY <1>3, <3>1 DEF Disconnect, TypeOK
  <2>4. client' \in [conn : Conns \cup {None}, last : Int, param : Nat]
    BY <1>3 DEF Disconnect, TypeOK
  <2> QED
    BY <1>3, <2>2, <2>3, <2>4 DEF Disconnect, TypeOK, emitterVars, registryVars
<1> QED
  BY <1>1, <1>2, <1>3 DEF ClientStep

LEMMA TypeCrash == TypeOK /\ Crash => TypeOK'
<1> SUFFICES ASSUME TypeOK, Crash PROVE TypeOK'
  OBVIOUS
<1>1. /\ <<>> \in Seq(Frame) /\ <<>> \in Seq(Conns) /\ <<>> \in Seq(Seq(Conns))
      /\ Len(<<>>) = 0
  BY EmptySequences
<1>2. [NoStream EXCEPT !.st = "over"] \in Stream
  BY NoStreamType DEF Stream
<1>3. stream' \in [Conns -> Stream]
  BY <1>2, NoStreamType DEF Crash
<1>4. client' \in [conn : Conns \cup {None}, last : Int, param : Nat]
  BY DEF Crash, TypeOK
<1>5. {shared', active', runs'} \subseteq 0 .. Len(subs') /\ subs' = <<>>
  BY <1>1 DEF Crash, None
<1>6. /\ log' = log /\ torn' = torn /\ newline' = newline /\ emitted' = emitted /\ got' = got
      /\ phase' = "idle" /\ pending' = <<>> /\ wire' = [d \in Conns |-> <<>>]
  BY DEF Crash
<1> QED
  BY <1>1, <1>3, <1>4, <1>5, <1>6 DEF TypeOK

LEMMA TypeRegistry == TypeOK /\ (RunBegins \/ RunEnds) => TypeOK'
<1>1. ASSUME TypeOK, RunBegins PROVE TypeOK'
  <2>1. PICK e \in 1 .. Len(subs) + 1 : Resolve(e) /\ shared' = e /\ active' = e /\ runs' = e
    BY <1>1 DEF RunBegins
  <2>2. subs' \in Seq(Seq(Conns)) /\ e \in 1 .. Len(subs')
    BY <1>1, <2>1, ResolveType
  <2>3. {shared', active', runs'} \subseteq 0 .. Len(subs') /\ runs' # None
    BY <2>1, <2>2 DEF None
  <2> QED
    BY <1>1, <2>2, <2>3 DEF RunBegins, emitterVars, streamVars, TypeOK
<1>2. ASSUME TypeOK, RunEnds PROVE TypeOK'
  <2>1. {shared', active', runs'} \subseteq 0 .. Len(subs')
    BY <1>2 DEF RunEnds, TypeOK, None
  <2> QED
    BY <1>2, <2>1 DEF RunEnds, emitterVars, streamVars, TypeOK
<1> QED
  BY <1>1, <1>2

LEMMA TypeStep == TypeOK /\ [Next]_vars => TypeOK'
<1> SUFFICES ASSUME TypeOK, [Next]_vars PROVE TypeOK'
  OBVIOUS
<1>1. ASSUME UNCHANGED vars PROVE TypeOK'
  BY <1>1 DEF vars, emitterVars, registryVars, streamVars, TypeOK
<1> QED
  BY <1>1, TypeRegistry, TypeEmit, TypeServe, TypeClient, TypeCrash DEF Next

\* Every variable keeps its type, and what is emitted is emitted by a run.
THEOREM TypeCorrect == Spec => []TypeOK
<1> QED
  BY TypeInit, TypeStep, PTL DEF Spec

-----------------------------------------------------------------------------
(* Who is subscribed where *)

Live == {"accepted", "subscribed", "open"}

\* There is one emitter for the streams and the runs of a process, a stream is
\* live while the client holds its connection, and a live stream that has
\* subscribed is in the emitter's list until it unsubscribes.
Attached ==
    /\ active = runs /\ (runs # None => runs = shared)
    /\ \A c \in Conns :
        /\ stream[c].st \in Live <=> client.conn = c
        /\ stream[c].st \notin {"unused", "over"} => stream[c].em = shared /\ shared # None
        /\ stream[c].st \in {"subscribed", "open"} => c \in ToSet(subs[shared])
        /\ stream[c].st # "unused" => \A d \in Conns : d < c => stream[d].st # "unused"

\* Nobody is in a list twice, and only who has subscribed is called.
Lists ==
    /\ Once(pending)
    /\ \A c \in ToSet(pending) : stream[c].st \notin {"unused", "accepted"}
    /\ \A e \in DOMAIN subs :
         /\ Once(subs[e])
         /\ \A c \in ToSet(subs[e]) :
              e = shared /\ stream[c].st \in {"subscribed", "open", "lost"}

\* What a stream that does not send yet, or no longer, has not.
Waiting ==
    \A c \in Conns :
        /\ stream[c].st \in {"unused", "accepted", "subscribed"} =>
             got[c] = <<>> /\ wire[c] = <<>>
        /\ stream[c].st # "open" => wire[c] = <<>>
        /\ stream[c].st \notin {"open", "lost"} => stream[c].replay = <<>>
        /\ stream[c].st \in {"unused", "accepted"} => stream[c].queue = <<>>

Shape == Attached /\ Lists /\ Waiting

LEMMA ShapeInit == Init => Shape
<1> SUFFICES ASSUME Init PROVE Shape
  OBVIOUS
<1>1. \A c \in Conns : c \in Nat /\ c # None
  BY EventStreamAssumption DEF Conns, None
<1>2. Attached
  BY <1>1 DEF Init, Attached, NoStream, Live, None
<1>3. Lists
  BY DEF Init, Lists, Once, ToSet
<1>4. Waiting
  BY DEF Init, Waiting, NoStream
<1> QED
  BY <1>2, <1>3, <1>4 DEF Shape

\* The lists after a resolution: an emitter that is made has none.
LEMMA ShapeRegistry ==
    ASSUME TypeOK, Shape, RunBegins \/ RunEnds
    PROVE  Shape'
<1>1. CASE RunBegins
  <2>1. PICK e \in 1 .. Len(subs) + 1 : Resolve(e) /\ shared' = e /\ active' = e /\ runs' = e
    BY <1>1 DEF RunBegins
  <2>2. /\ \A k \in DOMAIN subs : k \in DOMAIN subs' /\ subs'[k] = subs[k]
        /\ \A k \in DOMAIN subs' : k \notin DOMAIN subs => subs'[k] = <<>>
        /\ shared # None => e = shared /\ subs' = subs
        /\ e \in 1 .. Len(subs')
    BY <1>1, <2>1, ResolveType DEF Shape, Attached, RunBegins
  <2>3. UNCHANGED <<pending, stream, client, got, wire>> /\ e # None
    BY <1>1, <2>2 DEF RunBegins, emitterVars, streamVars, None, TypeOK
  <2>4. Attached'
    BY <2>1, <2>2, <2>3 DEF Shape, Attached
  <2>5. Lists'
    <3>1. Once(pending') /\ \A d \in ToSet(pending') : stream'[d].st \notin {"unused", "accepted"}
      BY <2>3 DEF Shape, Lists
    <3>2. ASSUME NEW k \in DOMAIN subs'
          PROVE  /\ Once(subs'[k])
                 /\ \A d \in ToSet(subs'[k]) :
                      k = shared' /\ stream'[d].st \in {"subscribed", "open", "lost"}
      <4>1. CASE k \in DOMAIN subs
        <5>1. k # None
          BY <4>1 DEF TypeOK, None
        <5>2. \A d \in ToSet(subs[k]) : k = shared /\ shared # None
          BY <4>1, <5>1 DEF Shape, Lists
        <5> QED
          BY <2>1, <2>2, <2>3, <4>1, <5>2 DEF Shape, Lists
      <4>2. CASE k \notin DOMAIN subs
        BY <2>2, <4>2 DEF Once, ToSet
      <4> QED BY <4>1, <4>2
    <3> QED
      BY <3>1, <3>2 DEF Lists
  <2>6. Waiting'
    BY <2>3 DEF Shape, Waiting
  <2> QED
    BY <2>4, <2>5, <2>6 DEF Shape
<1>2. CASE RunEnds
  BY <1>2 DEF RunEnds, emitterVars, streamVars, Shape, Attached, Lists, Waiting
<1> QED
  BY <1>1, <1>2

LEMMA ShapeEmit ==
    ASSUME TypeOK, Shape, EmitWrites \/ EmitWritten \/ Notify
    PROVE  Shape'
<1>1. CASE EmitWrites
  BY <1>1 DEF EmitWrites, registryVars, streamVars, Shape, Attached, Lists, Waiting
<1>2. CASE EmitWritten
  <2>1. /\ UNCHANGED <<subs, shared, active, runs, stream, client, got, wire>>
        /\ pending' = subs[runs] /\ runs # None
    BY <1>2 DEF EmitWritten, Writing, registryVars, streamVars, TypeOK
  <2>2. runs \in DOMAIN subs
    BY <2>1 DEF TypeOK, None
  <2>3. Lists'
    BY <2>1, <2>2 DEF Shape, Lists
  <2> QED
    BY <2>1, <2>3 DEF Shape, Attached, Waiting
<1>3. CASE Notify
  <2> DEFINE c == Head(pending)
  <2>1. pending # <<>> /\ pending \in Seq(Conns)
    BY <1>3 DEF Notify, TypeOK
  <2>2. c \in Conns /\ c \in ToSet(pending) /\ ToSet(Tail(pending)) \subseteq ToSet(pending)
        /\ Once(Tail(pending)) /\ pending' = Tail(pending)
    BY <1>3, <2>1, TailKeeps DEF Notify, Shape, Lists
  <2>3. UNCHANGED <<subs, shared, active, runs, client, got, wire>>
    BY <1>3 DEF Notify, registryVars
  <2>4. stream[c].st \notin {"unused", "accepted"}
    BY <2>2 DEF Shape, Lists
  <2>5. \A d \in Conns : /\ stream'[d].st = stream[d].st /\ stream'[d].em = stream[d].em
                         /\ stream'[d].replay = stream[d].replay
                         /\ d # c => stream'[d].queue = stream[d].queue
    BY <1>3, <2>2, StreamFields DEF Notify, TypeOK, Stream
  <2>6. Attached'
    BY <2>3, <2>5 DEF Shape, Attached
  <2>7. Lists'
    <3>1. \A d \in ToSet(pending') : d \in Conns /\ stream'[d].st \notin {"unused", "accepted"}
      BY <2>1, <2>2, <2>5 DEF Shape, Lists, ToSet
    <3>2. \A e \in DOMAIN subs : \A d \in ToSet(subs[e]) : d \in Conns
      BY DEF TypeOK, ToSet
    <3> QED
      BY <2>2, <2>3, <2>5, <3>1, <3>2 DEF Shape, Lists
  <2>8. Waiting'
    BY <2>3, <2>4, <2>5 DEF Shape, Waiting
  <2> QED
    BY <2>6, <2>7, <2>8 DEF Shape
<1> QED
  BY <1>1, <1>2, <1>3

\* A step of a generator that leaves the lists as they are.
LEMMA ShapeSending ==
    ASSUME TypeOK, Shape, NEW c \in Conns,
           ReadHistory(c) \/ Replay(c) \/ Follow(c)
    PROVE  Shape'
<1>1. /\ UNCHANGED <<subs, shared, active, runs, pending, client, got>>
      /\ \A d \in Conns \ {c} : stream'[d] = stream[d] /\ wire'[d] = wire[d]
      /\ stream'[c].em = stream[c].em
  <2>1. CASE ReadHistory(c)
    BY <2>1, StreamFields DEF ReadHistory, registryVars, emitterVars, TypeOK, Stream
  <2>2. CASE Replay(c)
    BY <2>2, StreamFields DEF Replay, Send, registryVars, emitterVars, TypeOK, Stream
  <2>3. CASE Follow(c)
    BY <2>3, StreamFields DEF Follow, Send, registryVars, emitterVars, TypeOK, Stream
  <2> QED BY <2>1, <2>2, <2>3
<1>2. /\ stream[c].st \in {"subscribed", "open"} /\ stream'[c].st = "open"
  <2>1. CASE ReadHistory(c)
    BY <2>1, StreamFields DEF ReadHistory, TypeOK, Stream
  <2>2. CASE Replay(c)
    BY <2>2, StreamFields DEF Replay, TypeOK, Stream
  <2>3. CASE Follow(c)
    BY <2>3, StreamFields DEF Follow, TypeOK, Stream
  <2> QED BY <2>1, <2>2, <2>3
<1>3. Attached'
  BY <1>1, <1>2 DEF Shape, Attached, Live
<1>4. Lists'
  <2>1. \A d \in ToSet(pending) : d \in Conns
    BY DEF TypeOK, ToSet
  <2>2. \A e \in DOMAIN subs : \A d \in ToSet(subs[e]) : d \in Conns
    BY DEF TypeOK, ToSet
  <2> QED
    BY <1>1, <1>2, <2>1, <2>2 DEF Shape, Lists
<1>5. Waiting'
  BY <1>1, <1>2 DEF Shape, Waiting
<1> QED
  BY <1>3, <1>4, <1>5 DEF Shape

LEMMA ShapeSubscribe ==
    ASSUME TypeOK, Shape, NEW c \in Conns, Subscribe(c)
    PROVE  Shape'
<1>1. /\ UNCHANGED <<shared, active, runs, pending, client, got, wire>>
      /\ \A d \in Conns \ {c} : stream'[d] = stream[d]
      /\ stream'[c].em = stream[c].em /\ stream'[c].replay = stream[c].replay
      /\ stream[c].st = "accepted" /\ stream'[c].st = "subscribed"
  BY StreamFields DEF Subscribe, registryVars, emitterVars, TypeOK, Stream
<1>2. stream[c].em = shared /\ shared # None /\ subs' = [subs EXCEPT ![shared] = Append(@, c)]
  BY <1>1 DEF Shape, Attached, Subscribe
<1>3. shared \in DOMAIN subs /\ subs \in Seq(Seq(Conns))
  BY <1>2 DEF TypeOK, None
<1>4. /\ DOMAIN subs' = DOMAIN subs
      /\ \A k \in DOMAIN subs : subs'[k] = IF k = shared THEN Append(subs[shared], c) ELSE subs[k]
  BY <1>2, <1>3, ListGrows
<1>5. subs[shared] \in Seq(Conns) /\ c \notin ToSet(subs[shared]) /\ Once(subs[shared])
  <2>1. c \in ToSet(subs[shared]) => stream[c].st \in {"subscribed", "open", "lost"}
    BY <1>3 DEF Shape, Lists
  <2> QED
    BY <1>1, <1>3, <2>1 DEF Shape, Lists
<1>6. /\ ToSet(subs'[shared]) = ToSet(subs[shared]) \cup {c}
      /\ Once(subs'[shared])
  <2>1. subs'[shared] = Append(subs[shared], c)
    BY <1>3, <1>4
  <2> QED
    BY <1>5, <2>1, AppendKeeps
<1>7. Attached'
  BY <1>1, <1>2, <1>6 DEF Shape, Attached, Live
<1>8. Lists'
  <2>1. \A d \in ToSet(pending) : d \in Conns
    BY DEF TypeOK, ToSet
  <2>2. \A e \in DOMAIN subs : \A d \in ToSet(subs[e]) : d \in Conns
    BY DEF TypeOK, ToSet
  <2>3. Once(pending') /\ \A d \in ToSet(pending') : stream'[d].st \notin {"unused", "accepted"}
    BY <1>1, <2>1 DEF Shape, Lists
  <2>4. ASSUME NEW e \in DOMAIN subs'
        PROVE  /\ Once(subs'[e])
               /\ \A d \in ToSet(subs'[e]) :
                    e = shared /\ stream'[d].st \in {"subscribed", "open", "lost"}
    <3>1. CASE e = shared
      BY <1>1, <1>3, <1>6, <2>2, <3>1 DEF Shape, Lists
    <3>2. CASE e # shared
      BY <1>1, <1>4, <2>2, <2>4, <3>2 DEF Shape, Lists
    <3> QED BY <3>1, <3>2
  <2> QED
    BY <1>1, <2>3, <2>4 DEF Lists
<1>9. Waiting'
  BY <1>1 DEF Shape, Waiting
<1> QED
  BY <1>7, <1>8, <1>9 DEF Shape

LEMMA ShapeUnsubscribe ==
    ASSUME TypeOK, Shape, NEW c \in Conns, Unsubscribe(c)
    PROVE  Shape'
<1>1. /\ UNCHANGED <<shared, active, runs, pending, client, got, wire>>
      /\ \A d \in Conns \ {c} : stream'[d] = stream[d]
      /\ stream'[c] = [NoStream EXCEPT !.st = "over"]
      /\ stream[c].st = "lost"
  BY DEF Unsubscribe, registryVars, emitterVars, TypeOK
<1>2. stream[c].em = shared /\ shared # None /\ subs' = [subs EXCEPT ![shared] = RemoveFirst(@, c)]
  BY <1>1 DEF Shape, Attached, Unsubscribe
<1>3. shared \in DOMAIN subs /\ subs \in Seq(Seq(Conns))
  BY <1>2 DEF TypeOK, None
<1>4. subs[shared] \in Seq(Conns) /\ Once(subs[shared])
  BY <1>3 DEF Shape, Lists
<1>5. /\ ToSet(RemoveFirst(subs[shared], c)) = ToSet(subs[shared]) \ {c}
      /\ Once(RemoveFirst(subs[shared], c)) /\ RemoveFirst(subs[shared], c) \in Seq(Conns)
  BY <1>4, RemoveFirstKeeps
<1>6. /\ DOMAIN subs' = DOMAIN subs
      /\ subs'[shared] = RemoveFirst(subs[shared], c)
      /\ \A k \in DOMAIN subs : k # shared => subs'[k] = subs[k]
  BY <1>2, <1>3
<1>7. stream'[c].st = "over" /\ stream'[c].replay = <<>>
  BY <1>1 DEF NoStream
<1>8. Attached'
  <2>0. /\ \A d \in Conns \ {c} : stream'[d].st = stream[d].st /\ stream'[d].em = stream[d].em
        /\ client.conn # c /\ client' = client /\ shared' = shared
        /\ stream[c].st # "unused"
    BY <1>1 DEF Shape, Attached, Live
  <2>1. ASSUME NEW d \in Conns
        PROVE  /\ stream'[d].st \in Live <=> client'.conn = d
               /\ stream'[d].st \notin {"unused", "over"} =>
                    stream'[d].em = shared' /\ shared' # None
               /\ stream'[d].st \in {"subscribed", "open"} => d \in ToSet(subs'[shared'])
               /\ stream'[d].st # "unused" =>
                    \A x \in Conns : x < d => stream'[x].st # "unused"
    <3>1. CASE d = c
      <4>1. \A x \in Conns : x < c => stream[x].st # "unused" /\ x # c
        BY <2>0, EventStreamAssumption DEF Shape, Attached, Conns
      <4> QED
        BY <1>7, <2>0, <3>1, <4>1 DEF Live
    <3>2. CASE d # c
      <4>1. /\ stream[d].st \in Live <=> client.conn = d
            /\ stream[d].st \notin {"unused", "over"} =>
                 stream[d].em = shared /\ shared # None
            /\ stream[d].st \in {"subscribed", "open"} => d \in ToSet(subs[shared])
            /\ stream[d].st # "unused" =>
                 \A x \in Conns : x < d => stream[x].st # "unused"
        BY DEF Shape, Attached
      <4>2. d \in ToSet(subs[shared]) => d \in ToSet(subs'[shared])
        BY <1>5, <1>6, <3>2
      <4> QED
        BY <1>7, <2>0, <3>2, <4>1, <4>2
    <3> QED BY <3>1, <3>2
  <2> QED
    BY <1>1, <2>1 DEF Shape, Attached
<1>9. Lists'
  <2>1. \A d \in ToSet(pending) : d \in Conns
    BY DEF TypeOK, ToSet
  <2>2. \A e \in DOMAIN subs : \A d \in ToSet(subs[e]) : d \in Conns
    BY DEF TypeOK, ToSet
  <2>3. Once(pending') /\ \A d \in ToSet(pending') : stream'[d].st \notin {"unused", "accepted"}
    BY <1>1, <1>7, <2>1 DEF Shape, Lists
  <2>4. ASSUME NEW e \in DOMAIN subs'
        PROVE  /\ Once(subs'[e])
               /\ \A d \in ToSet(subs'[e]) :
                    e = shared /\ stream'[d].st \in {"subscribed", "open", "lost"}
    <3>1. CASE e = shared
      BY <1>1, <1>3, <1>5, <1>6, <2>2, <3>1 DEF Shape, Lists
    <3>2. CASE e # shared
      <4>1. subs'[e] = subs[e] /\ Once(subs[e]) /\ e \in DOMAIN subs
        BY <1>6, <2>4, <3>2 DEF Shape, Lists
      <4>2. c \notin ToSet(subs[e])
        BY <3>2, <4>1 DEF Shape, Lists
      <4> QED
        BY <1>1, <2>2, <4>1, <4>2 DEF Shape, Lists
    <3> QED BY <3>1, <3>2
  <2> QED
    BY <1>1, <2>3, <2>4 DEF Lists
<1>10. Waiting'
  BY <1>1, <1>7 DEF Shape, Waiting
<1> QED
  BY <1>8, <1>9, <1>10 DEF Shape

LEMMA ShapeClient ==
    ASSUME TypeOK, Shape, NEW c \in Conns, ClientStep(c)
    PROVE  Shape'
<1>1. CASE Connect(c)
  <2>1. PICK e \in 1 .. Len(subs) + 1 :
          /\ Resolve(e)
          /\ shared' = IF active # None THEN shared ELSE e
          /\ stream' = [stream EXCEPT
                 ![c] = [NoStream EXCEPT !.st = "accepted", !.em = e,
                                         !.since = ParseSince]]
    BY <1>1 DEF Connect
  <2>2. /\ UNCHANGED <<active, runs, pending, wire, got>>
        /\ client'.conn = c /\ client.conn = None
        /\ stream[c].st = "unused" /\ \A d \in Conns : d < c => stream[d].st # "unused"
    BY <1>1 DEF Connect, emitterVars, TypeOK
  <2>3. /\ \A d \in Conns \ {c} : stream'[d] = stream[d]
        /\ stream'[c].st = "accepted" /\ stream'[c].em = e
        /\ stream'[c].replay = <<>> /\ stream'[c].queue = <<>>
    BY <2>1 DEF NoStream, TypeOK
  <2>4. /\ \A k \in DOMAIN subs : k \in DOMAIN subs' /\ subs'[k] = subs[k]
        /\ \A k \in DOMAIN subs' : k \notin DOMAIN subs => subs'[k] = <<>>
        /\ shared # None => e = shared /\ subs' = subs
        /\ active # None => shared # None
        /\ e # None
    BY <2>1, ResolveType DEF Shape, Attached, None
  <2>5. shared' = e /\ shared' # None
    BY <2>1, <2>4
  <2>6. Attached'
    <3>1. ASSUME NEW d \in Conns
          PROVE  /\ stream'[d].st \in Live <=> client'.conn = d
                 /\ stream'[d].st \notin {"unused", "over"} => stream'[d].em = shared'
                 /\ stream'[d].st \in {"subscribed", "open"} => d \in ToSet(subs'[shared'])
                 /\ stream'[d].st # "unused" =>
                      \A x \in Conns : x < d => stream'[x].st # "unused"
      <4>1. CASE d = c
        BY <2>2, <2>3, <2>5, <4>1 DEF Live
      <4>2. CASE d # c
        <5>1. d # None /\ c # None
          BY EventStreamAssumption DEF Conns, None
        <5>2. stream'[d] = stream[d]
          BY <2>3, <4>2
        <5>3. stream[d].st \notin Live
          BY <2>2, <5>1 DEF Shape, Attached
        <5> QED
          BY <2>2, <2>3, <2>4, <2>5, <4>2, <5>2, <5>3 DEF Shape, Attached, Live
      <4> QED BY <4>1, <4>2
    <3> QED
      BY <2>2, <2>4, <2>5, <3>1 DEF Shape, Attached
  <2>7. Lists'
    <3>1. \A d \in ToSet(pending) : d \in Conns /\ d # c
      BY SMTT(30), <2>2 DEF TypeOK, ToSet, Shape, Lists
    <3>2. Once(pending') /\ \A d \in ToSet(pending') : stream'[d].st \notin {"unused", "accepted"}
      BY <2>2, <2>3, <3>1 DEF Shape, Lists
    <3>3. ASSUME NEW k \in DOMAIN subs'
          PROVE  /\ Once(subs'[k])
                 /\ \A d \in ToSet(subs'[k]) :
                      k = shared' /\ stream'[d].st \in {"subscribed", "open", "lost"}
      <4>1. CASE k \in DOMAIN subs
        <5>1. \A d \in ToSet(subs[k]) : d \in Conns /\ d # c /\ k = shared /\ shared # None
          <6>1. k # None /\ subs[k] \in Seq(Conns)
            BY <4>1 DEF TypeOK, None
          <6>2. \A d \in ToSet(subs[k]) : d \in Conns
            BY <6>1 DEF ToSet
          <6> QED
            BY <2>2, <4>1, <6>1, <6>2 DEF Shape, Lists
        <5> QED
          BY <2>3, <2>4, <2>5, <4>1, <5>1 DEF Shape, Lists
      <4>2. CASE k \notin DOMAIN subs
        BY <2>4, <4>2 DEF Once, ToSet
      <4> QED BY <4>1, <4>2
    <3> QED
      BY <3>2, <3>3 DEF Lists
  <2>8. Waiting'
    BY <2>2, <2>3 DEF Shape, Waiting
  <2> QED
    BY <2>6, <2>7, <2>8 DEF Shape
<1>2. CASE Receive(c)
  <2>1. stream[c].st = "open"
    BY <1>2 DEF Receive, Shape, Waiting
  <2>2. /\ UNCHANGED <<subs, shared, active, runs, pending, stream>>
        /\ client'.conn = client.conn
        /\ \A d \in Conns \ {c} : wire'[d] = wire[d] /\ got'[d] = got[d]
    BY <1>2 DEF Receive, emitterVars, registryVars, TypeOK
  <2> QED
    BY <2>1, <2>2 DEF Shape, Attached, Lists, Waiting
<1>3. CASE Disconnect(c)
  <2>1. /\ UNCHANGED <<subs, shared, active, runs, pending, got>>
        /\ client'.conn = None /\ client.conn = c
        /\ \A d \in Conns \ {c} : wire'[d] = wire[d] /\ stream'[d] = stream[d]
        /\ wire'[c] = <<>> /\ stream'[c].st = "lost" /\ stream'[c].em = stream[c].em
    BY <1>3, StreamFields DEF Disconnect, emitterVars, registryVars, TypeOK, Stream
  <2>2. stream[c].st \in Live /\ \A d \in Conns : d # None
    BY <2>1, EventStreamAssumption DEF Shape, Attached, Conns, None
  <2>3. Attached'
    BY <2>1, <2>2 DEF Shape, Attached, Live
  <2>4. Lists'
    <3>1. \A d \in ToSet(pending) : d \in Conns
      BY DEF TypeOK, ToSet
    <3>2. \A k \in DOMAIN subs : \A d \in ToSet(subs[k]) : d \in Conns
      BY DEF TypeOK, ToSet
    <3> QED
      BY <2>1, <3>1, <3>2 DEF Shape, Lists
  <2>5. Waiting'
    BY <2>1, <2>2 DEF Shape, Waiting, Live
  <2> QED
    BY <2>3, <2>4, <2>5 DEF Shape
<1> QED
  BY <1>1, <1>2, <1>3 DEF ClientStep

LEMMA ShapeCrash == TypeOK /\ Shape /\ Crash => Shape'
<1> SUFFICES ASSUME TypeOK, Shape, Crash PROVE Shape'
  OBVIOUS
<1>1. /\ subs' = <<>> /\ shared' = None /\ active' = None /\ runs' = None
      /\ pending' = <<>> /\ client'.conn = None /\ got' = got
      /\ \A c \in Conns : wire'[c] = <<>>
  BY DEF Crash, TypeOK
<1>2. \A c \in Conns :
        /\ stream[c].st = "unused" => stream'[c].st = "unused"
        /\ stream[c].st # "unused" => stream'[c].st = "over"
        /\ stream'[c].replay = <<>> /\ stream'[c].queue = <<>>
  BY DEF Crash, NoStream
<1>3. \A c \in Conns : c # None
  BY EventStreamAssumption DEF Conns, None
<1>4. Attached'
  BY <1>1, <1>2, <1>3 DEF Shape, Attached, Live
<1>5. Lists'
  BY <1>1 DEF Lists, Once, ToSet
<1>6. Waiting'
  BY <1>1, <1>2 DEF Shape, Waiting
<1> QED
  BY <1>4, <1>5, <1>6 DEF Shape

LEMMA ShapeStep == TypeOK /\ Shape /\ [Next]_vars => Shape'
<1> SUFFICES ASSUME TypeOK, Shape, [Next]_vars PROVE Shape'
  OBVIOUS
<1>1. ASSUME UNCHANGED vars PROVE Shape'
  BY <1>1 DEF vars, emitterVars, registryVars, streamVars, Shape, Attached, Lists, Waiting
<1>2. ASSUME NEW c \in Conns, StreamStep(c) PROVE Shape'
  BY <1>2, ShapeSending, ShapeSubscribe, ShapeUnsubscribe DEF StreamStep
<1> QED
  BY <1>1, <1>2, ShapeRegistry, ShapeEmit, ShapeClient, ShapeCrash DEF Next

-----------------------------------------------------------------------------
(* The log, and what a connection delivers *)

\* The readable lines stand in the order of emission.
LogInOrder ==
    /\ \A i, j \in DOMAIN log : i < j => log[i] < log[j]
    /\ \A i \in DOMAIN log : log[i] <= emitted /\ (Writing => log[i] < emitted)

\* What a step that is no step of emit() leaves alone.
LEMMA OtherSteps ==
    ASSUME TypeOK, [Next]_vars
    PROVE  \/ EmitWrites \/ EmitWritten
           \/ UNCHANGED <<log, torn, emitted>> /\ (Writing' => Writing)
<1>1. ASSUME NEW c \in Conns, StreamStep(c) \/ ClientStep(c)
      PROVE  UNCHANGED <<log, torn, emitted, phase>>
  BY <1>1 DEF StreamStep, ClientStep, Subscribe, ReadHistory, Replay, Follow,
     Unsubscribe, Connect, Receive, Disconnect, emitterVars
<1>2. ASSUME RunBegins \/ RunEnds \/ UNCHANGED vars
      PROVE  UNCHANGED <<log, torn, emitted, phase>>
  BY <1>2 DEF RunBegins, RunEnds, vars, emitterVars
<1>3. ASSUME Notify \/ Crash
      PROVE  UNCHANGED <<log, torn, emitted>> /\ phase' \in {"idle", "telling"}
  BY <1>3 DEF Notify, Crash
<1> QED
  BY <1>1, <1>2, <1>3 DEF Next, Writing

\* The line that is completed is the last one.
LEMMA LogGrows ==
    ASSUME TypeOK, EmitWritten
    PROVE  /\ \/ log' = log
              \/ /\ log' = Append(log, emitted) /\ Len(log') = Len(log) + 1
                 /\ log'[Len(log) + 1] = emitted
           /\ \A i \in DOMAIN log : i \in DOMAIN log' /\ log'[i] = log[i]
           /\ \A i \in DOMAIN log' : i \in DOMAIN log \/ (i = Len(log) + 1 /\ log'[i] = emitted)
           /\ Len(log) \in Nat /\ DOMAIN log = 1 .. Len(log) /\ DOMAIN log' = 1 .. Len(log')
<1>1. log \in Seq(Nat) /\ emitted \in Nat
  BY DEF TypeOK
<1>2. CASE log' = log
  BY <1>1, <1>2
<1>3. CASE log' = Append(log, emitted)
  <2>1. /\ Len(log) \in Nat /\ DOMAIN log = 1 .. Len(log)
        /\ DOMAIN log' = 1 .. Len(log) + 1 /\ Len(log') = Len(log) + 1
        /\ \A i \in 1 .. Len(log) : log'[i] = log[i]
        /\ log'[Len(log) + 1] = emitted
    BY <1>1, <1>3
  <2> QED
    BY <1>3, <2>1
<1> QED
  BY <1>2, <1>3 DEF EmitWritten

LEMMA LogStep == TypeOK /\ LogInOrder /\ [Next]_vars => LogInOrder'
<1> SUFFICES ASSUME TypeOK, LogInOrder, [Next]_vars PROVE LogInOrder'
  OBVIOUS
<1>0. emitted \in Nat /\ \A i \in DOMAIN log : log[i] \in Nat
  BY SMTT(30) DEF TypeOK
<1>1. CASE EmitWrites
  <2>1. log' = log /\ emitted' = emitted + 1
    BY <1>1 DEF EmitWrites
  <2> QED
    BY <1>0, <2>1 DEF LogInOrder
<1>2. CASE EmitWritten
  <2>1. Writing /\ ~Writing' /\ emitted' = emitted
    BY <1>2 DEF EmitWritten, Writing
  <2>2. /\ Len(log) \in Nat /\ DOMAIN log = 1 .. Len(log)
        /\ \A i \in DOMAIN log : i \in DOMAIN log' /\ log'[i] = log[i]
        /\ \A i \in DOMAIN log' : i \in DOMAIN log \/ (i = Len(log) + 1 /\ log'[i] = emitted)
    BY <1>2, LogGrows
  <2>3. \A i \in DOMAIN log' : log'[i] <= emitted
    BY <1>0, <2>1, <2>2 DEF LogInOrder
  <2>4. ASSUME NEW i \in DOMAIN log', NEW j \in DOMAIN log', i < j PROVE log'[i] < log'[j]
    <3>1. i \in DOMAIN log
      BY <2>2, <2>4
    <3>2. CASE j \in DOMAIN log
      BY <2>2, <2>4, <3>1, <3>2 DEF LogInOrder
    <3>3. CASE log'[j] = emitted
      BY <2>1, <2>2, <3>1, <3>3 DEF LogInOrder
    <3> QED
      BY <2>2, <3>2, <3>3
  <2> QED
    BY <2>1, <2>3, <2>4 DEF LogInOrder
<1>3. CASE UNCHANGED <<log, torn, emitted>> /\ (Writing' => Writing)
  BY <1>3 DEF LogInOrder
<1> QED
  BY <1>1, <1>2, <1>3, OtherSteps

\* What the stream d or its client does leaves the others alone.
LEMMA OthersRest ==
    ASSUME TypeOK, NEW d \in Conns, StreamStep(d) \/ ClientStep(d)
    PROVE  /\ UNCHANGED <<log, torn, emitted, phase, pending>>
           /\ client'.param = client.param
           /\ \A c \in Conns : c # d =>
                stream'[c] = stream[c] /\ wire'[c] = wire[c] /\ got'[c] = got[c]
<1>1. UNCHANGED <<log, torn, emitted, phase, pending>>
  BY DEF StreamStep, ClientStep, Subscribe, ReadHistory, Replay, Follow,
     Unsubscribe, Connect, Receive, Disconnect, emitterVars
<1>2. ASSUME NEW c \in Conns, c # d
      PROVE  stream'[c] = stream[c] /\ wire'[c] = wire[c] /\ got'[c] = got[c]
  <2>1. CASE Subscribe(d) \/ ReadHistory(d) \/ Unsubscribe(d)
    BY <1>2, <2>1 DEF Subscribe, ReadHistory, Unsubscribe, TypeOK
  <2>2. CASE Replay(d) \/ Follow(d)
    BY <1>2, <2>2 DEF Replay, Follow, Send, TypeOK
  <2>3. CASE Connect(d)
    BY <1>2, <2>3 DEF Connect, TypeOK
  <2>4. CASE Receive(d) \/ Disconnect(d)
    BY <1>2, <2>4 DEF Receive, Disconnect, TypeOK
  <2> QED
    BY <2>1, <2>2, <2>3, <2>4 DEF StreamStep, ClientStep
<1>3. client'.param = client.param
  <2>1. CASE Connect(d) \/ Receive(d) \/ Disconnect(d)
    BY <2>1 DEF Connect, Receive, Disconnect, TypeOK
  <2>2. CASE StreamStep(d)
    BY <2>2 DEF StreamStep, Subscribe, ReadHistory, Replay, Follow, Unsubscribe
  <2> QED
    BY <2>1, <2>2 DEF ClientStep
<1> QED
  BY <1>1, <1>2, <1>3

LEMMA CourseType ==
    ASSUME TypeOK, NEW c \in Conns
    PROVE  Course(c) \in Seq(Nat)
<1>1. EventsOf(wire[c]) \in Seq(Nat) /\ EventsOf(stream[c].replay) \in Seq(Nat)
  BY StreamFields, EventsOfFrames
<1> QED
  BY <1>1, StreamFields, ConcatProperties DEF Course

\* Sending and receiving move events along the course of a connection.
LEMMA CourseStays ==
    ASSUME TypeOK, NEW c \in Conns, Replay(c) \/ Follow(c) \/ Receive(c)
    PROVE  Course(c)' = Course(c)
<1> DEFINE g == got[c]
           w == wire[c]
           r == stream[c].replay
           q == stream[c].queue
<1>1. g \in Seq(Nat) /\ w \in Seq(Frame) /\ r \in Seq(Frame) /\ q \in Seq(Nat)
  BY StreamFields
<1>2. EventsOf(w) \in Seq(Nat) /\ EventsOf(r) \in Seq(Nat)
  BY <1>1, EventsOfFrames
<1>3. Course(c) = g \o EventsOf(w) \o EventsOf(r) \o q
  BY DEF Course
<1>4. Course(c)' = got'[c] \o EventsOf(wire'[c]) \o EventsOf(stream'[c].replay)
                     \o stream'[c].queue
  BY DEF Course, EventsOf
<1>5. CASE Replay(c)
  <2> DEFINE h == Head(r)
             t == Tail(r)
             f == [id |-> h.id, ev |-> h.ev]
  <2>1. /\ got' = got /\ wire'[c] = Append(w, f)
        /\ stream'[c].replay = t /\ stream'[c].queue = q
    BY <1>5, StreamFields DEF Replay, Send, TypeOK, Stream
  <2>2. r # <<>>
    BY <1>5 DEF Replay
  <2>3. h \in Frame /\ t \in Seq(Frame) /\ EventsOf(r) = <<h.ev>> \o EventsOf(t)
    BY <1>1, <2>2, EventsOfLess
  <2>4. f \in Frame /\ h.ev \in Nat /\ f.ev = h.ev
    BY <2>3 DEF Frame
  <2> HIDE DEF f, h, t, r, w, g, q
  <2>5. EventsOf(Append(w, f)) = Append(EventsOf(w), h.ev) /\ EventsOf(t) \in Seq(Nat)
    BY <1>1, <2>3, <2>4, EventsOfMore, EventsOfFrames
  <2> DEFINE W == EventsOf(w)
             T == EventsOf(t)
             R == EventsOf(r)
             e == h.ev
  <2>6. /\ W \in Seq(Nat) /\ T \in Seq(Nat) /\ e \in Nat /\ R = <<e>> \o T /\ R \in Seq(Nat)
        /\ Course(c) = g \o W \o R \o q /\ Course(c)' = g \o Append(W, e) \o T \o q
    BY <1>2, <1>3, <1>4, <2>1, <2>3, <2>4, <2>5 DEF g
  <2> HIDE DEF W, T, R, e
  <2>7. g \o Append(W, e) = Append(g \o W, e) /\ g \o W \in Seq(Nat)
    BY <1>1, <2>6, LastJoins
  <2>8. Append(g \o W, e) \o T = (g \o W) \o R
    BY <2>6, <2>7, FirstMoves
  <2> QED
    BY <2>6, <2>7, <2>8
<1>6. CASE Follow(c)
  <2> DEFINE h == Head(q)
             t == Tail(q)
             f == [id |-> EventCount - 1, ev |-> h]
  <2>1. /\ got' = got /\ wire'[c] = Append(w, f)
        /\ stream'[c].replay = r /\ stream'[c].queue = t
    BY <1>6, StreamFields DEF Follow, Send, TypeOK, Stream
  <2>2. q # <<>> /\ r = <<>>
    BY <1>6 DEF Follow
  <2>3. h \in Nat /\ t \in Seq(Nat) /\ q = <<h>> \o t
    BY <1>1, <2>2
  <2>4. f \in Frame /\ f.ev = h
    BY <2>3 DEF Frame, EventCount, TypeOK
  <2> HIDE DEF f, h, t, w, g, q
  <2>5. EventsOf(Append(w, f)) = Append(EventsOf(w), h)
    BY <1>1, <2>3, <2>4, EventsOfMore
  <2> DEFINE W == EventsOf(w)
  <2>6. W \in Seq(Nat) /\ EventsOf(r) = <<>> /\ EventsOf(Append(w, f)) = Append(W, h)
    <3>1. EventsOf(<<>>) = <<>>
      BY DEF EventsOf
    <3> QED
      BY <1>2, <2>2, <2>5, <3>1
  <2>7. Course(c) = g \o W \o <<>> \o q /\ Course(c)' = g \o Append(W, h) \o <<>> \o t
    BY <1>3, <1>4, <2>1, <2>6 DEF g
  <2> HIDE DEF W, r
  <2> DEFINE a == g \o W
  <2>8. g \o Append(W, h) = Append(a, h) /\ a \in Seq(Nat)
    BY <1>1, <2>3, <2>6, LastJoins
  <2>9. Append(a, h) \in Seq(Nat)
    BY <2>3, <2>8
  <2>10. Course(c) = a \o q /\ Course(c)' = Append(a, h) \o t
    BY <2>7, <2>8, <2>9, ConcatEmptySeq
  <2> HIDE DEF a
  <2>11. Append(a, h) \o t = a \o (<<h>> \o t)
    BY <2>3, <2>8, FirstMoves
  <2> QED
    BY <2>3, <2>10, <2>11
<1>7. CASE Receive(c)
  <2> DEFINE h == Head(w)
             t == Tail(w)
  <2>1. /\ got'[c] = Append(g, h.ev) /\ wire'[c] = t /\ stream'[c] = stream[c]
        /\ w # <<>>
    BY <1>7 DEF Receive, TypeOK
  <2>2. h \in Frame /\ t \in Seq(Frame) /\ EventsOf(w) = <<h.ev>> \o EventsOf(t)
    BY <1>1, <2>1, EventsOfLess
  <2>3. h.ev \in Nat /\ EventsOf(t) \in Seq(Nat)
    BY <2>2, EventsOfFrames DEF Frame
  <2> HIDE DEF h, t, w, g
  <2> DEFINE e == h.ev
             T == EventsOf(t)
             W == EventsOf(w)
  <2>4. /\ e \in Nat /\ T \in Seq(Nat) /\ W = <<e>> \o T
        /\ Course(c) = g \o W \o EventsOf(r) \o q
        /\ Course(c)' = Append(g, e) \o T \o EventsOf(r) \o q
    BY <1>3, <1>4, <2>1, <2>2, <2>3 DEF w, g
  <2> HIDE DEF e, T, W
  <2>5. Append(g, e) \o T = g \o W
    BY <1>1, <2>4, FirstMoves
  <2> QED
    BY <2>4, <2>5
<1> QED
  BY <1>5, <1>6, <1>7

\* A callback adds the event at the end of a stream's course.
LEMMA CourseGrows ==
    ASSUME TypeOK, Shape, Notify, NEW c \in Conns, stream[c].st \in {"subscribed", "open"}
    PROVE  /\ c = Head(pending) =>
                /\ Course(c)' = Append(Course(c), emitted)
                /\ stream'[c].queue = Append(stream[c].queue, emitted)
                /\ c \notin ToSet(pending')
           /\ c # Head(pending) =>
                /\ Course(c)' = Course(c) /\ stream'[c].queue = stream[c].queue
                /\ c \in ToSet(pending') <=> c \in ToSet(pending)
           /\ stream'[c].st = stream[c].st /\ stream'[c].since = stream[c].since
           /\ stream'[c].subAt = stream[c].subAt /\ stream'[c].readAt = stream[c].readAt
           /\ UNCHANGED <<log, emitted, client>> /\ ~Writing /\ ~Writing'
<1> DEFINE d == Head(pending)
<1>1. pending # <<>> /\ pending \in Seq(Conns) /\ pending' = Tail(pending)
  BY DEF Notify, TypeOK
<1>2. /\ d \in Conns /\ ToSet(pending) = {d} \cup ToSet(pending')
      /\ d \notin ToSet(pending')
  BY <1>1, TailKeeps DEF Shape, Lists
<1>3. UNCHANGED <<log, emitted, client, wire, got>> /\ ~Writing /\ ~Writing'
  BY DEF Notify, Writing
<1>4. /\ stream'[c].st = stream[c].st /\ stream'[c].since = stream[c].since
      /\ stream'[c].subAt = stream[c].subAt /\ stream'[c].readAt = stream[c].readAt
      /\ stream'[c].replay = stream[c].replay
      /\ stream'[c].queue = IF c = d THEN Append(stream[c].queue, emitted)
                            ELSE stream[c].queue
  BY <1>2, StreamFields DEF Notify, TypeOK, Stream
<1> DEFINE a == got[c] \o EventsOf(wire[c]) \o EventsOf(stream[c].replay)
           q == stream[c].queue
<1>5. a \in Seq(Nat) /\ q \in Seq(Nat) /\ emitted \in Nat
  <2>1. EventsOf(wire[c]) \in Seq(Nat) /\ EventsOf(stream[c].replay) \in Seq(Nat)
    BY StreamFields, EventsOfFrames
  <2> QED
    BY <2>1, StreamFields, ConcatProperties DEF TypeOK
<1>6. Course(c) = a \o q /\ Course(c)' = a \o stream'[c].queue
  BY <1>3, <1>4 DEF Course, EventsOf
<1> HIDE DEF a, q
<1>7. a \o Append(q, emitted) = Append(a \o q, emitted)
  BY <1>5, LastJoins
<1> QED
  BY <1>2, <1>3, <1>4, <1>6, <1>7 DEF q

\* The history comes before what has been put in the queue.
LEMMA CourseBegins ==
    ASSUME TypeOK, Shape, NEW c \in Conns, ReadHistory(c)
    PROVE  Course(c)' = EventsOf(HistorySince(stream[c].since)) \o stream[c].queue
<1> DEFINE h == HistorySince(stream[c].since)
           q == stream[c].queue
<1>1. got'[c] = <<>> /\ wire'[c] = <<>> /\ stream'[c].replay = h /\ stream'[c].queue = q
  BY StreamFields DEF ReadHistory, Shape, Waiting, TypeOK, Stream
<1>2. EventsOf(h) \in Seq(Nat) /\ q \in Seq(Nat)
  BY StreamFields, HistoryType, EventsOfFrames
<1>3. Course(c)' = <<>> \o EventsOf(<<>>) \o EventsOf(h) \o q
  BY <1>1 DEF Course, EventsOf
<1>4. EventsOf(<<>>) = <<>> /\ <<>> \in Seq(Nat)
  BY EmptySequences DEF EventsOf
<1> HIDE DEF h, q
<1> DEFINE H == EventsOf(h)
<1>5. H \in Seq(Nat) /\ <<>> \o <<>> = <<>> /\ <<>> \o H = H
  BY <1>2, <1>4, ConcatEmptySeq
<1> QED
  BY <1>3, <1>4, <1>5 DEF h, q

-----------------------------------------------------------------------------
(* Nothing slips, and repeats stay at the seam *)

\* The event that is being emitted has still to be put in the queue of c.
Undelivered(c) == Writing \/ c \in ToSet(pending)

\* e came before the subscription, and c did not ask for it or cannot have it.
Behind(c, e) ==
    /\ e <= stream[c].subAt
    /\ \/ e \notin ToSet(log)
       \/ \E i \in 1 .. stream[c].since : i <= Len(log) /\ log[i] = e

\* A stream that has subscribed and not read the file has every later event in
\* its queue.
Delivers(c) ==
    /\ stream[c].st = "subscribed" =>
         \A e \in stream[c].subAt + 1 .. emitted :
             e \in ToSet(stream[c].queue) \/ (e = emitted /\ Undelivered(c))
    /\ stream[c].st = "open" =>
         \A e \in 1 .. emitted :
             e \in ToSet(Course(c)) \/ (e = emitted /\ Undelivered(c)) \/ Behind(c, e)

\* The subscription of c is not later than the last event, and earlier than one
\* that has still to be delivered.
Begun(c) ==
    /\ stream[c].subAt <= emitted
    /\ Undelivered(c) => stream[c].subAt < emitted

\* The events of s were emitted before e, or e is one of them and none writes it.
Within(s, e, writes) == \A i \in DOMAIN s : s[i] <= e /\ (writes => s[i] < e)

\* In the queue of a stream that has not read the file later events follow
\* earlier ones; after the reading a repeat is an event of the seam, and so is an
\* event that the history has and a callback has still to deliver.
SeamOnly(c) ==
    /\ stream[c].st = "subscribed" =>
         LET q == stream[c].queue IN
         /\ Begun(c) /\ Within(q, emitted, Writing)
         /\ \A i \in DOMAIN q : q[i] > stream[c].subAt /\ (Undelivered(c) => q[i] < emitted)
         /\ \A i, j \in DOMAIN q : i < j => q[i] < q[j]
    /\ stream[c].st = "open" =>
         LET s == Course(c) IN
         /\ Begun(c) /\ Within(s, emitted, Writing) /\ stream[c].readAt <= emitted
         /\ \A i \in DOMAIN s :
              Undelivered(c) /\ s[i] = emitted => stream[c].readAt = emitted
         /\ \A i, j \in DOMAIN s :
              i < j /\ s[i] >= s[j] => s[j] \in stream[c].subAt + 1 .. stream[c].readAt

Faithful(c) == Delivers(c) /\ SeamOnly(c)

\* A step that changes neither what c is given nor what it has still to be given.
LEMMA Undisturbed ==
    ASSUME NEW c \in Conns, Faithful(c), UNCHANGED <<log, emitted>>,
           Writing' <=> Writing, Undelivered(c)' <=> Undelivered(c),
           stream'[c].st = stream[c].st, stream'[c].since = stream[c].since,
           stream'[c].subAt = stream[c].subAt, stream'[c].readAt = stream[c].readAt,
           stream[c].st = "subscribed" => stream'[c].queue = stream[c].queue,
           stream[c].st = "open" => Course(c)' = Course(c)
    PROVE  Faithful(c)'
<1>1. \A e : Behind(c, e)' <=> Behind(c, e)
  BY DEF Behind
<1>2. Delivers(c)'
  BY <1>1 DEF Faithful, Delivers
<1>3. SeamOnly(c)'
  BY DEF Faithful, SeamOnly, Begun, Within
<1> QED
  BY <1>2, <1>3 DEF Faithful

\* A stream that has not subscribed, or has ended, promises nothing.
LEMMA NothingPromised ==
    ASSUME NEW c \in Conns, stream'[c].st \notin {"subscribed", "open"}
    PROVE  Faithful(c)'
BY DEF Faithful, Delivers, SeamOnly

LEMMA FaithfulSubscribe ==
    ASSUME TypeOK, Shape, NEW c \in Conns, Subscribe(c)
    PROVE  Faithful(c)'
<1>1. /\ UNCHANGED <<log, emitted, phase, pending>> /\ ~Writing
      /\ stream[c].st = "accepted" /\ stream'[c].st = "subscribed"
      /\ stream'[c].subAt = emitted /\ stream'[c].queue = stream[c].queue
  BY StreamFields DEF Subscribe, emitterVars, TypeOK, Stream
<1>2. stream'[c].queue = <<>>
  BY <1>1 DEF Shape, Waiting
<1>3. ~Undelivered(c)'
  BY <1>1 DEF Undelivered, Writing, Shape, Lists
<1>4. emitted' \in Nat /\ stream'[c].subAt = emitted'
  BY <1>1 DEF TypeOK
<1>5. Delivers(c)'
  BY <1>1, <1>4 DEF Delivers
<1>6. SeamOnly(c)'
  BY <1>1, <1>2, <1>3, <1>4 DEF SeamOnly, Begun, Within
<1> QED
  BY <1>5, <1>6 DEF Faithful

LEMMA FaithfulReading ==
    ASSUME TypeOK, Shape, LogInOrder, NEW c \in Conns, Faithful(c), ReadHistory(c)
    PROVE  Faithful(c)'
<1> DEFINE n == stream[c].since
           q == stream[c].queue
           h == HistorySince(n)
           H == EventsOf(h)
           s == Course(c)'
<1>1. /\ UNCHANGED <<log, emitted, phase, pending>>
      /\ stream[c].st = "subscribed" /\ stream'[c].st = "open"
      /\ stream'[c].subAt = stream[c].subAt /\ stream'[c].since = n
      /\ stream'[c].readAt = emitted
  BY StreamFields DEF ReadHistory, emitterVars, TypeOK, Stream
<1>2. /\ n \in Nat /\ q \in Seq(Nat) /\ stream[c].subAt \in Nat /\ emitted \in Nat
      /\ Len(log) \in Nat /\ DOMAIN log = 1 .. Len(log)
      /\ \A i \in 1 .. Len(log) : log[i] \in Nat
  <2>1. log \in Seq(Nat) /\ emitted \in Nat
    BY DEF TypeOK
  <2> QED
    BY <2>1, StreamFields
<1>3. /\ h \in Seq(Frame) /\ Len(h) = IF n <= Len(log) THEN Len(log) - n ELSE 0
      /\ \A i \in 1 .. Len(h) :
           n + i \in 1 .. Len(log) /\ h[i] = [id |-> n + i - 1, ev |-> log[n + i]]
  BY <1>2, HistoryType
<1>4. H \in Seq(Nat) /\ Len(H) = Len(h) /\ \A i \in 1 .. Len(H) : H[i] = h[i].ev
  BY <1>3, EventsOfFrames
<1>5. s = H \o q
  BY CourseBegins
<1> HIDE DEF h, H, s
<1>6. ASSUME NEW i \in 1 .. Len(H) PROVE n + i \in 1 .. Len(log) /\ H[i] = log[n + i]
  <2>1. i \in 1 .. Len(h)
    BY <1>4
  <2>2. n + i \in 1 .. Len(log) /\ h[i] = [id |-> n + i - 1, ev |-> log[n + i]]
    BY <1>3, <2>1
  <2>3. h[i].ev = log[n + i]
    BY <2>2
  <2> QED
    BY <1>4, <2>2, <2>3
<1>7. /\ s \in Seq(Nat) /\ \A e : e \in ToSet(s) <=> e \in ToSet(H) \/ e \in ToSet(q)
  BY <1>2, <1>4, <1>5, InConcat
<1>8. /\ Undelivered(c)' <=> Undelivered(c)
      /\ Writing' <=> Writing
      /\ \A e : Behind(c, e)' <=> Behind(c, e)
  BY <1>1 DEF Undelivered, Writing, Behind
<1>9. ASSUME NEW e \in 1 .. emitted
      PROVE  e \in ToSet(s) \/ (e = emitted /\ Undelivered(c)) \/ Behind(c, e)
  <2>1. CASE e > stream[c].subAt
    <3>1. e \in stream[c].subAt + 1 .. emitted
      BY <1>2, <2>1
    <3> QED
      BY <1>1, <1>7, <3>1 DEF Faithful, Delivers
  <2>2. CASE e <= stream[c].subAt /\ e \in ToSet(log)
    <3>1. PICK i \in 1 .. Len(log) : log[i] = e
      BY <1>2, <2>2 DEF ToSet
    <3>2. CASE i <= n
      <4>1. i \in 1 .. n
        BY <1>2, <3>2
      <4> QED
        BY <2>2, <3>1, <4>1 DEF Behind
    <3>3. CASE i > n
      <4>1. i - n \in 1 .. Len(H) /\ n + (i - n) = i
        <5>1. n <= Len(log) /\ i - n \in 1 .. Len(log) - n /\ n + (i - n) = i
          BY <1>2, <3>3
        <5> QED
          BY <1>3, <1>4, <5>1
      <4>2. H[i - n] = e
        BY <1>6, <3>1, <4>1
      <4>3. e \in ToSet(H)
        BY <1>4, <4>1, <4>2 DEF ToSet
      <4> QED
        BY <1>7, <4>3
    <3> QED
      BY <1>2, <3>2, <3>3
  <2>3. CASE e <= stream[c].subAt /\ e \notin ToSet(log)
    BY <2>3 DEF Behind
  <2> QED
    BY <1>2, <2>1, <2>2, <2>3
<1>10. Delivers(c)'
  BY <1>1, <1>8, <1>9 DEF Delivers, s
<1>11. \A i \in 1 .. Len(s) : \/ i \in 1 .. Len(H) /\ s[i] = H[i]
                              \/ /\ i > Len(H) /\ i - Len(H) \in 1 .. Len(q)
                                 /\ s[i] = q[i - Len(H)]
  BY SMTT(30), <1>2, <1>4, <1>5
<1>12. DOMAIN s = 1 .. Len(s) /\ DOMAIN q = 1 .. Len(q) /\ Len(H) \in Nat /\ Len(s) \in Nat
       /\ Len(q) \in Nat
  BY <1>2, <1>4, <1>7
<1>13. /\ Begun(c) /\ Within(q, emitted, Writing)
       /\ \A i \in 1 .. Len(q) :
            /\ q[i] \in Nat
            /\ q[i] > stream[c].subAt /\ (Undelivered(c) => q[i] < emitted)
            /\ q[i] <= emitted
       /\ \A i, j \in 1 .. Len(q) : i < j => q[i] < q[j]
  <2>1. /\ Begun(c) /\ Within(q, emitted, Writing)
        /\ \A i \in DOMAIN q : q[i] > stream[c].subAt /\ (Undelivered(c) => q[i] < emitted)
        /\ \A i, j \in DOMAIN q : i < j => q[i] < q[j]
    BY <1>1 DEF Faithful, SeamOnly
  <2>2. \A i \in 1 .. Len(q) : q[i] \in Nat
    BY SMTT(30), <1>2, <1>12
  <2> QED
    BY <1>12, <2>1, <2>2 DEF Within
<1>14. \A i \in 1 .. Len(H) : H[i] \in Nat /\ H[i] <= emitted /\ (Writing => H[i] < emitted)
  BY <1>2, <1>6 DEF LogInOrder
<1>15. \A i, j \in 1 .. Len(H) : i < j => H[i] < H[j]
  BY SMTT(30), <1>2, <1>6, <1>12 DEF LogInOrder
<1>16. Begun(c)' /\ Within(s, emitted', Writing')
  <2>1. \A i \in 1 .. Len(s) : s[i] <= emitted /\ (Writing => s[i] < emitted)
    BY <1>11, <1>13, <1>14 DEF Undelivered
  <2> QED
    BY <1>1, <1>8, <1>12, <1>13, <2>1 DEF Begun, Within
<1>17. ASSUME NEW i \in 1 .. Len(s), NEW j \in 1 .. Len(s), i < j, s[i] >= s[j]
       PROVE  s[j] \in stream[c].subAt + 1 .. emitted
  <2>1. CASE j \in 1 .. Len(H)
    BY <1>11, <1>12, <1>14, <1>15, <1>17, <2>1
  <2>2. CASE j - Len(H) \in 1 .. Len(q) /\ s[j] = q[j - Len(H)]
    <3>1. /\ s[j] \in Nat /\ s[j] > stream[c].subAt /\ s[j] <= emitted
      BY <1>13, <2>2
    <3>2. stream[c].subAt \in Nat /\ emitted \in Nat
      BY <1>2
    <3> HIDE <1>1, <1>2, <1>13
    <3> QED
      BY <3>1, <3>2
  <2> QED
    BY <1>11, <2>1, <2>2
<1>18. SeamOnly(c)'
  <2>1. \A i, j \in DOMAIN s : i < j /\ s[i] >= s[j] => s[j] \in stream[c].subAt + 1 .. emitted
    BY <1>12, <1>17
  <2> QED
    BY <1>1, <1>2, <1>16, <2>1 DEF SeamOnly, s
<1> QED
  BY <1>10, <1>18 DEF Faithful

LEMMA FaithfulStream ==
    ASSUME TypeOK, Shape, LogInOrder, NEW c \in Conns, Faithful(c), NEW d \in Conns,
           StreamStep(d) \/ ClientStep(d)
    PROVE  Faithful(c)'
<1>1. UNCHANGED <<log, emitted, phase, pending>>
  BY OthersRest
<1>2. CASE c # d
  <2>1. stream'[c] = stream[c] /\ wire'[c] = wire[c] /\ got'[c] = got[c]
    BY <1>2, OthersRest
  <2>2. Course(c)' = Course(c)
    BY <2>1 DEF Course, EventsOf
  <2>3. (Writing' <=> Writing) /\ (Undelivered(c)' <=> Undelivered(c))
    BY <1>1 DEF Writing, Undelivered
  <2> QED
    BY <1>1, <2>1, <2>2, <2>3, Undisturbed
<1>3. CASE c = d
  <2>1. CASE Subscribe(c)
    BY <2>1, FaithfulSubscribe
  <2>2. CASE ReadHistory(c)
    BY <2>2, FaithfulReading
  <2>3. CASE Replay(c) \/ Follow(c) \/ Receive(c)
    <3>1. stream[c].st = "open"
      BY <2>3 DEF Replay, Follow, Receive, Shape, Waiting
    <3>2. /\ stream'[c].st = stream[c].st /\ stream'[c].since = stream[c].since
          /\ stream'[c].subAt = stream[c].subAt /\ stream'[c].readAt = stream[c].readAt
      <4>1. CASE Replay(c)
        BY <4>1, StreamFields DEF Replay, TypeOK, Stream
      <4>2. CASE Follow(c)
        BY <4>2, StreamFields DEF Follow, TypeOK, Stream
      <4>3. CASE Receive(c)
        BY <4>3 DEF Receive
      <4> QED BY <2>3, <4>1, <4>2, <4>3
    <3>3. Course(c)' = Course(c)
      BY <2>3, CourseStays
    <3>4. (Writing' <=> Writing) /\ (Undelivered(c)' <=> Undelivered(c))
      BY <1>1 DEF Writing, Undelivered
    <3> QED
      BY <1>1, <3>1, <3>2, <3>3, <3>4, Undisturbed
  <2>4. CASE Unsubscribe(c) \/ Disconnect(c) \/ Connect(c)
    <3>1. stream'[c].st \in {"over", "lost", "accepted"}
      <4>1. CASE Unsubscribe(c)
        BY <4>1 DEF Unsubscribe, NoStream, TypeOK
      <4>2. CASE Disconnect(c)
        BY <4>2, StreamFields DEF Disconnect, TypeOK, Stream
      <4>3. CASE Connect(c)
        BY <4>3 DEF Connect, NoStream, TypeOK
      <4> QED BY <2>4, <4>1, <4>2, <4>3
    <3> QED
      BY <3>1, NothingPromised
  <2> QED
    BY <1>3, <2>1, <2>2, <2>3, <2>4 DEF StreamStep, ClientStep
<1> QED
  BY <1>2, <1>3

LEMMA FaithfulWrites ==
    ASSUME TypeOK, Shape, NEW c \in Conns, Faithful(c), EmitWrites
    PROVE  Faithful(c)'
<1> DEFINE s == Course(c)
           q == stream[c].queue
<1>1. /\ UNCHANGED <<log, pending, stream, wire, got>> /\ emitted' = emitted + 1
      /\ phase = "idle" /\ Writing'
  BY DEF EmitWrites, streamVars, Writing
<1>2. ~Undelivered(c) /\ Undelivered(c)'
  BY <1>1 DEF Undelivered, Writing, TypeOK, Shape, ToSet
<1>3. Course(c)' = s
  BY <1>1 DEF Course, EventsOf
<1>4. \A e : Behind(c, e)' <=> Behind(c, e)
  BY <1>1 DEF Behind
<1>5. emitted \in Nat /\ \A e \in 1 .. emitted' : e \in 1 .. emitted \/ e = emitted'
  BY <1>1 DEF TypeOK
<1>6. \A e \in stream[c].subAt + 1 .. emitted' :
        e \in stream[c].subAt + 1 .. emitted \/ e = emitted'
  BY <1>1, <1>5, StreamFields
<1>7. Delivers(c)'
  BY <1>1, <1>2, <1>3, <1>4, <1>5, <1>6 DEF Faithful, Delivers
<1>8. /\ q \in Seq(Nat) /\ s \in Seq(Nat) /\ stream[c].readAt \in Nat
      /\ stream[c].subAt \in Nat
  BY StreamFields, CourseType
<1> HIDE DEF s, q
<1>9. \A t \in Seq(Nat) : Within(t, emitted, Writing) =>
        Within(t, emitted', Writing') /\ \A i \in DOMAIN t : t[i] < emitted'
  <2>1. ASSUME NEW t \in Seq(Nat), Within(t, emitted, Writing), NEW i \in DOMAIN t
        PROVE  t[i] < emitted'
    <3>1. t[i] \in Nat /\ t[i] <= emitted
      BY <2>1 DEF Within
    <3> QED
      BY <1>1, <1>5, <3>1
  <2>2. ASSUME NEW t \in Seq(Nat), \A i \in DOMAIN t : t[i] < emitted'
        PROVE  Within(t, emitted', Writing')
    <3>1. \A i \in DOMAIN t : t[i] \in Nat
      OBVIOUS
    <3>2. emitted' \in Nat
      BY <1>1, <1>5
    <3> QED
      BY <2>2, <3>1, <3>2 DEF Within
  <2> QED
    BY <2>1, <2>2
<1>10. Begun(c) => Begun(c)'
  BY <1>1, <1>5, <1>8 DEF Begun
<1>11. SeamOnly(c)'
  <2>1. CASE stream[c].st = "subscribed"
    <3>1. /\ Begun(c) /\ Within(q, emitted, Writing)
          /\ \A i \in DOMAIN q : q[i] > stream[c].subAt
          /\ \A i, j \in DOMAIN q : i < j => q[i] < q[j]
      BY <2>1 DEF Faithful, SeamOnly, q
    <3>2. stream'[c].st = "subscribed" /\ stream'[c].queue = q /\ stream'[c] = stream[c]
      BY <1>1, <2>1 DEF q
    <3> QED
      BY <1>8, <1>9, <1>10, <3>1, <3>2 DEF SeamOnly
  <2>2. CASE stream[c].st = "open"
    <3>1. /\ Begun(c) /\ Within(s, emitted, Writing) /\ stream[c].readAt <= emitted
          /\ \A i, j \in DOMAIN s :
               i < j /\ s[i] >= s[j] => s[j] \in stream[c].subAt + 1 .. stream[c].readAt
      BY <2>2 DEF Faithful, SeamOnly, s
    <3>2. stream'[c].st = "open" /\ stream'[c] = stream[c]
      BY <1>1, <2>2
    <3>3. stream'[c].readAt <= emitted'
      BY <1>1, <1>5, <1>8, <3>1
    <3>4. \A i \in DOMAIN s : s[i] # emitted'
      BY <1>8, <1>9, <3>1
    <3> QED
      BY <1>3, <1>8, <1>9, <1>10, <3>1, <3>2, <3>3, <3>4 DEF SeamOnly
  <2>3. CASE stream[c].st \notin {"subscribed", "open"}
    BY <1>1, <2>3 DEF SeamOnly
  <2> QED
    BY <2>1, <2>2, <2>3
<1> QED
  BY <1>7, <1>11 DEF Faithful

\* The line is in the file, and who listens is on the list of the callbacks.
LEMMA FaithfulWritten ==
    ASSUME TypeOK, Shape, NEW c \in Conns, Faithful(c), EmitWritten
    PROVE  Faithful(c)'
<1> DEFINE s == Course(c)
           q == stream[c].queue
<1>1. /\ UNCHANGED <<emitted, stream, wire, got>> /\ Writing /\ ~Writing' /\ Undelivered(c)
      /\ pending' = subs[runs] /\ emitted \in Nat
  BY DEF EmitWritten, streamVars, Writing, Undelivered, TypeOK
<1>2. /\ \A i \in 1 .. Len(log) : i \in 1 .. Len(log') /\ log'[i] = log[i]
      /\ \A i \in 1 .. Len(log') : i \in 1 .. Len(log) \/ log'[i] = emitted
      /\ Len(log) \in Nat /\ DOMAIN log = 1 .. Len(log) /\ DOMAIN log' = 1 .. Len(log')
      /\ Len(log) <= Len(log')
  <2>1. TypeOK /\ EmitWritten
    OBVIOUS
  <2>2. /\ log' = log \/ Len(log') = Len(log) + 1
        /\ Len(log) \in Nat /\ DOMAIN log = 1 .. Len(log) /\ DOMAIN log' = 1 .. Len(log')
        /\ \A i \in DOMAIN log : i \in DOMAIN log' /\ log'[i] = log[i]
        /\ \A i \in DOMAIN log' : i \in DOMAIN log \/ (i = Len(log) + 1 /\ log'[i] = emitted)
    BY <2>1, LogGrows
  <2>3. Len(log) <= Len(log')
    <3>1. Len(log') = Len(log) \/ Len(log') = Len(log) + 1
      BY <2>2, Zenon
    <3>2. Len(log) \in Nat
      BY <2>2
    <3> QED
      BY <3>1, <3>2
  <2>4. /\ \A i \in 1 .. Len(log) : i \in 1 .. Len(log') /\ log'[i] = log[i]
        /\ \A i \in 1 .. Len(log') : i \in 1 .. Len(log) \/ log'[i] = emitted
    BY <2>2, Zenon
  <2> QED
    BY <2>2, <2>3, <2>4
<1>3. ASSUME NEW e, Behind(c, e), e # emitted PROVE Behind(c, e)'
  <2>1. CASE e \notin ToSet(log)
    <3>1. e \notin ToSet(log')
      BY <1>2, <1>3, <2>1 DEF ToSet
    <3> QED
      BY <1>1, <1>3, <3>1 DEF Behind
  <2>2. ASSUME NEW i \in 1 .. stream[c].since, i <= Len(log), log[i] = e
        PROVE  Behind(c, e)'
    <3>1. i \in 1 .. Len(log) /\ i <= Len(log') /\ log'[i] = e
      BY <1>2, <2>2, StreamFields
    <3> QED
      BY <1>1, <1>3, <3>1 DEF Behind
  <2> QED
    BY <1>3, <2>1, <2>2 DEF Behind
<1>4. stream[c].st \in {"subscribed", "open"} => Undelivered(c)'
  <2>1. runs # None /\ runs = shared
    BY <1>1 DEF EmitWritten, Writing, TypeOK, Shape, Attached
  <2> QED
    BY <1>1, <2>1 DEF Shape, Attached, Undelivered
<1>5. Course(c)' = s
  BY <1>1 DEF Course, EventsOf
<1>6. Delivers(c)'
  BY <1>1, <1>3, <1>4, <1>5 DEF Faithful, Delivers
<1>7. s \in Seq(Nat) /\ q \in Seq(Nat)
  BY StreamFields, CourseType
<1>8. Begun(c) => Begun(c)'
  BY <1>1 DEF Begun
<1> HIDE DEF s, q
<1>9. \A t \in Seq(Nat) : Within(t, emitted, Writing) =>
        Within(t, emitted', Writing') /\ \A i \in DOMAIN t : t[i] < emitted
  BY <1>1 DEF Within
<1>10. SeamOnly(c)'
  <2>1. CASE stream[c].st = "subscribed"
    <3>1. /\ Begun(c) /\ Within(q, emitted, Writing)
          /\ \A i \in DOMAIN q : q[i] > stream[c].subAt
          /\ \A i, j \in DOMAIN q : i < j => q[i] < q[j]
      BY <2>1 DEF Faithful, SeamOnly, q
    <3> QED
      BY <1>1, <1>7, <1>8, <1>9, <2>1, <3>1 DEF SeamOnly, q
  <2>2. CASE stream[c].st = "open"
    <3>1. /\ Begun(c) /\ Within(s, emitted, Writing) /\ stream[c].readAt <= emitted
          /\ \A i, j \in DOMAIN s :
               i < j /\ s[i] >= s[j] => s[j] \in stream[c].subAt + 1 .. stream[c].readAt
      BY <2>2 DEF Faithful, SeamOnly, s
    <3>2. \A i \in DOMAIN s : s[i] # emitted
      <4>1. \A i \in DOMAIN s : s[i] \in Nat /\ s[i] < emitted
        BY <1>7, <1>9, <3>1
      <4> QED
        BY <1>1, <4>1
    <3> QED
      BY <1>1, <1>5, <1>7, <1>8, <1>9, <2>2, <3>1, <3>2 DEF SeamOnly
  <2>3. CASE stream[c].st \notin {"subscribed", "open"}
    BY <1>1, <2>3 DEF SeamOnly
  <2> QED
    BY <2>1, <2>2, <2>3
<1> QED
  BY <1>6, <1>10 DEF Faithful

\* The callback puts the event that is being emitted behind all c is given.
LEMMA FaithfulNotify ==
    ASSUME TypeOK, Shape, NEW c \in Conns, Faithful(c), Notify
    PROVE  Faithful(c)'
<1>1. CASE stream[c].st \notin {"subscribed", "open"}
  <2>1. stream'[c].st \notin {"subscribed", "open"}
    BY <1>1, StreamFields DEF Notify, TypeOK, Stream
  <2> QED
    BY <2>1, NothingPromised
<1>2. CASE stream[c].st \in {"subscribed", "open"} /\ c # Head(pending)
  <2>1. /\ stream'[c].st = stream[c].st /\ stream'[c].since = stream[c].since
        /\ stream'[c].subAt = stream[c].subAt /\ stream'[c].readAt = stream[c].readAt
        /\ stream'[c].queue = stream[c].queue /\ Course(c)' = Course(c)
        /\ UNCHANGED <<log, emitted>> /\ (Writing' <=> Writing)
        /\ ~Writing /\ ~Writing' /\ (c \in ToSet(pending') <=> c \in ToSet(pending))
    BY <1>2, CourseGrows
  <2>2. Undelivered(c)' <=> Undelivered(c)
    BY <2>1 DEF Undelivered
  <2> QED
    BY <2>1, <2>2, Undisturbed
<1>3. CASE stream[c].st \in {"subscribed", "open"} /\ c = Head(pending)
  <2> DEFINE s == Course(c)
             q == stream[c].queue
             t == Append(s, emitted)
             p == Append(q, emitted)
  <2>1. /\ Course(c)' = t /\ stream'[c].queue = p
        /\ stream'[c].st = stream[c].st /\ stream'[c].since = stream[c].since
        /\ stream'[c].subAt = stream[c].subAt /\ stream'[c].readAt = stream[c].readAt
        /\ UNCHANGED <<log, emitted>> /\ ~Writing'
        /\ c \notin ToSet(pending')
    BY <1>3, CourseGrows
  <2>2. Undelivered(c) /\ ~Undelivered(c)'
    <3>1. pending # <<>> /\ pending \in Seq(Conns)
      BY DEF Notify, TypeOK
    <3>2. c \in ToSet(pending)
      BY <1>3, <3>1, TailKeeps
    <3> QED
      BY <2>1, <3>2 DEF Undelivered
  <2>3. \A e : Behind(c, e)' <=> Behind(c, e)
    BY <2>1 DEF Behind
  <2>4. s \in Seq(Nat) /\ q \in Seq(Nat) /\ emitted \in Nat /\ stream[c].subAt \in Nat
        /\ stream[c].readAt \in Nat
    BY StreamFields, CourseType DEF TypeOK
  <2>5. /\ ToSet(t) = ToSet(s) \cup {emitted} /\ ToSet(p) = ToSet(q) \cup {emitted}
        /\ t \in Seq(Nat) /\ p \in Seq(Nat)
    BY <2>4, AppendKeeps
  <2>6. Delivers(c)'
    BY <2>1, <2>2, <2>3, <2>5 DEF Faithful, Delivers
  <2> HIDE DEF s, q
  <2>7. \A u \in Seq(Nat) :
          /\ DOMAIN u = 1 .. Len(u) /\ Len(u) \in Nat
          /\ DOMAIN Append(u, emitted) = 1 .. Len(u) + 1
          /\ \A i \in 1 .. Len(u) : Append(u, emitted)[i] = u[i] /\ u[i] \in Nat
          /\ Append(u, emitted)[Len(u) + 1] = emitted
    BY <2>4
  <2>8. ASSUME NEW u \in Seq(Nat), Within(u, emitted, Writing)
        PROVE  /\ \A i \in DOMAIN u : u[i] <= emitted
               /\ Within(Append(u, emitted), emitted', Writing')
    <3>1. \A i \in DOMAIN u : u[i] <= emitted
      BY <2>8 DEF Within
    <3>2. \A i \in DOMAIN Append(u, emitted) : Append(u, emitted)[i] <= emitted
      BY SMTT(30), <2>4, <2>7, <3>1
    <3> QED
      BY <2>1, <3>1, <3>2 DEF Within
  <2>9. Begun(c) => stream[c].subAt < emitted /\ Begun(c)'
    BY <2>1, <2>2 DEF Begun
  <2>10. SeamOnly(c)'
    <3>1. CASE stream[c].st = "subscribed"
      <4>1. /\ Begun(c) /\ Within(q, emitted, Writing)
            /\ \A i \in DOMAIN q : q[i] > stream[c].subAt /\ q[i] < emitted
            /\ \A i, j \in DOMAIN q : i < j => q[i] < q[j]
        BY <2>2, <3>1 DEF Faithful, SeamOnly, q
      <4>2. \A i \in DOMAIN p : p[i] > stream[c].subAt
        BY <2>4, <2>7, <2>9, <4>1
      <4>3. \A i, j \in DOMAIN p : i < j => p[i] < p[j]
        BY <2>4, <2>7, <4>1
      <4> QED
        BY <2>1, <2>2, <2>4, <2>8, <2>9, <3>1, <4>1, <4>2, <4>3 DEF SeamOnly
    <3>2. CASE stream[c].st = "open"
      <4>1. /\ Begun(c) /\ Within(s, emitted, Writing) /\ stream[c].readAt <= emitted
            /\ \A i \in DOMAIN s : s[i] = emitted => stream[c].readAt = emitted
            /\ \A i, j \in DOMAIN s :
                 i < j /\ s[i] >= s[j] => s[j] \in stream[c].subAt + 1 .. stream[c].readAt
        BY <2>2, <3>2 DEF Faithful, SeamOnly, s
      <4>2. ASSUME NEW i \in DOMAIN t, NEW j \in DOMAIN t, i < j, t[i] >= t[j]
            PROVE  t[j] \in stream[c].subAt + 1 .. stream[c].readAt
        <5>1. i \in 1 .. Len(s) /\ t[i] = s[i] /\ s[i] \in Nat /\ s[i] <= emitted
          BY <2>4, <2>7, <2>8, <4>1, <4>2
        <5>2. CASE j \in 1 .. Len(s)
          BY <2>4, <2>7, <4>1, <4>2, <5>1, <5>2
        <5>3. CASE j = Len(s) + 1
          <6>1. t[j] = emitted /\ s[i] = emitted
            BY <2>4, <2>7, <4>2, <5>1, <5>3
          <6>2. stream[c].readAt = emitted
            BY <2>4, <2>7, <4>1, <5>1, <6>1
          <6> QED
            BY <2>4, <2>9, <4>1, <6>1, <6>2
        <5> QED
          BY <2>4, <2>7, <5>2, <5>3
      <4> QED
        BY <2>1, <2>2, <2>4, <2>8, <2>9, <3>2, <4>1, <4>2 DEF SeamOnly
    <3> QED
      BY <1>3, <3>1, <3>2
  <2> QED
    BY <2>6, <2>10 DEF Faithful
<1> QED
  BY <1>1, <1>2, <1>3

LEMMA FaithfulStep ==
    ASSUME TypeOK, Shape, LogInOrder, NEW c \in Conns, Faithful(c), [Next]_vars
    PROVE  Faithful(c)'
<1>1. CASE RunBegins \/ RunEnds \/ UNCHANGED vars
  <2>1. UNCHANGED <<log, emitted, phase, pending, stream, wire, got>>
    BY <1>1 DEF RunBegins, RunEnds, vars, emitterVars, streamVars
  <2>2. /\ Course(c)' = Course(c) /\ (Writing' <=> Writing)
        /\ (Undelivered(c)' <=> Undelivered(c))
    BY <2>1 DEF Course, EventsOf, Writing, Undelivered
  <2> QED
    BY <2>1, <2>2, Undisturbed
<1>2. CASE EmitWrites
  BY <1>2, FaithfulWrites
<1>3. CASE EmitWritten
  BY <1>3, FaithfulWritten
<1>4. CASE Notify
  BY <1>4, FaithfulNotify
<1>5. CASE Crash
  <2>1. stream'[c].st \in {"unused", "over"}
    BY <1>5 DEF Crash, NoStream
  <2> QED
    BY <2>1, NothingPromised
<1>6. CASE \E d \in Conns : StreamStep(d) \/ ClientStep(d)
  BY <1>6, FaithfulStream
<1> QED
  BY <1>1, <1>2, <1>3, <1>4, <1>5, <1>6 DEF Next

\* The inductive invariant of the streams.
IInv == TypeOK /\ Shape /\ LogInOrder /\ \A c \in Conns : Faithful(c)

LEMMA IInvAlways == Spec => []IInv
<1>1. Init => IInv
  <2> SUFFICES ASSUME Init PROVE IInv
    OBVIOUS
  <2>1. LogInOrder
    BY DEF Init, LogInOrder
  <2>2. \A c \in Conns : Faithful(c)
    BY DEF Init, Faithful, Delivers, SeamOnly, NoStream
  <2> QED
    BY <2>1, <2>2, TypeInit, ShapeInit DEF IInv
<1>2. IInv /\ [Next]_vars => IInv'
  BY TypeStep, ShapeStep, LogStep, FaithfulStep DEF IInv
<1> QED
  BY <1>1, <1>2, PTL DEF Spec

\* From the moment an open stream has read the history, whatever the file has
\* from its start on and whatever is emitted after its subscription is on its
\* way to the client, for any number of events, connections, runs, torn lines
\* and crashes (sse.py:58-75, events.py:45-84 and 132-150).
THEOREM NothingIsLost == Spec => []NothingSlips
<1>1. IInv => NothingSlips
  <2> SUFFICES ASSUME IInv, NEW c \in Conns, Open(c), NEW e \in 1 .. emitted
               PROVE  \/ e \in ToSet(Course(c))
                      \/ e = emitted /\ (Writing \/ c \in ToSet(pending))
                      \/ /\ e <= stream[c].subAt
                         /\ \/ e \notin ToSet(log)
                            \/ \E i \in 1 .. stream[c].since : i <= Len(log) /\ log[i] = e
    BY DEF NothingSlips
  <2> QED
    BY DEF IInv, Faithful, Delivers, Undelivered, Behind, Open
<1> QED
  BY <1>1, IInvAlways, PTL

\* A connection gives an event again, or after a later one, only when the event
\* was emitted between its subscription and its read of the file (sse.py:58-66).
THEOREM RepeatsStayAtTheSeam == Spec => []RepeatsOnlyAtTheSeam
<1>1. IInv => RepeatsOnlyAtTheSeam
  BY DEF IInv, Faithful, SeamOnly, Open, RepeatsOnlyAtTheSeam
<1> QED
  BY <1>1, IInvAlways, PTL

-----------------------------------------------------------------------------
(* Nothing that was seen is replayed *)

\* e stands in l at one of the first n places, if at all.
Before(l, e, n) == \A i \in DOMAIN l : l[i] = e => i <= n

\* An id on the wire is not below the place of its event, ids do not fall, and
\* those still to come from the history are not below it.
OnWire(c) ==
    /\ \A k \in DOMAIN wire[c] :
         /\ Before(log, wire[c][k].ev, wire[c][k].id + 1)
         /\ wire[c][k].id \in client.last .. EventCount - 1
         /\ \A l \in DOMAIN stream[c].replay : wire[c][k].id <= stream[c].replay[l].id
    /\ \A k, l \in DOMAIN wire[c] : k < l => wire[c][k].id <= wire[c][l].id

\* An id of the history is the place of its event, from the stream's start on.
InReplay(c) ==
    /\ \A k \in DOMAIN stream[c].replay :
         /\ stream[c].replay[k].id + 1 \in DOMAIN log
         /\ log[stream[c].replay[k].id + 1] = stream[c].replay[k].ev
         /\ stream[c].replay[k].id >= stream[c].since
         /\ client.conn = c => stream[c].replay[k].id >= client.last
    /\ \A k, l \in DOMAIN stream[c].replay :
         k < l => stream[c].replay[k].id < stream[c].replay[l].id

\* A stream starts behind the cursor the client came with.
Resumes(c) ==
    stream[c].st \in {"accepted", "subscribed"} => stream[c].since = client.last + 1

Frames(c) == OnWire(c) /\ InReplay(c) /\ Resumes(c)

\* What the client was given stands up to its cursor, ...
Seen(c) ==
    /\ \A k \in DOMAIN got[c] : Before(log, got[c][k], client.last + 1)
    /\ Within(got[c], emitted, Writing)

\* ... and what a connection gave it stands before the start of a later one.
Left(c, d) ==
    c < d /\ stream[d].st \notin {"unused", "over"} =>
        \A k \in DOMAIN got[c] : Before(log, got[c][k], stream[d].since)

Known ==
    /\ client.last \in -1 .. EventCount - 1
    /\ \A c \in Conns : Frames(c) /\ Seen(c) /\ \A d \in Conns : Left(c, d)

\* The cursor of a client without ?since=.
Cursor == client.param = 0 => Known

\* The live connection is the last one that was opened.
Latest ==
    \A c, d \in Conns : client.conn = c /\ c < d => stream[d].st = "unused"

LEMMA BeforeMore ==
    ASSUME NEW l \in Seq(Nat), NEW e, NEW n \in Int, NEW m \in Int, n <= m, Before(l, e, n)
    PROVE  Before(l, e, m)
<1>1. \A i \in DOMAIN l : i \in Int
  OBVIOUS
<1> QED
  BY <1>1 DEF Before

\* A completed line is behind all that was before.
LEMMA BeforeKept ==
    ASSUME TypeOK, EmitWritten, NEW e, NEW n, Before(log, e, n), e # emitted
    PROVE  Before(log', e, n)
<1>1. /\ \A i \in DOMAIN log : i \in DOMAIN log' /\ log'[i] = log[i]
      /\ \A i \in DOMAIN log' : i \in DOMAIN log \/ (i = Len(log) + 1 /\ log'[i] = emitted)
  BY LogGrows
<1> QED
  BY <1>1 DEF Before

\* An event on the wire was emitted, and is not the one that is being written.
LEMMA WireWithin ==
    ASSUME TypeOK, Shape, NEW c \in Conns, Faithful(c), NEW k \in DOMAIN wire[c]
    PROVE  /\ wire[c][k] \in Frame /\ wire[c][k].ev \in Nat /\ wire[c][k].ev <= emitted
           /\ Writing => wire[c][k].ev < emitted
           /\ stream[c].st = "open" /\ client.conn = c
<1> DEFINE w == wire[c]
           W == EventsOf(w)
           R == EventsOf(stream[c].replay)
           e == w[k].ev
<1>1. w \in Seq(Frame) /\ DOMAIN w = 1 .. Len(w) /\ k \in 1 .. Len(w) /\ w[k] \in Frame
  BY StreamFields
<1>2. /\ W \in Seq(Nat) /\ R \in Seq(Nat) /\ Len(W) = Len(w)
      /\ got[c] \in Seq(Nat) /\ stream[c].queue \in Seq(Nat)
      /\ \A i \in 1 .. Len(w) : W[i] = w[i].ev
  BY <1>1, StreamFields, EventsOfFrames
<1>3. stream[c].st = "open" /\ client.conn = c
  BY <1>1 DEF Shape, Waiting, Attached, Live
<1> HIDE DEF w, W, R
<1>4. e \in ToSet(W)
  <2>1. DOMAIN W = 1 .. Len(W)
    BY <1>2
  <2> QED
    BY <1>1, <1>2, <2>1 DEF ToSet
<1>5. Course(c) = got[c] \o W \o R \o stream[c].queue
  BY DEF Course, W, R, w
<1>6. got[c] \o W \in Seq(Nat) /\ e \in ToSet(got[c] \o W)
  BY <1>2, <1>4, InConcat
<1>7. got[c] \o W \o R \in Seq(Nat) /\ e \in ToSet(got[c] \o W \o R)
  BY <1>2, <1>6, InConcat
<1> DEFINE a == got[c] \o W \o R
           q == stream[c].queue
<1>8. e \in ToSet(Course(c))
  <2>1. a \in Seq(Nat) /\ q \in Seq(Nat) /\ e \in ToSet(a) /\ Course(c) = a \o q
    BY <1>2, <1>5, <1>7
  <2> HIDE DEF a, q, e
  <2> QED
    BY <2>1, InConcat
<1>9. Within(Course(c), emitted, Writing)
  BY <1>3 DEF Faithful, SeamOnly
<1>10. e <= emitted /\ (Writing => e < emitted)
  BY <1>8, <1>9 DEF Within, ToSet
<1> QED
  BY <1>1, <1>3, <1>10 DEF Frame, w

\* Steps after which a stream has the frames it had, or none.
LEMMA FramesKept ==
    ASSUME TypeOK, NEW c \in Conns, Frames(c),
           log' = log, client'.last = client.last, EventCount' \in Nat, EventCount' >= EventCount,
           client'.conn = c => client.conn = c,
           wire'[c] \in {wire[c], <<>>},
           stream'[c].replay = <<>> \/ /\ stream'[c].replay = stream[c].replay
                                       /\ stream'[c].since = stream[c].since,
           stream'[c].st \in {"accepted", "subscribed"} =>
               /\ stream[c].st \in {"accepted", "subscribed"}
               /\ stream'[c].since = stream[c].since
    PROVE  Frames(c)'
<1>1. EventCount \in Nat /\ client.last \in Int
  BY DEF TypeOK, EventCount
<1>2. \A k \in DOMAIN wire[c] : wire[c][k].id \in Int
  <2>1. \A k \in DOMAIN wire[c] : wire[c][k] \in Frame
    BY StreamFields
  <2> QED
    BY <2>1 DEF Frame
<1>3. OnWire(c)'
  BY <1>1, <1>2 DEF Frames, OnWire
<1>4. InReplay(c)'
  BY DEF Frames, InReplay
<1>5. Resumes(c)'
  BY DEF Frames, Resumes
<1> QED
  BY <1>3, <1>4, <1>5 DEF Frames

\* Steps in which the client is given nothing and no connection is opened.
LEMMA SeenKept ==
    ASSUME TypeOK, Known,
           log' = log, emitted' = emitted, got' = got, client'.last = client.last,
           Writing' => Writing,
           \A d \in Conns : stream'[d].st \notin {"unused", "over"} =>
               stream[d].st \notin {"unused", "over"} /\ stream'[d].since = stream[d].since
    PROVE  \A c \in Conns : Seen(c)' /\ \A d \in Conns : Left(c, d)'
<1>1. ASSUME NEW c \in Conns PROVE Seen(c)'
  BY DEF Known, Seen, Within
<1>2. ASSUME NEW c \in Conns, NEW d \in Conns PROVE Left(c, d)'
  BY DEF Known, Left
<1> QED
  BY <1>1, <1>2

LEMMA KnownEmit ==
    ASSUME TypeOK, Shape, Known, \A c \in Conns : Faithful(c), EmitWrites \/ EmitWritten
    PROVE  Known'
<1>1. /\ UNCHANGED <<stream, wire, got, client>> /\ emitted \in Nat /\ torn \in Nat
      /\ client.last \in Int
  BY DEF EmitWrites, EmitWritten, streamVars, TypeOK
<1>2. EventCount \in Nat /\ EventCount' \in Nat /\ EventCount' >= EventCount
  <2>1. CASE EmitWrites
    BY <2>1 DEF EmitWrites, EventCount, TypeOK
  <2>2. CASE EmitWritten
    <3>1. CASE phase = "writing"
      <4>1. log' = Append(log, emitted) /\ torn' = torn - 1 /\ torn > 0
        BY <2>2, <3>1 DEF EmitWritten, TypeOK
      <4>2. Len(log') = Len(log) + 1 /\ Len(log) \in Nat
        BY <1>1, <4>1 DEF TypeOK
      <4> QED
        BY <1>1, <4>1, <4>2 DEF EventCount
    <3>2. CASE phase # "writing"
      BY <2>2, <3>2 DEF EmitWritten, EventCount, TypeOK
    <3> QED
      BY <3>1, <3>2
  <2> QED
    BY <2>1, <2>2
<1>3. client'.last \in -1 .. EventCount' - 1
  BY <1>1, <1>2 DEF Known
<1>4. CASE EmitWrites
  <2>1. log' = log /\ emitted' = emitted + 1 /\ ~Writing /\ Writing'
    BY <1>4 DEF EmitWrites, Writing
  <2>2. ASSUME NEW c \in Conns PROVE Frames(c)'
    BY <1>1, <1>2, <2>1, FramesKept DEF Known
  <2>3. ASSUME NEW c \in Conns PROVE Seen(c)'
    <3>1. got[c] \in Seq(Nat) /\ Within(got[c], emitted, Writing)
      BY StreamFields DEF Known, Seen
    <3>2. \A k \in DOMAIN got[c] : got[c][k] \in Nat /\ got[c][k] <= emitted
      BY <3>1 DEF Within
    <3>3. Within(got[c], emitted', Writing')
      BY <1>1, <2>1, <3>2 DEF Within
    <3> QED
      BY <1>1, <2>1, <3>3 DEF Known, Seen
  <2>4. ASSUME NEW c \in Conns, NEW d \in Conns PROVE Left(c, d)'
    BY <1>1, <2>1 DEF Known, Left
  <2> QED
    BY <1>1, <1>3, <2>2, <2>3, <2>4 DEF Known
<1>5. CASE EmitWritten
  <2>1. emitted' = emitted /\ Writing /\ ~Writing'
    BY <1>5 DEF EmitWritten, Writing
  <2>2. ASSUME NEW c \in Conns PROVE Frames(c)'
    <3>1. ASSUME NEW k \in DOMAIN wire[c]
          PROVE  /\ Before(log', wire[c][k].ev, wire[c][k].id + 1)
                 /\ wire[c][k].id \in client.last .. EventCount' - 1
      <4>1. wire[c][k] \in Frame /\ wire[c][k].ev # emitted
        BY <1>1, <2>1, WireWithin
      <4>2. /\ Before(log, wire[c][k].ev, wire[c][k].id + 1)
            /\ wire[c][k].id \in client.last .. EventCount - 1
        BY DEF Known, Frames, OnWire
      <4>3. Before(log', wire[c][k].ev, wire[c][k].id + 1)
        BY <1>5, <4>1, <4>2, BeforeKept
      <4>4. wire[c][k].id \in client.last .. EventCount' - 1
        BY <1>1, <1>2, <4>1, <4>2 DEF Frame
      <4> QED
        BY <4>3, <4>4
    <3>2. OnWire(c)'
      BY <1>1, <3>1 DEF Known, Frames, OnWire
    <3>3. \A i \in DOMAIN log : i \in DOMAIN log' /\ log'[i] = log[i]
      BY <1>5, LogGrows
    <3>4. InReplay(c)'
      BY <1>1, <3>3 DEF Known, Frames, InReplay
    <3>5. Resumes(c)'
      BY <1>1 DEF Known, Frames, Resumes
    <3> QED
      BY <3>2, <3>4, <3>5 DEF Frames
  <2>3. ASSUME NEW c \in Conns PROVE Seen(c)' /\ \A d \in Conns : Left(c, d)'
    <3>1. /\ \A k \in DOMAIN got[c] : got[c][k] \in Nat /\ got[c][k] < emitted
          /\ Within(got[c], emitted', Writing')
      BY <2>1, StreamFields DEF Known, Seen, Within
    <3>2. ASSUME NEW k \in DOMAIN got[c], NEW n, Before(log, got[c][k], n)
          PROVE  Before(log', got[c][k], n)
      <4>1. got[c][k] # emitted
        BY <1>1, <3>1
      <4> QED
        BY <1>5, <3>2, <4>1, BeforeKept
    <3>3. Seen(c)'
      BY <1>1, <3>1, <3>2 DEF Known, Seen
    <3>4. ASSUME NEW d \in Conns PROVE Left(c, d)'
      BY <1>1, <3>2 DEF Known, Left
    <3> QED
      BY <3>3, <3>4
  <2> QED
    BY <1>1, <1>3, <2>2, <2>3 DEF Known
<1> QED
  BY <1>4, <1>5

\* Steps that move no frame: of the registry, of a callback, a crash.
LEMMA KnownRest ==
    ASSUME TypeOK, Known, RunBegins \/ RunEnds \/ Notify \/ Crash \/ UNCHANGED vars
    PROVE  Known'
<1>1. /\ UNCHANGED <<log, torn, emitted, got>> /\ client'.last = client.last
      /\ Writing' => Writing
  BY DEF RunBegins, RunEnds, Notify, Crash, vars, emitterVars, streamVars, Writing, TypeOK
<1>2. EventCount' = EventCount /\ EventCount \in Nat
  BY <1>1 DEF EventCount, TypeOK
<1>3. ASSUME NEW c \in Conns
      PROVE  /\ client'.conn = c => client.conn = c
             /\ wire'[c] \in {wire[c], <<>>}
             /\ \/ /\ stream'[c].st = stream[c].st /\ stream'[c].replay = stream[c].replay
                   /\ stream'[c].since = stream[c].since
                \/ stream'[c].replay = <<>> /\ stream'[c].st \in {"unused", "over"}
  <2>1. CASE RunBegins \/ RunEnds \/ UNCHANGED vars
    BY <2>1 DEF RunBegins, RunEnds, vars, streamVars
  <2>2. CASE Notify
    BY <2>2, StreamFields DEF Notify, TypeOK, Stream
  <2>3. CASE Crash
    <3>1. client'.conn = None /\ c # None
      BY <2>3, EventStreamAssumption DEF Crash, TypeOK, Conns, None
    <3> QED
      BY <2>3, <3>1 DEF Crash, NoStream
  <2> QED
    BY <2>1, <2>2, <2>3
<1>4. \A c \in Conns : Frames(c)'
  BY <1>1, <1>2, <1>3, FramesKept DEF Known
<1>5. \A c \in Conns : Seen(c)' /\ \A d \in Conns : Left(c, d)'
  BY <1>1, <1>3, SeenKept
<1>6. client'.last \in -1 .. EventCount' - 1
  BY <1>1, <1>2 DEF Known
<1> QED
  BY <1>4, <1>5, <1>6 DEF Known

\* The history has its ids from the log, and begins behind the cursor.
LEMMA FramesReading ==
    ASSUME TypeOK, Shape, Known, NEW d \in Conns, ReadHistory(d)
    PROVE  Frames(d)'
<1> DEFINE n == stream[d].since
           h == HistorySince(n)
<1>1. /\ stream[d].st = "subscribed" /\ stream'[d].st = "open" /\ stream'[d].since = n
      /\ stream'[d].replay = h /\ UNCHANGED <<log, client>> /\ wire'[d] = <<>>
  BY StreamFields DEF ReadHistory, emitterVars, TypeOK, Stream, Shape, Waiting
<1>2. n \in Nat /\ client.last \in Int /\ n = client.last + 1
  BY <1>1, StreamFields DEF Known, Frames, Resumes, TypeOK
<1>3. /\ h \in Seq(Frame)
      /\ \A i \in 1 .. Len(h) :
           n + i \in 1 .. Len(log) /\ h[i] = [id |-> n + i - 1, ev |-> log[n + i]]
  BY <1>2, HistoryType
<1> HIDE DEF h, n
<1>4. DOMAIN h = 1 .. Len(h) /\ Len(h) \in Nat /\ DOMAIN log = 1 .. Len(log)
  BY <1>3 DEF TypeOK
<1>5. \A i \in 1 .. Len(h) : h[i].id = n + i - 1 /\ h[i].ev = log[n + i]
  <2>1. ASSUME NEW i \in 1 .. Len(h) PROVE h[i].id = n + i - 1 /\ h[i].ev = log[n + i]
    <3>1. h[i] = [id |-> n + i - 1, ev |-> log[n + i]]
      BY <1>3
    <3> QED
      BY <3>1
  <2> QED
    BY <2>1
<1>6. ASSUME NEW i \in 1 .. Len(h)
      PROVE  /\ h[i].id + 1 \in DOMAIN log /\ log[h[i].id + 1] = h[i].ev
             /\ h[i].id >= n /\ h[i].id >= client.last
  <2>1. n + i \in DOMAIN log /\ h[i].id = n + i - 1 /\ h[i].ev = log[n + i]
    BY <1>3, <1>4, <1>5
  <2>2. h[i].id + 1 = n + i /\ h[i].id >= n /\ h[i].id >= client.last
    BY <1>2, <2>1
  <2> QED
    BY <2>1, <2>2
<1>7. \A i, j \in 1 .. Len(h) : i < j => h[i].id < h[j].id
  BY <1>2, <1>4, <1>5
<1>8. InReplay(d)'
  BY <1>1, <1>4, <1>6, <1>7 DEF InReplay
<1>9. OnWire(d)' /\ Resumes(d)'
  BY <1>1 DEF OnWire, Resumes
<1> QED
  BY <1>8, <1>9 DEF Frames

\* A frame of the history goes on the wire.
LEMMA FramesReplay ==
    ASSUME TypeOK, Shape, LogInOrder, Known, NEW d \in Conns, Replay(d)
    PROVE  Frames(d)'
<1> DEFINE w == wire[d]
           r == stream[d].replay
           f == [id |-> Head(r).id, ev |-> Head(r).ev]
<1>1. /\ stream[d].st = "open" /\ r # <<>> /\ stream'[d].st = "open"
      /\ stream'[d].since = stream[d].since /\ stream'[d].replay = Tail(r)
      /\ wire'[d] = Append(w, f) /\ UNCHANGED <<log, client>>
      /\ UNCHANGED EventCount
  BY StreamFields DEF Replay, Send, emitterVars, TypeOK, Stream, EventCount
<1>2. client.conn = d
  BY <1>1 DEF Shape, Attached, Live
<1>3. w \in Seq(Frame) /\ r \in Seq(Frame) /\ log \in Seq(Nat) /\ client.last \in Int
      /\ EventCount \in Nat
  BY StreamFields DEF TypeOK, EventCount
<1>4. OnWire(d) /\ InReplay(d)
  BY DEF Known, Frames
<1>5. \A k \in 1 .. Len(w) :
        /\ w[k].id \in Int
        /\ Before(log, w[k].ev, w[k].id + 1) /\ w[k].id \in client.last .. EventCount - 1
        /\ \A l \in 1 .. Len(r) : w[k].id <= r[l].id
  BY <1>3, <1>4 DEF OnWire
<1>6. \A k, l \in 1 .. Len(w) : k < l => w[k].id <= w[l].id
  BY <1>3, <1>4 DEF OnWire
<1>7. \A k \in 1 .. Len(r) :
        /\ r[k].id + 1 \in DOMAIN log /\ log[r[k].id + 1] = r[k].ev
        /\ r[k].id >= stream[d].since /\ r[k].id >= client.last
  BY <1>2, <1>3, <1>4 DEF InReplay
<1>8. \A k, l \in 1 .. Len(r) : k < l => r[k].id < r[l].id
  BY SMTT(30), <1>3, <1>4 DEF InReplay
<1>9. \A k \in 1 .. Len(r) : r[k].id \in Int
  <2>1. \A k \in 1 .. Len(r) : r[k] \in Frame
    BY <1>3
  <2> QED
    BY <2>1 DEF Frame
<1>10. /\ Len(r) \in Nat /\ 1 \in 1 .. Len(r) /\ Head(r) = r[1] /\ f.id = r[1].id
       /\ f.ev = r[1].ev /\ Len(w) \in Nat
  BY <1>1, <1>3
<1>11. /\ Before(log, f.ev, f.id + 1) /\ f.id \in client.last .. EventCount - 1
  <2>1. f.id + 1 \in DOMAIN log /\ log[f.id + 1] = f.ev /\ f.id >= client.last /\ f.id \in Int
    BY <1>7, <1>9, <1>10
  <2>2. \A i \in DOMAIN log : i \in Nat /\ log[i] \in Nat
    BY <1>3
  <2>3. ASSUME NEW i \in DOMAIN log, log[i] = f.ev PROVE i <= f.id + 1
    BY <2>1, <2>2, <2>3 DEF LogInOrder
  <2>4. f.id <= EventCount - 1
    <3>1. DOMAIN log = 1 .. Len(log) /\ Len(log) \in Nat /\ torn \in Nat
      BY DEF TypeOK
    <3> QED
      BY <2>1, <3>1 DEF EventCount
  <2> QED
    BY <1>3, <2>1, <2>3, <2>4 DEF Before
<1> DEFINE t == Tail(r)
           v == Append(w, f)
<1>12. /\ DOMAIN t = 1 .. Len(r) - 1 /\ \A k \in 1 .. Len(r) - 1 : t[k] = r[k + 1]
       /\ DOMAIN v = 1 .. Len(w) + 1 /\ v[Len(w) + 1] = f
       /\ \A k \in 1 .. Len(w) : v[k] = w[k]
  BY <1>1, <1>3
<1>13. stream'[d].replay = t /\ wire'[d] = v
  BY <1>1
<1> HIDE DEF w, r, f, t, v
<1>14. \A k \in DOMAIN t : k + 1 \in 1 .. Len(r) /\ t[k] = r[k + 1] /\ 1 < k + 1 /\ k \in Nat
  BY <1>10, <1>12
<1>15. InReplay(d)'
  <2>1. \A k \in DOMAIN t :
          /\ t[k].id + 1 \in DOMAIN log /\ log[t[k].id + 1] = t[k].ev
          /\ t[k].id >= stream[d].since /\ t[k].id >= client.last
    BY <1>7, <1>14
  <2>2. \A k, l \in DOMAIN t : k < l => t[k].id < t[l].id
    <3>1. ASSUME NEW k \in DOMAIN t, NEW l \in DOMAIN t, k < l PROVE t[k].id < t[l].id
      <4>1. k + 1 < l + 1 /\ k + 1 \in 1 .. Len(r) /\ l + 1 \in 1 .. Len(r)
        BY <1>14, <3>1
      <4> QED
        BY <1>8, <1>14, <4>1
    <3> QED
      BY <3>1
  <2> QED
    BY <1>1, <1>13, <2>1, <2>2 DEF InReplay
<1>16. \A k \in DOMAIN t : f.id <= t[k].id
  <2>1. ASSUME NEW k \in DOMAIN t PROVE f.id <= t[k].id
    <3>1. r[1].id < r[k + 1].id /\ r[1].id \in Int /\ r[k + 1].id \in Int
      BY <1>8, <1>9, <1>10, <1>14
    <3> QED
      BY <1>10, <1>14, <3>1
  <2> QED
    BY <2>1
<1>17. \A k \in 1 .. Len(w) : w[k].id <= f.id /\ \A l \in DOMAIN t : w[k].id <= t[l].id
  BY <1>5, <1>10, <1>14
<1>18. OnWire(d)'
  <2>1. \A k \in DOMAIN v : k \in 1 .. Len(w) \/ k = Len(w) + 1
    BY <1>10, <1>12
  <2>2. \A k \in DOMAIN v :
          /\ Before(log, v[k].ev, v[k].id + 1) /\ v[k].id \in client.last .. EventCount - 1
          /\ \A l \in DOMAIN t : v[k].id <= t[l].id
    BY <1>5, <1>11, <1>12, <1>16, <1>17, <2>1
  <2>3. ASSUME NEW k \in DOMAIN v, NEW l \in DOMAIN v, k < l PROVE v[k].id <= v[l].id
    <3>1. k \in 1 .. Len(w) /\ v[k] = w[k]
      BY <1>10, <1>12, <2>3
    <3>2. CASE l \in 1 .. Len(w)
      BY <1>6, <1>12, <2>3, <3>1, <3>2
    <3>3. CASE l = Len(w) + 1
      BY <1>12, <1>17, <3>1, <3>3
    <3> QED
      BY <2>1, <3>2, <3>3
  <2> QED
    BY <1>1, <1>13, <2>2, <2>3 DEF OnWire
<1>19. Resumes(d)'
  BY <1>1 DEF Resumes
<1> QED
  BY <1>15, <1>18, <1>19 DEF Frames

\* A live event goes on the wire with the number of lines as its id.
LEMMA FramesFollow ==
    ASSUME TypeOK, Shape, Known, NEW d \in Conns, Follow(d)
    PROVE  Frames(d)'
<1> DEFINE w == wire[d]
           f == [id |-> EventCount - 1, ev |-> Head(stream[d].queue)]
           v == Append(w, f)
<1>1. /\ stream'[d].st = "open" /\ stream'[d].replay = <<>> /\ wire'[d] = v
      /\ UNCHANGED <<log, client>> /\ UNCHANGED EventCount
  BY StreamFields DEF Follow, Send, emitterVars, TypeOK, Stream, EventCount
<1>2. w \in Seq(Frame) /\ Len(log) \in Nat /\ client.last \in Int /\ EventCount \in Nat
      /\ EventCount >= Len(log) /\ DOMAIN log = 1 .. Len(log)
  BY StreamFields DEF TypeOK, EventCount
<1>3. OnWire(d) /\ client.last \in -1 .. EventCount - 1
  BY DEF Known, Frames
<1>4. /\ DOMAIN v = 1 .. Len(w) + 1 /\ v[Len(w) + 1] = f /\ Len(w) \in Nat
      /\ DOMAIN w = 1 .. Len(w) /\ \A k \in 1 .. Len(w) : v[k] = w[k]
  BY <1>2
<1>5. f.id = EventCount - 1
  OBVIOUS
<1> HIDE DEF w, f, v
<1>6. Before(log, f.ev, f.id + 1) /\ f.id \in client.last .. EventCount - 1
  BY <1>2, <1>3, <1>5 DEF Before
<1>7. /\ \A k \in 1 .. Len(w) :
           Before(log, w[k].ev, w[k].id + 1) /\ w[k].id \in client.last .. EventCount - 1
      /\ \A k, l \in 1 .. Len(w) : k < l => w[k].id <= w[l].id
  BY <1>3, <1>4 DEF OnWire, w
<1>8. \A k \in DOMAIN v :
        /\ Before(log, v[k].ev, v[k].id + 1) /\ v[k].id \in client.last .. EventCount - 1
  BY <1>4, <1>6, <1>7
<1>9. ASSUME NEW k \in DOMAIN v, NEW l \in DOMAIN v, k < l PROVE v[k].id <= v[l].id
  <2>1. k \in 1 .. Len(w) /\ v[k] = w[k]
    BY <1>4, <1>9
  <2>2. CASE l \in 1 .. Len(w)
    BY <1>4, <1>7, <1>9, <2>1, <2>2
  <2>3. CASE l = Len(w) + 1
    BY <1>2, <1>4, <1>5, <1>7, <2>1, <2>3
  <2> QED
    BY <1>4, <2>2, <2>3
<1>10. OnWire(d)'
  BY <1>1, <1>8, <1>9 DEF OnWire
<1>11. InReplay(d)' /\ Resumes(d)'
  BY <1>1 DEF InReplay, Resumes
<1> QED
  BY <1>10, <1>11 DEF Frames

LEMMA KnownStream ==
    ASSUME TypeOK, Shape, LogInOrder, Known, NEW d \in Conns, StreamStep(d)
    PROVE  Known'
<1>1. /\ UNCHANGED <<log, torn, emitted, phase>>
      /\ \A c \in Conns : c # d =>
           stream'[c] = stream[c] /\ wire'[c] = wire[c] /\ got'[c] = got[c]
  BY OthersRest
<1>2. client' = client /\ got' = got
  BY DEF StreamStep, Subscribe, ReadHistory, Replay, Follow, Unsubscribe
<1>3. EventCount' = EventCount /\ EventCount \in Nat /\ (Writing' <=> Writing)
  BY <1>1 DEF EventCount, TypeOK, Writing
<1>4. \/ stream'[d].st = "over"
      \/ /\ stream[d].st \notin {"unused", "over"} /\ stream'[d].since = stream[d].since
         /\ stream'[d].st \in {"accepted", "subscribed"} =>
              stream[d].st \in {"accepted", "subscribed"}
  <2>1. CASE Subscribe(d)
    BY <2>1, StreamFields DEF Subscribe, TypeOK, Stream
  <2>2. CASE ReadHistory(d)
    BY <2>2, StreamFields DEF ReadHistory, TypeOK, Stream
  <2>3. CASE Replay(d)
    BY <2>3, StreamFields DEF Replay, TypeOK, Stream
  <2>4. CASE Follow(d)
    BY <2>4, StreamFields DEF Follow, TypeOK, Stream
  <2>5. CASE Unsubscribe(d)
    BY <2>5 DEF Unsubscribe, NoStream, TypeOK
  <2> QED
    BY <2>1, <2>2, <2>3, <2>4, <2>5 DEF StreamStep
<1>5. \A c \in Conns : Seen(c)' /\ \A e \in Conns : Left(c, e)'
  BY <1>1, <1>2, <1>3, <1>4, SeenKept
<1>6. ASSUME NEW c \in Conns, c # d PROVE Frames(c)'
  BY <1>1, <1>2, <1>3, <1>6, FramesKept DEF Known
<1>7. Frames(d)'
  <2>1. Frames(d)
    BY DEF Known
  <2>2. CASE Subscribe(d)
    <3>1. /\ wire'[d] = wire[d] /\ stream'[d].replay = stream[d].replay
          /\ stream'[d].since = stream[d].since /\ stream[d].st = "accepted"
      BY <2>2, StreamFields DEF Subscribe, TypeOK, Stream
    <3> QED
      BY <1>1, <1>2, <1>3, <2>1, <3>1, FramesKept
  <2>3. CASE Unsubscribe(d)
    <3>1. wire'[d] = wire[d] /\ stream'[d].replay = <<>> /\ stream'[d].st = "over"
      BY <2>3 DEF Unsubscribe, NoStream, TypeOK
    <3> QED
      BY <1>1, <1>2, <1>3, <2>1, <3>1, FramesKept
  <2> QED
    BY <2>2, <2>3, FramesReading, FramesReplay, FramesFollow DEF StreamStep
<1>8. client'.last \in -1 .. EventCount' - 1
  BY <1>2, <1>3 DEF Known
<1> QED
  BY <1>5, <1>6, <1>7, <1>8 DEF Known

\* A connection begins behind everything the client was given.
LEMMA KnownConnect ==
    ASSUME TypeOK, Shape, Known, client.param = 0, NEW d \in Conns, Connect(d)
    PROVE  Known'
<1>1. /\ UNCHANGED <<log, torn, emitted, phase>>
      /\ \A c \in Conns : c # d =>
           stream'[c] = stream[c] /\ wire'[c] = wire[c] /\ got'[c] = got[c]
  BY OthersRest DEF ClientStep
<1>2. /\ client.conn = None /\ client'.conn = d /\ client'.last = client.last
      /\ got' = got /\ wire' = wire /\ stream[d].st = "unused"
      /\ stream'[d].st = "accepted" /\ stream'[d].since = ParseSince
      /\ stream'[d].replay = <<>>
  BY DEF Connect, TypeOK, NoStream
<1>3. EventCount' = EventCount /\ EventCount \in Nat /\ (Writing' <=> Writing)
  BY <1>1 DEF EventCount, TypeOK, Writing
<1>4. ParseSince = client.last + 1 /\ client.last \in Int
  BY DEF ParseSince, Known, TypeOK
<1>5. ASSUME NEW c \in Conns, c # d PROVE Frames(c)'
  BY <1>1, <1>2, <1>3, <1>5, FramesKept DEF Known
<1>6. Frames(d)'
  <2>1. wire'[d] = <<>>
    BY <1>2 DEF Shape, Waiting
  <2> QED
    BY <1>2, <1>4, <2>1 DEF Frames, OnWire, InReplay, Resumes
<1>7. ASSUME NEW c \in Conns PROVE Seen(c)'
  BY <1>1, <1>2, <1>3 DEF Known, Seen, Within
<1>8. ASSUME NEW c \in Conns, NEW e \in Conns PROVE Left(c, e)'
  <2>1. CASE e = d
    BY <1>1, <1>2, <1>4, <2>1 DEF Known, Seen, Left
  <2>2. CASE e # d
    BY <1>1, <1>2, <2>2 DEF Known, Left
  <2> QED
    BY <2>1, <2>2
<1>9. client'.last \in -1 .. EventCount' - 1
  BY <1>2, <1>3 DEF Known
<1> QED
  BY <1>5, <1>6, <1>7, <1>8, <1>9 DEF Known

LEMMA KnownDisconnect ==
    ASSUME TypeOK, Shape, Known, NEW d \in Conns, Disconnect(d)
    PROVE  Known'
<1>1. /\ UNCHANGED <<log, torn, emitted, phase>>
      /\ \A c \in Conns : c # d =>
           stream'[c] = stream[c] /\ wire'[c] = wire[c] /\ got'[c] = got[c]
  BY OthersRest DEF ClientStep
<1>2. /\ client'.conn = None /\ client'.last = client.last /\ got' = got
      /\ client.conn = d /\ wire'[d] = <<>> /\ stream'[d].st = "lost"
      /\ stream'[d].since = stream[d].since /\ stream'[d].replay = stream[d].replay
  BY StreamFields DEF Disconnect, TypeOK, Stream
<1>3. EventCount' = EventCount /\ EventCount \in Nat /\ (Writing' <=> Writing)
  BY <1>1 DEF EventCount, TypeOK, Writing
<1>4. \A c \in Conns : c # None
  BY EventStreamAssumption DEF Conns, None
<1>5. stream[d].st \notin {"unused", "over"}
  BY <1>2 DEF Shape, Attached, Live
<1>6. \A c \in Conns : Seen(c)' /\ \A e \in Conns : Left(c, e)'
  BY <1>1, <1>2, <1>3, <1>5, SeenKept
<1>7. ASSUME NEW c \in Conns PROVE Frames(c)'
  BY <1>1, <1>2, <1>3, <1>4, FramesKept DEF Known
<1>8. client'.last \in -1 .. EventCount' - 1
  BY <1>2, <1>3 DEF Known
<1> QED
  BY <1>6, <1>7, <1>8 DEF Known

\* The cursor moves to the id of the frame the client is given.
LEMMA KnownReceive ==
    ASSUME TypeOK, Shape, Latest, Known, \A c \in Conns : Faithful(c),
           NEW d \in Conns, Receive(d)
    PROVE  Known'
<1> DEFINE w == wire[d]
           f == Head(w)
           t == Tail(w)
           g == got[d]
           v == Append(g, f.ev)
<1>1. /\ UNCHANGED <<log, torn, emitted, phase, stream>>
      /\ \A c \in Conns : c # d => wire'[c] = wire[c] /\ got'[c] = got[c]
      /\ client.conn = d /\ client'.conn = d /\ client'.last = f.id
      /\ w # <<>> /\ wire'[d] = t /\ got'[d] = v
  BY DEF Receive, emitterVars, TypeOK
<1>2. EventCount' = EventCount /\ EventCount \in Nat /\ (Writing' <=> Writing)
      /\ client.last \in Int /\ log \in Seq(Nat) /\ emitted \in Nat
  BY <1>1 DEF EventCount, TypeOK, Writing
<1>3. w \in Seq(Frame) /\ g \in Seq(Nat)
  BY StreamFields
<1>4. 1 \in DOMAIN w /\ f = w[1] /\ f \in Frame /\ f.id \in Int
  <2>1. 1 \in DOMAIN w /\ f = w[1] /\ f \in Frame
    BY <1>1, <1>3
  <2> QED
    BY <2>1 DEF Frame
<1>5. f.ev \in Nat /\ f.ev <= emitted /\ (Writing => f.ev < emitted) /\ stream[d].st = "open"
  BY <1>4, WireWithin
<1>6. /\ Before(log, f.ev, f.id + 1) /\ f.id \in client.last .. EventCount - 1
      /\ \A l \in DOMAIN stream[d].replay : f.id <= stream[d].replay[l].id
      /\ \A k \in DOMAIN w : 1 < k => f.id <= w[k].id
  BY <1>4 DEF Known, Frames, OnWire
<1>7. /\ DOMAIN t = 1 .. Len(w) - 1 /\ Len(w) \in Nat /\ DOMAIN w = 1 .. Len(w)
      /\ \A k \in 1 .. Len(w) - 1 : t[k] = w[k + 1]
      /\ DOMAIN v = 1 .. Len(g) + 1 /\ v[Len(g) + 1] = f.ev /\ Len(g) \in Nat
      /\ DOMAIN g = 1 .. Len(g) /\ \A k \in 1 .. Len(g) : v[k] = g[k]
  BY <1>1, <1>3, <1>5
<1>8. client'.last \in -1 .. EventCount' - 1
  BY <1>1, <1>2, <1>4, <1>6 DEF Known
<1>9. \A c \in Conns : c # d =>
        stream[c].st \notin {"accepted", "subscribed", "open"} /\ wire[c] = <<>>
  BY <1>1 DEF Shape, Attached, Waiting, Live
<1> HIDE DEF w, f, t, g, v
<1>10. ASSUME NEW c \in Conns PROVE Frames(c)'
  <2>1. CASE c # d
    BY <1>1, <1>9, <2>1 DEF Known, Frames, OnWire, InReplay, Resumes
  <2>2. CASE c = d
    <3>1. \A k \in DOMAIN t : k + 1 \in DOMAIN w /\ 1 < k + 1 /\ t[k] = w[k + 1] /\ k \in Nat
      BY <1>7
    <3>2. \A k \in DOMAIN w : w[k].id \in Int
      <4>1. \A k \in DOMAIN w : w[k] \in Frame
        BY <1>3
      <4> QED
        BY <4>1 DEF Frame
    <3>3. \A k \in DOMAIN w :
            /\ Before(log, w[k].ev, w[k].id + 1) /\ w[k].id \in client.last .. EventCount - 1
            /\ \A l \in DOMAIN stream[d].replay : w[k].id <= stream[d].replay[l].id
      BY DEF Known, Frames, OnWire, w
    <3>4. \A k, l \in DOMAIN w : k < l => w[k].id <= w[l].id
      BY DEF Known, Frames, OnWire, w
    <3>5. \A k \in DOMAIN t :
            /\ Before(log, t[k].ev, t[k].id + 1) /\ t[k].id \in f.id .. EventCount - 1
            /\ \A l \in DOMAIN stream[d].replay : t[k].id <= stream[d].replay[l].id
      BY <1>2, <1>4, <1>6, <3>1, <3>2, <3>3
    <3>6. ASSUME NEW k \in DOMAIN t, NEW l \in DOMAIN t, k < l PROVE t[k].id <= t[l].id
      <4>1. k + 1 < l + 1
        BY <3>1, <3>6
      <4> QED
        BY <3>1, <3>4, <4>1
    <3>7. OnWire(d)'
      BY <1>1, <1>2, <3>5, <3>6 DEF OnWire
    <3>8. InReplay(d)'
      BY <1>1, <1>6 DEF Known, Frames, InReplay
    <3>9. Resumes(d)'
      BY <1>1, <1>5 DEF Resumes
    <3> QED
      BY <2>2, <3>7, <3>8, <3>9 DEF Frames
  <2> QED
    BY <2>1, <2>2
<1>11. ASSUME NEW e, Before(log, e, client.last + 1) PROVE Before(log, e, f.id + 1)
  <2>1. client.last + 1 \in Int /\ f.id + 1 \in Int /\ client.last + 1 <= f.id + 1
    BY <1>2, <1>4, <1>6
  <2> QED
    BY <1>2, <1>11, <2>1, BeforeMore
<1>12. ASSUME NEW c \in Conns PROVE Seen(c)'
  <2>1. CASE c # d
    BY <1>1, <1>2, <1>11, <2>1 DEF Known, Seen, Within
  <2>2. CASE c = d
    <3>1. \A k \in DOMAIN g : Before(log, g[k], client.last + 1)
      BY DEF Known, Seen, g
    <3>2. Within(g, emitted, Writing)
      BY DEF Known, Seen, g
    <3>3. \A k \in DOMAIN v : Before(log, v[k], f.id + 1)
      BY <1>6, <1>7, <1>11, <3>1
    <3>4. Within(v, emitted, Writing)
      BY <1>5, <1>7, <3>2 DEF Within
    <3> QED
      BY <1>1, <1>2, <2>2, <3>3, <3>4 DEF Seen, Within
  <2> QED
    BY <2>1, <2>2
<1>13. ASSUME NEW c \in Conns, NEW e \in Conns PROVE Left(c, e)'
  <2>1. CASE c # d
    BY <1>1, <2>1 DEF Known, Left
  <2>2. CASE c = d
    BY <1>1, <2>2 DEF Latest, Left
  <2> QED
    BY <2>1, <2>2
<1> QED
  BY <1>8, <1>10, <1>12, <1>13 DEF Known

LEMMA LatestStep ==
    ASSUME TypeOK, Shape, Latest, [Next]_vars
    PROVE  Latest'
<1>1. CASE \E d \in Conns : Connect(d)
  <2>1. PICK d \in Conns : Connect(d)
    BY <1>1
  <2>2. /\ client'.conn = d /\ stream[d].st = "unused"
        /\ \A c \in Conns : c # d => stream'[c] = stream[c]
    BY <2>1, OthersRest DEF Connect, ClientStep, TypeOK
  <2>3. ASSUME NEW e \in Conns, d < e PROVE stream'[e].st = "unused"
    <3>1. e # d
      BY <2>3 DEF Conns
    <3>2. stream[e].st = "unused"
      BY <2>2, <2>3 DEF Shape, Attached
    <3> QED
      BY <2>2, <3>1, <3>2
  <2> QED
    BY <2>2, <2>3 DEF Latest
<1>2. CASE \E d \in Conns : StreamStep(d) \/ Receive(d) \/ Disconnect(d)
  <2>1. PICK d \in Conns : StreamStep(d) \/ Receive(d) \/ Disconnect(d)
    BY <1>2
  <2>2. client'.conn \in {client.conn, None}
    BY <2>1 DEF StreamStep, Subscribe, ReadHistory, Replay, Follow, Unsubscribe, Receive,
       Disconnect, TypeOK
  <2>3. stream[d].st # "unused"
    BY <2>1 DEF StreamStep, Subscribe, ReadHistory, Replay, Follow, Unsubscribe, Receive,
       Disconnect, Shape, Attached, Live
  <2>4. \A c \in Conns : c # d => stream'[c] = stream[c]
    BY <2>1, OthersRest DEF ClientStep
  <2>5. \A c \in Conns : c # None
    BY EventStreamAssumption DEF Conns, None
  <2> QED
    BY <2>2, <2>3, <2>4, <2>5 DEF Latest
<1>3. CASE RunBegins \/ RunEnds \/ EmitWrites \/ EmitWritten \/ UNCHANGED vars
  BY <1>3 DEF RunBegins, RunEnds, EmitWrites, EmitWritten, vars, streamVars, Latest
<1>4. CASE Notify
  <2>1. \A c \in Conns : stream'[c].st = stream[c].st
    BY <1>4, StreamFields DEF Notify, TypeOK, Stream
  <2> QED
    BY <1>4, <2>1 DEF Notify, Latest
<1>5. CASE Crash
  <2>1. \A c \in Conns : c # None
    BY EventStreamAssumption DEF Conns, None
  <2> QED
    BY <1>5, <2>1 DEF Crash, TypeOK, Latest
<1> QED
  BY <1>1, <1>2, <1>3, <1>4, <1>5 DEF Next, ClientStep

LEMMA CursorStep == IInv /\ Latest /\ Cursor /\ [Next]_vars => Cursor'
<1> SUFFICES ASSUME IInv, Latest, Cursor, [Next]_vars, client'.param = 0 PROVE Known'
  BY DEF Cursor
<1>1. TypeOK /\ Shape /\ LogInOrder /\ \A c \in Conns : Faithful(c)
  BY DEF IInv
<1>2. client'.param = client.param
  <2>1. CASE \E d \in Conns : StreamStep(d) \/ ClientStep(d)
    BY <1>1, <2>1, OthersRest
  <2>2. CASE RunBegins \/ RunEnds \/ EmitWrites \/ EmitWritten \/ Notify \/ UNCHANGED vars
    BY <2>2 DEF RunBegins, RunEnds, EmitWrites, EmitWritten, Notify, vars, streamVars
  <2>3. CASE Crash
    BY <1>1, <2>3 DEF Crash, TypeOK
  <2> QED
    BY <2>1, <2>2, <2>3 DEF Next
<1>3. client.param = 0 /\ Known
  BY <1>2 DEF Cursor
<1>4. CASE RunBegins \/ RunEnds \/ Notify \/ Crash \/ UNCHANGED vars
  BY <1>1, <1>3, <1>4, KnownRest
<1>5. CASE EmitWrites \/ EmitWritten
  BY <1>1, <1>3, <1>5, KnownEmit
<1>6. ASSUME NEW d \in Conns, StreamStep(d) PROVE Known'
  BY <1>1, <1>3, <1>6, KnownStream
<1>7. ASSUME NEW d \in Conns, Connect(d) PROVE Known'
  BY <1>1, <1>3, <1>7, KnownConnect
<1>8. ASSUME NEW d \in Conns, Receive(d) PROVE Known'
  BY <1>1, <1>3, <1>8, KnownReceive
<1>9. ASSUME NEW d \in Conns, Disconnect(d) PROVE Known'
  BY <1>1, <1>3, <1>9, KnownDisconnect
<1> QED
  BY <1>4, <1>5, <1>6, <1>7, <1>8, <1>9 DEF Next, ClientStep

\* A client that reconnects with Last-Event-ID is not replayed what an earlier
\* connection gave it: an id is never below the place of its event in the file
\* (sse.py:73, routers/events.py:19-31), whatever lines were torn by a crash.
THEOREM NothingSeenIsReplayed == Spec => []NoReplayOfSeen
<1>1. Init => Latest /\ Cursor
  <2> SUFFICES ASSUME Init PROVE Latest /\ Cursor
    OBVIOUS
  <2>1. Latest
    BY DEF Init, Latest, NoStream
  <2>2. client.last = -1 /\ EventCount = 0
    BY DEF Init, EventCount
  <2>3. \A c \in Conns : Frames(c) /\ Seen(c) /\ \A d \in Conns : Left(c, d)
    BY DEF Init, NoStream, Frames, OnWire, InReplay, Resumes, Seen, Within, Left
  <2> QED
    BY <2>1, <2>2, <2>3 DEF Cursor, Known
<1>2. IInv /\ Latest /\ Cursor /\ [Next]_vars => Latest' /\ Cursor'
  BY CursorStep, LatestStep DEF IInv
<1>3. IInv /\ Cursor => NoReplayOfSeen
  <2> SUFFICES ASSUME IInv, Cursor, client.param = 0, NEW c \in Conns, NEW d \in Conns, d < c,
                      NEW e \in ToSet(EventsOf(stream[c].replay)), e \in ToSet(got[d])
               PROVE  FALSE
    BY DEF NoReplayOfSeen
  <2> DEFINE r == stream[c].replay
  <2>1. r \in Seq(Frame) /\ got[d] \in Seq(Nat) /\ stream[c].since \in Nat
    BY StreamFields DEF IInv
  <2>2. PICK l \in DOMAIN r : e = r[l].ev
    BY DEF EventsOf, ToSet
  <2>3. PICK k \in DOMAIN got[d] : e = got[d][k]
    BY DEF ToSet
  <2>4. /\ r[l].id + 1 \in DOMAIN log /\ log[r[l].id + 1] = e
        /\ r[l].id >= stream[c].since /\ Left(d, c)
    BY <2>2 DEF Cursor, Known, Frames, InReplay
  <2>5. stream[c].st \notin {"unused", "over"}
    BY <2>2 DEF IInv, Shape, Waiting
  <2>6. r[l].id + 1 <= stream[c].since
    BY <2>3, <2>4, <2>5 DEF Left, Before
  <2>7. r[l].id \in Int
    <3>1. r[l] \in Frame
      BY <2>1
    <3> QED
      BY <3>1 DEF Frame
  <2> QED
    BY <2>1, <2>4, <2>6, <2>7
<1> QED
  BY <1>1, <1>2, <1>3, IInvAlways, PTL DEF Spec

=============================================================================
