---------------------------- MODULE Replay_proofs ----------------------------
(* Folds over streams of events, of any length: replaying a longer stream applies
   its last event to what the rest is replayed to; and sums over finite sets.  No
   model is named here: these lemmas are about the operators that the models take
   from the community modules. *)
EXTENDS Integers, SequencesExt, SequenceTheorems, FiniteSetTheorems, WellFoundedInduction, TLAPS

-----------------------------------------------------------------------------
(* Replaying. *)

Below == {p \in Nat \X Nat : p[1] < p[2]}

LEMMA BelowWellFounded == IsWellFoundedOn(Below, Nat)
  BY NatLessThanWellFounded DEF OpToRel, Below

\* A set that has 0 and with each number the next one has them all.
LEMMA Induction ==
    ASSUME NEW S, 0 \in S, \A n \in Nat : n \in S => n + 1 \in S
    PROVE  \A n \in Nat : n \in S
<1> SUFFICES ASSUME Nat \ S # {} PROVE FALSE
  OBVIOUS
<1>1. PICK m \in Nat \ S : \A k \in Nat \ S : <<k, m>> \notin Below
  BY BelowWellFounded, WFMin
<1>2. ASSUME NEW k \in Nat \ S PROVE ~(k < m)
  <2>1. <<k, m>> \notin Below
    BY <1>1
  <2> QED  BY <2>1 DEF Below
<1>3. m # 0 /\ m - 1 \in Nat /\ m - 1 < m
  BY <1>1
<1>4. m - 1 \in S
  BY <1>2, <1>3
<1>5. (m - 1) + 1 \in S
  BY <1>3, <1>4
<1> QED  BY <1>1, <1>5

\* The last of some numbers up to n.
LEMMA LastOfSome ==
    ASSUME NEW n \in Nat, NEW t \in SUBSET (1 .. n), t # {}
    PROVE  /\ Max(t) \in t
           /\ Max(t) \in 1 .. n
           /\ \A i \in t : i <= Max(t)
<1> DEFINE HaveLast(k) == \A u \in SUBSET (1 .. k) : u # {} => \E m \in u : \A i \in u : m >= i
           S == {k \in Nat : HaveLast(k)}
<1>1. HaveLast(0)
  <2>1. 1 .. 0 = {}
    OBVIOUS
  <2> QED  BY <2>1
<1>2. ASSUME NEW k \in Nat, HaveLast(k) PROVE HaveLast(k + 1)
  <2> SUFFICES ASSUME NEW u \in SUBSET (1 .. k + 1), u # {}
               PROVE  \E m \in u : \A i \in u : m >= i
    OBVIOUS
  <2>1. CASE k + 1 \in u
    BY <2>1
  <2>2. CASE k + 1 \notin u
    <3>1. u \in SUBSET (1 .. k)
      BY <2>2
    <3> QED  BY <1>2, <3>1
  <2> QED  BY <2>1, <2>2
<1> HIDE DEF HaveLast
<1>3. n \in S
  <2>1. 0 \in S /\ \A k \in Nat : k \in S => k + 1 \in S
    BY <1>1, <1>2
  <2> HIDE DEF S
  <2> QED  BY <2>1, Induction
<1>4. \E m \in t : \A i \in t : m >= i
  BY <1>3 DEF HaveLast
<1>5. Max(t) \in t /\ \A i \in t : Max(t) >= i
  BY <1>4 DEF Max
<1> QED  BY <1>5

LEMMA LastOfAll ==
    ASSUME NEW n \in Nat \ {0} PROVE Max(1 .. n) = n
<1>1. n \in 1 .. n
  OBVIOUS
<1>2. Max(1 .. n) \in 1 .. n /\ n <= Max(1 .. n)
  BY <1>1, LastOfSome
<1> QED  BY <1>2

\* A replay that FoldLeft's definition accepts: f says what the events at some
\* places of a stream are replayed to.
Replays(g, base, s, f) ==
    f = [t \in SUBSET DOMAIN s |-> IF t = {} THEN base ELSE g[<<f[t \ {Max(t)}], s[Max(t)]>>]]

\* There is a replay, and all that it makes is of the type.
LEMMA ReplayExists ==
    ASSUME NEW A, NEW E, NEW g \in [A \X E -> A], NEW base \in A, NEW s \in Seq(E)
    PROVE  \E f \in [SUBSET DOMAIN s -> A] : Replays(g, base, s, f)
<1> DEFINE Upto(n, f) ==
             \A t \in SUBSET (1 .. n) :
                 f[t] = IF t = {} THEN base ELSE g[<<f[t \ {Max(t)}], s[Max(t)]>>]
           Has(n) == n <= Len(s) => \E f \in [SUBSET (1 .. n) -> A] : Upto(n, f)
           S == {n \in Nat : Has(n)}
<1>0. Len(s) \in Nat /\ DOMAIN s = 1 .. Len(s) /\ \A i \in 1 .. Len(s) : s[i] \in E
  OBVIOUS
<1>1. Has(0)
  <2>1. 1 .. 0 = {}
    OBVIOUS
  <2>2. [t \in SUBSET (1 .. 0) |-> base] \in [SUBSET (1 .. 0) -> A]
    OBVIOUS
  <2>3. Upto(0, [t \in SUBSET (1 .. 0) |-> base])
    BY <2>1
  <2> QED  BY <2>2, <2>3
<1>2. ASSUME NEW n \in Nat, Has(n) PROVE Has(n + 1)
  <2> SUFFICES ASSUME n + 1 <= Len(s) PROVE \E f \in [SUBSET (1 .. n + 1) -> A] : Upto(n + 1, f)
    OBVIOUS
  <2>0. n <= Len(s)
    BY <1>0, SMT
  <2>1. PICK f \in [SUBSET (1 .. n) -> A] : Upto(n, f)
    BY <1>2, <2>0
  <2> DEFINE h == [t \in SUBSET (1 .. n + 1) |->
                     IF n + 1 \in t THEN g[<<f[t \ {n + 1}], s[n + 1]>>] ELSE f[t]]
  <2>2. ASSUME NEW t \in SUBSET (1 .. n + 1)
        PROVE  /\ n + 1 \notin t => t \in SUBSET (1 .. n)
               /\ t \ {n + 1} \in SUBSET (1 .. n)
               /\ n + 1 \in t => Max(t) = n + 1
    <3>1. n + 1 \in t => Max(t) = n + 1
      <4> SUFFICES ASSUME n + 1 \in t PROVE Max(t) = n + 1
        OBVIOUS
      <4>1. Max(t) \in 1 .. n + 1 /\ n + 1 <= Max(t)
        <5>1. n + 1 \in Nat /\ t # {}
          OBVIOUS
        <5> QED  BY <5>1, LastOfSome
      <4> QED  BY <4>1
    <3> QED  BY <3>1
  <2>3. s[n + 1] \in E
    BY <1>0, SMT
  <2>4. h \in [SUBSET (1 .. n + 1) -> A]
    <3> SUFFICES ASSUME NEW t \in SUBSET (1 .. n + 1)
                 PROVE  (IF n + 1 \in t THEN g[<<f[t \ {n + 1}], s[n + 1]>>] ELSE f[t]) \in A
      OBVIOUS
    <3> QED  BY <2>1, <2>2, <2>3
  <2>5. ASSUME NEW t \in SUBSET (1 .. n + 1)
        PROVE  h[t] = IF t = {} THEN base ELSE g[<<h[t \ {Max(t)}], s[Max(t)]>>]
    <3>1. CASE n + 1 \in t
      <4>1. h[t] = g[<<f[t \ {n + 1}], s[n + 1]>>] /\ Max(t) = n + 1 /\ t # {}
        BY <2>2, <3>1
      <4>2. t \ {n + 1} \in SUBSET (1 .. n + 1) /\ h[t \ {n + 1}] = f[t \ {n + 1}]
        OBVIOUS
      <4> QED  BY <4>1, <4>2
    <3>2. CASE n + 1 \notin t
      <4>1. t \in SUBSET (1 .. n) /\ h[t] = f[t]
        BY <2>2, <3>2
      <4>2. f[t] = IF t = {} THEN base ELSE g[<<f[t \ {Max(t)}], s[Max(t)]>>]
        BY <2>1, <4>1
      <4>3. h[t \ {Max(t)}] = f[t \ {Max(t)}]
        BY <2>2, <3>2, <4>1
      <4> QED  BY <4>1, <4>2, <4>3
    <3> QED  BY <3>1, <3>2
  <2>6. Upto(n + 1, h)
    BY <2>5
  <2> HIDE DEF h
  <2> QED  BY <2>4, <2>6
<1> HIDE DEF Has
<1>3. \A n \in Nat : n \in S
  <2>1. 0 \in S /\ \A n \in Nat : n \in S => n + 1 \in S
    BY <1>1, <1>2
  <2> HIDE DEF S
  <2> QED  BY <2>1, Induction
<1>4. \E f \in [SUBSET (1 .. Len(s)) -> A] : Upto(Len(s), f)
  <2>1. PICK n \in Nat : n = Len(s)
    BY <1>0
  <2>2. n \in S
    BY <1>3
  <2>3. Has(n)
    BY <2>2
  <2>4. n <= Len(s)
    BY <2>1
  <2>5. \E f \in [SUBSET (1 .. n) -> A] : Upto(n, f)
    <3> HIDE DEF Upto, S
    <3> QED  BY <2>3, <2>4 DEF Has
  <2> QED  BY <2>1, <2>5
<1>5. PICK f \in [SUBSET (1 .. Len(s)) -> A] : Upto(Len(s), f)
  BY <1>4
<1>6. Replays(g, base, s, f)
  BY <1>0, <1>5 DEF Replays
<1> QED  BY <1>0, <1>5, <1>6

\* Two functions are the same up to n if each of them follows from its value
\* without the last.
GoTogether(n, f, h) ==
    /\ f[{}] = h[{}]
    /\ \A t \in SUBSET (1 .. n) :
         t # {} /\ f[t \ {Max(t)}] = h[t \ {Max(t)}] => f[t] = h[t]

LEMMA SameReplay ==
    ASSUME NEW n \in Nat, NEW f, NEW h, GoTogether(n, f, h)
    PROVE  \A t \in SUBSET (1 .. n) : f[t] = h[t]
<1> USE DEF GoTogether
<1> DEFINE Same(k) == k <= n => \A t \in SUBSET (1 .. k) : f[t] = h[t]
           S == {k \in Nat : Same(k)}
<1>1. Same(0)
  <2>1. SUBSET (1 .. 0) = {{}}
    OBVIOUS
  <2> QED  BY <2>1
<1>2. ASSUME NEW k \in Nat, Same(k) PROVE Same(k + 1)
  <2> SUFFICES ASSUME k + 1 <= n, NEW t \in SUBSET (1 .. k + 1) PROVE f[t] = h[t]
    OBVIOUS
  <2>1. CASE t = {}
    BY <2>1
  <2>2. CASE t # {}
    <3>1. Max(t) \in 1 .. k + 1 /\ \A i \in t : i <= Max(t)
      BY <2>2, LastOfSome, k + 1 \in Nat
    <3>2. t \ {Max(t)} \in SUBSET (1 .. k)
      <4> SUFFICES ASSUME NEW i \in t, i # Max(t) PROVE i \in 1 .. k
        OBVIOUS
      <4>1. i \in 1 .. k + 1 /\ i <= Max(t)
        BY <3>1
      <4> HIDE DEF Same
      <4> QED  BY <3>1, <4>1
    <3>3. t \in SUBSET (1 .. n)
      OBVIOUS
    <3>4. f[t \ {Max(t)}] = h[t \ {Max(t)}]
      BY <1>2, <3>2
    <3> QED  BY <2>2, <3>3, <3>4
  <2> QED  BY <2>1, <2>2
<1> HIDE DEF Same
<1>3. Same(n)
  <2>1. 0 \in S /\ \A k \in Nat : k \in S => k + 1 \in S
    BY <1>1, <1>2
  <2>2. S \subseteq {k \in Nat : Same(k)}
    OBVIOUS
  <2> HIDE DEF S
  <2> QED  BY <2>1, <2>2, Induction
<1> QED  BY <1>3 DEF Same

\* One event more: the replay of the rest, and the event.
OneMore(more, s, e) ==
    \E n \in Nat :
        /\ DOMAIN s = 1 .. n
        /\ DOMAIN more = 1 .. n + 1
        /\ more[n + 1] = e
        /\ \A i \in 1 .. n : more[i] = s[i]

LEMMA AppendOneMore ==
    ASSUME NEW E, NEW s \in Seq(E), NEW e \in E PROVE OneMore(Append(s, e), s, e)
<1>1. /\ Len(s) \in Nat /\ DOMAIN s = 1 .. Len(s)
      /\ DOMAIN Append(s, e) = 1 .. Len(s) + 1 /\ Append(s, e)[Len(s) + 1] = e
      /\ \A i \in 1 .. Len(s) : Append(s, e)[i] = s[i]
  OBVIOUS
<1> QED  BY <1>1 DEF OneMore

LEMMA ReplayAppend ==
    ASSUME NEW g, NEW base, NEW s, NEW more, NEW e, NEW f, NEW h, OneMore(more, s, e),
           Replays(g, base, s, f), Replays(g, base, more, h)
    PROVE  h[DOMAIN more] = g[<<f[DOMAIN s], e>>]
<1>1. PICK n \in Nat : /\ DOMAIN s = 1 .. n
                      /\ DOMAIN more = 1 .. n + 1 /\ more[n + 1] = e
                      /\ \A i \in 1 .. n : more[i] = s[i]
  BY DEF OneMore
<1>2. /\ \A t \in SUBSET (1 .. n) :
            f[t] = IF t = {} THEN base ELSE g[<<f[t \ {Max(t)}], s[Max(t)]>>]
      /\ \A t \in SUBSET (1 .. n + 1) :
            h[t] = IF t = {} THEN base ELSE g[<<h[t \ {Max(t)}], more[Max(t)]>>]
  BY <1>1 DEF Replays
<1>3. ASSUME NEW t \in SUBSET (1 .. n), t # {}, f[t \ {Max(t)}] = h[t \ {Max(t)}]
      PROVE  f[t] = h[t]
  <2>1. Max(t) \in 1 .. n
    BY <1>1, <1>3, LastOfSome
  <2>2. t \in SUBSET (1 .. n + 1)
    BY <1>1
  <2>3. more[Max(t)] = s[Max(t)]
    BY <1>1, <2>1
  <2> QED  BY <1>2, <1>3, <2>2, <2>3
<1>4. f[{}] = h[{}]
  BY <1>2
<1>5. \A t \in SUBSET (1 .. n) : f[t] = h[t]
  <2>1. GoTogether(n, f, h)
    BY <1>3, <1>4 DEF GoTogether
  <2> QED  BY <2>1, SameReplay
<1>6. Max(1 .. n + 1) = n + 1
  <2>1. n + 1 \in Nat \ {0}
    BY <1>1
  <2> QED  BY <2>1, LastOfAll
<1>7. (1 .. n + 1) \ {n + 1} = 1 .. n /\ 1 .. n + 1 # {}
  <2>1. n + 1 \in 1 .. n + 1
    BY <1>1
  <2>2. (1 .. n + 1) \ {n + 1} = 1 .. n
    BY <1>1
  <2> QED  BY <2>1, <2>2
<1>8. h[1 .. n + 1] = g[<<h[1 .. n], e>>]
  <2> DEFINE all == 1 .. n + 1
  <2>1. h[all] = IF all = {} THEN base ELSE g[<<h[all \ {Max(all)}], more[Max(all)]>>]
    BY <1>2
  <2> QED  BY <1>1, <1>6, <1>7, <2>1
<1>9. h[1 .. n] = f[1 .. n]
  BY <1>5
<1> QED  BY <1>1, <1>8, <1>9

LEMMA ReplayEmpty ==
    ASSUME NEW g, NEW base, NEW f, Replays(g, base, <<>>, f)
    PROVE  f[DOMAIN <<>>] = base
BY DEF Replays

\* What a stream is replayed to, event by event: r is the fold, as a function on
\* streams, g one step of it.
IsFold(A, E, g, base, r) ==
    \A s \in Seq(E) : \E f \in [SUBSET DOMAIN s -> A] :
        Replays(g, base, s, f) /\ r[s] = f[DOMAIN s]

LEMMA FoldByEvent ==
    ASSUME NEW A, NEW E, NEW g, NEW base, NEW r, IsFold(A, E, g, base, r)
    PROVE  /\ r[<<>>] = base
           /\ \A s \in Seq(E) : r[s] \in A
           /\ \A s \in Seq(E), e \in E : r[Append(s, e)] = g[<<r[s], e>>]
<1>1. r[<<>>] = base
  <2>1. <<>> \in Seq(E)
    OBVIOUS
  <2>2. PICK f : Replays(g, base, <<>>, f) /\ r[<<>>] = f[DOMAIN <<>>]
    BY <2>1 DEF IsFold
  <2> QED  BY <2>2, ReplayEmpty
<1>2. ASSUME NEW s \in Seq(E) PROVE r[s] \in A
  <2>1. PICK f \in [SUBSET DOMAIN s -> A] : r[s] = f[DOMAIN s]
    BY DEF IsFold
  <2> QED  BY <2>1
<1>3. ASSUME NEW s \in Seq(E), NEW e \in E PROVE r[Append(s, e)] = g[<<r[s], e>>]
  <2>1. PICK f \in [SUBSET DOMAIN s -> A] : Replays(g, base, s, f) /\ r[s] = f[DOMAIN s]
    BY DEF IsFold
  <2> DEFINE more == Append(s, e)
  <2>2. more \in Seq(E) /\ OneMore(more, s, e)
    BY AppendOneMore
  <2> HIDE DEF more
  <2>3. PICK h \in [SUBSET DOMAIN more -> A] : Replays(g, base, more, h) /\ r[more] = h[DOMAIN more]
    BY <2>2 DEF IsFold
  <2>4. h[DOMAIN more] = g[<<f[DOMAIN s], e>>]
    BY <2>1, <2>2, <2>3, ReplayAppend
  <2> QED  BY <2>1, <2>3, <2>4 DEF more
<1> QED  BY <1>1, <1>2, <1>3

-----------------------------------------------------------------------------
(* Streams. *)

LEMMA PrefixTyped ==
    ASSUME NEW E, NEW s \in Seq(E), NEW n \in 0 .. Len(s)
    PROVE  /\ SubSeq(s, 1, n) \in Seq(E)
           /\ Len(SubSeq(s, 1, n)) = n
           /\ \A i \in 1 .. n : SubSeq(s, 1, n)[i] = s[i]
  OBVIOUS

LEMMA PrefixOneMore ==
    ASSUME NEW E, NEW s \in Seq(E), NEW n \in Nat, n + 1 \in 1 .. Len(s)
    PROVE  SubSeq(s, 1, n + 1) = Append(SubSeq(s, 1, n), s[n + 1])
<1> DEFINE begin == SubSeq(s, 1, n)
<1>1. n \in 0 .. Len(s) /\ n + 1 \in 0 .. Len(s) /\ s[n + 1] \in E
  OBVIOUS
<1>2. /\ begin \in Seq(E) /\ Len(begin) = n /\ \A i \in 1 .. n : begin[i] = s[i]
      /\ SubSeq(s, 1, n + 1) \in Seq(E) /\ Len(SubSeq(s, 1, n + 1)) = n + 1
      /\ \A i \in 1 .. n + 1 : SubSeq(s, 1, n + 1)[i] = s[i]
  BY <1>1, PrefixTyped
<1> HIDE DEF begin
<1>3. /\ Append(begin, s[n + 1]) \in Seq(E) /\ Len(Append(begin, s[n + 1])) = n + 1
      /\ \A i \in 1 .. n + 1 : Append(begin, s[n + 1])[i] = s[i]
  BY <1>1, <1>2
<1>4. SubSeq(s, 1, n + 1) = Append(begin, s[n + 1])
  BY <1>2, <1>3, SeqEqual
<1> QED  BY <1>4 DEF begin

LEMMA WholePrefix ==
    ASSUME NEW E, NEW s \in Seq(E) PROVE SubSeq(s, 1, Len(s)) = s
<1>1. Len(s) \in 0 .. Len(s)
  OBVIOUS
<1> QED  BY <1>1, PrefixTyped, SeqEqual

LEMMA PrefixOfConcat ==
    ASSUME NEW E, NEW s \in Seq(E), NEW t \in Seq(E), NEW n \in 0 .. Len(s)
    PROVE  SubSeq(s \o t, 1, n) = SubSeq(s, 1, n)
<1>1. /\ s \o t \in Seq(E) /\ n \in 0 .. Len(s \o t)
      /\ \A i \in 1 .. n : (s \o t)[i] = s[i]
  OBVIOUS
<1> QED  BY <1>1, PrefixTyped, SeqEqual

LEMMA PrefixOfAppend ==
    ASSUME NEW E, NEW s \in Seq(E), NEW e \in E, NEW n \in 0 .. Len(s)
    PROVE  SubSeq(Append(s, e), 1, n) = SubSeq(s, 1, n)
<1>1. /\ Append(s, e) \in Seq(E) /\ n \in 0 .. Len(Append(s, e))
      /\ \A i \in 1 .. n : Append(s, e)[i] = s[i]
  OBVIOUS
<1> QED  BY <1>1, PrefixTyped, SeqEqual

LEMMA AppendToConcat ==
    ASSUME NEW E, NEW s \in Seq(E), NEW t \in Seq(E), NEW e \in E
    PROVE  s \o Append(t, e) = Append(s \o t, e)
<1>1. s \o Append(t, e) \in Seq(E) /\ Append(s \o t, e) \in Seq(E)
  OBVIOUS
<1>2. Len(s \o Append(t, e)) = Len(Append(s \o t, e))
  OBVIOUS
<1>3. \A i \in 1 .. Len(s \o Append(t, e)) : (s \o Append(t, e))[i] = Append(s \o t, e)[i]
  OBVIOUS
<1> QED  BY <1>1, <1>2, <1>3, SeqEqual

-----------------------------------------------------------------------------
(* Summing. *)

\* What holds of no element and, with one more, of the next has it for all.
LEMMA SetInduction ==
    ASSUME NEW S, IsFiniteSet(S), NEW P, {} \in P,
           \A s \in SUBSET S, x \in S : s \in P /\ x \notin s => s \cup {x} \in P
    PROVE  \A s \in SUBSET S : s \in P
<1> DEFINE Has(n) == \A s \in SUBSET S : Cardinality(s) = n => s \in P
           N == {n \in Nat : Has(n)}
<1>1. \A s \in SUBSET S : IsFiniteSet(s) /\ Cardinality(s) \in Nat
  BY FS_Subset, FS_CardinalityType
<1>2. Has(0)
  BY <1>1, FS_EmptySet
<1>3. ASSUME NEW n \in Nat, Has(n) PROVE Has(n + 1)
  <2> SUFFICES ASSUME NEW s \in SUBSET S, Cardinality(s) = n + 1 PROVE s \in P
    OBVIOUS
  <2>1. s # {}
    BY <1>1, FS_EmptySet
  <2>2. PICK x \in s : TRUE
    BY <2>1
  <2>3. Cardinality(s \ {x}) = n
    <3>1. Cardinality(s \ {x}) = Cardinality(s) - 1
      BY <1>1, <2>2, FS_RemoveElement
    <3> QED  BY <3>1
  <2>4. s \ {x} \in P
    BY <1>3, <2>3
  <2>5. (s \ {x}) \cup {x} = s /\ x \in S /\ x \notin s \ {x} /\ s \ {x} \in SUBSET S
    BY <2>2
  <2>6. (s \ {x}) \cup {x} \in P
    BY <2>4, <2>5
  <2> QED  BY <2>5, <2>6
<1>4. 0 \in N /\ \A n \in Nat : n \in N => n + 1 \in N
  BY <1>2, <1>3
<1> HIDE DEF N
<1>5. \A n \in Nat : n \in N
  BY <1>4, Induction
<1> QED  BY <1>1, <1>5 DEF N

\* A sum of natural numbers is the number of the units they are made of.
Units(w, s) == UNION {{x} \X (1 .. w[x]) : x \in s}
Total(w, s) == Cardinality(Units(w, s))

Weighs(w, S) == \A x \in S : w[x] \in Nat

LEMMA TotalAdds ==
    ASSUME NEW S, IsFiniteSet(S), NEW w, Weighs(w, S)
    PROVE  /\ Total(w, {}) = 0
           /\ \A s \in SUBSET S : Total(w, s) \in Nat /\ IsFiniteSet(Units(w, s))
           /\ \A s \in SUBSET S, x \in S : x \notin s => Total(w, s \cup {x}) = Total(w, s) + w[x]
<1> DEFINE Own(x) == {x} \X (1 .. w[x])
           P == {s \in SUBSET S : IsFiniteSet(Units(w, s))}
<1>1. ASSUME NEW x \in S PROVE IsFiniteSet(Own(x)) /\ Cardinality(Own(x)) = w[x]
  <2>1. IsFiniteSet({x}) /\ Cardinality({x}) = 1
    BY FS_Singleton
  <2>2. PICK n \in Nat : n = w[x]
    BY DEF Weighs
  <2>3. IsFiniteSet(1 .. n) /\ Cardinality(1 .. n) = n
    BY FS_Interval
  <2>4. IsFiniteSet({x} \X (1 .. n)) /\ Cardinality({x} \X (1 .. n)) = 1 * n
    BY <2>1, <2>3, FS_Product
  <2> QED  BY <2>2, <2>4
<1>2. Units(w, {}) = {}
  BY DEF Units
<1>3. \A s, x : Units(w, s \cup {x}) = Units(w, s) \cup Own(x)
  BY DEF Units
<1>4. \A s, x : x \notin s => Units(w, s) \cap Own(x) = {}
  BY DEF Units
<1> HIDE DEF Own
<1>5. \A s \in SUBSET S : s \in P
  <2>1. {} \in P
    BY <1>2, FS_EmptySet
  <2>2. ASSUME NEW s \in SUBSET S, NEW x \in S, s \in P PROVE s \cup {x} \in P
    <3>1. IsFiniteSet(Units(w, s)) /\ IsFiniteSet(Own(x))
      BY <1>1, <2>2
    <3>2. IsFiniteSet(Units(w, s) \cup Own(x))
      BY <3>1, FS_Union
    <3>3. IsFiniteSet(Units(w, s \cup {x}))
      BY <1>3, <3>2
    <3> QED  BY <3>3
  <2> HIDE DEF P
  <2> QED  BY <2>1, <2>2, SetInduction
<1>6. ASSUME NEW s \in SUBSET S, NEW x \in S, x \notin s PROVE Total(w, s \cup {x}) = Total(w, s) + w[x]
  <2>1. IsFiniteSet(Units(w, s))
    BY <1>5
  <2>2. Cardinality(Units(w, s) \cap Own(x)) = 0
    BY <1>4, <1>6, FS_EmptySet
  <2>3. Cardinality(Units(w, s) \cup Own(x))
          = Cardinality(Units(w, s)) + Cardinality(Own(x)) - Cardinality(Units(w, s) \cap Own(x))
    BY <1>1, <2>1, FS_Union
  <2>4. Cardinality(Units(w, s)) \in Nat
    BY <2>1, FS_CardinalityType
  <2>5. Cardinality(Own(x)) = w[x] /\ w[x] \in Nat
    BY <1>1 DEF Weighs
  <2>6. Cardinality(Units(w, s) \cup Own(x)) = Cardinality(Units(w, s)) + w[x]
    BY <2>2, <2>3, <2>4, <2>5
  <2>7. Units(w, s \cup {x}) = Units(w, s) \cup Own(x)
    BY <1>3
  <2> QED  BY <2>6, <2>7, Zenon DEF Total
<1>7. Total(w, {}) = 0
  BY <1>2, FS_EmptySet DEF Total
<1>8. \A s \in SUBSET S : Total(w, s) \in Nat /\ IsFiniteSet(Units(w, s))
  BY <1>5, FS_CardinalityType DEF Total
<1> QED  BY <1>6, <1>7, <1>8

LEMMA TotalWithout ==
    ASSUME NEW S, IsFiniteSet(S), NEW w, Weighs(w, S), NEW s \in SUBSET S, NEW c \in s
    PROVE  Total(w, s) = w[c] + Total(w, s \ {c})
<1> DEFINE t == s \ {c}
<1>1. t \in SUBSET S /\ c \in S /\ c \notin t /\ s = t \cup {c} /\ w[c] \in Nat
  BY DEF Weighs
<1> HIDE DEF t
<1>2. Total(w, t \cup {c}) = Total(w, t) + w[c] /\ Total(w, t) \in Nat
  BY <1>1, TotalAdds
<1>3. Total(w, s) = w[c] + Total(w, t)
  BY <1>1, <1>2
<1> QED  BY <1>3 DEF t

\* A function that MapThenFoldSet's definition accepts for a sum.
Sums(w, S, f) ==
    f = [s \in SUBSET S |-> IF s = {} THEN 0
                            ELSE w[CHOOSE x \in s : TRUE] + f[s \ {CHOOSE x \in s : TRUE}]]

LEMMA SumExists ==
    ASSUME NEW S, IsFiniteSet(S), NEW w, Weighs(w, S)
    PROVE  \E f : Sums(w, S, f)
<1> DEFINE f == [s \in SUBSET S |-> Total(w, s)]
<1>1. ASSUME NEW s \in SUBSET S, s # {}
      PROVE  Total(w, s) = w[CHOOSE x \in s : TRUE] + Total(w, s \ {CHOOSE x \in s : TRUE})
  <2> DEFINE c == CHOOSE x \in s : TRUE
  <2>1. c \in s
    BY <1>1
  <2> HIDE DEF c
  <2>2. Total(w, s) = w[c] + Total(w, s \ {c})
    BY <2>1, TotalWithout
  <2> QED  BY <2>2 DEF c
<1>2. Total(w, {}) = 0
  BY TotalAdds
<1>3. \A s \in SUBSET S : f[s] = Total(w, s)
  OBVIOUS
<1>4. ASSUME NEW s \in SUBSET S
      PROVE  f[s] = IF s = {} THEN 0
                    ELSE w[CHOOSE x \in s : TRUE] + f[s \ {CHOOSE x \in s : TRUE}]
  <2>1. s \ {CHOOSE x \in s : TRUE} \in SUBSET S
    OBVIOUS
  <2>2. f[s \ {CHOOSE x \in s : TRUE}] = Total(w, s \ {CHOOSE x \in s : TRUE})
    BY <1>3, <2>1
  <2> HIDE DEF f
  <2> QED  BY <1>1, <1>2, <1>3, <2>2
<1>5. Sums(w, S, f)
  <2> DEFINE g == [s \in SUBSET S |-> IF s = {} THEN 0
                       ELSE w[CHOOSE x \in s : TRUE] + f[s \ {CHOOSE x \in s : TRUE}]]
  <2>1. DOMAIN f = SUBSET S /\ DOMAIN g = SUBSET S /\ \A s \in SUBSET S : f[s] = g[s]
    BY <1>4
  <2>2. f = [s \in DOMAIN f |-> f[s]] /\ g = [s \in DOMAIN g |-> g[s]]
    OBVIOUS
  <2> HIDE DEF f, g
  <2>3. f = g
    BY <2>1, <2>2
  <2> QED  BY <2>3 DEF Sums, g
<1> QED  BY <1>5

LEMMA SumIsTotal ==
    ASSUME NEW S, IsFiniteSet(S), NEW w, Weighs(w, S), NEW f, Sums(w, S, f)
    PROVE  f[S] = Total(w, S)
<1> DEFINE Good(n) == \A s \in SUBSET S : Cardinality(s) = n => f[s] = Total(w, s)
           N == {n \in Nat : Good(n)}
<1>0. \A s \in SUBSET S : IsFiniteSet(s) /\ Cardinality(s) \in Nat
  BY FS_Subset, FS_CardinalityType
<1>1. Good(0)
  <2>1. f[{}] = 0
    BY DEF Sums
  <2> QED  BY <1>0, <2>1, TotalAdds, FS_EmptySet
<1>2. ASSUME NEW n \in Nat, Good(n) PROVE Good(n + 1)
  <2> SUFFICES ASSUME NEW s \in SUBSET S, Cardinality(s) = n + 1 PROVE f[s] = Total(w, s)
    OBVIOUS
  <2> DEFINE c == CHOOSE x \in s : TRUE
  <2>1. s # {}
    BY <1>0, FS_EmptySet
  <2>2. c \in s
    BY <2>1
  <2>3. f[s] = w[c] + f[s \ {c}]
    BY <2>1 DEF Sums
  <2> HIDE DEF c
  <2>4. Cardinality(s \ {c}) = Cardinality(s) - 1
    BY <1>0, <2>2, FS_RemoveElement
  <2>5. f[s \ {c}] = Total(w, s \ {c})
    BY <1>2, <2>4
  <2>6. Total(w, s) = w[c] + Total(w, s \ {c})
    BY <2>2, TotalWithout
  <2> QED  BY <2>3, <2>5, <2>6
<1>3. 0 \in N /\ \A n \in Nat : n \in N => n + 1 \in N
  BY <1>1, <1>2
<1> HIDE DEF N
<1>4. \A n \in Nat : n \in N
  BY <1>3, Induction
<1>5. Cardinality(S) \in Nat
  BY FS_CardinalityType
<1> QED  BY <1>4, <1>5 DEF N

\* Of two sets with nothing in common.
LEMMA TotalOfBoth ==
    ASSUME NEW S, IsFiniteSet(S), NEW w, Weighs(w, S),
           NEW s \in SUBSET S, NEW t \in SUBSET S, s \cap t = {}
    PROVE  Total(w, s \cup t) = Total(w, s) + Total(w, t)
<1>1. IsFiniteSet(Units(w, s)) /\ IsFiniteSet(Units(w, t))
  BY TotalAdds
<1>2. Units(w, s \cup t) = Units(w, s) \cup Units(w, t) /\ Units(w, s) \cap Units(w, t) = {}
  BY DEF Units
<1> DEFINE a == Units(w, s)
           b == Units(w, t)
<1> HIDE DEF a, b
<1>3. /\ Cardinality(a \cup b) = Cardinality(a) + Cardinality(b) - Cardinality(a \cap b)
      /\ Cardinality(a) \in Nat /\ Cardinality(b) \in Nat
  BY <1>1, FS_Union, FS_CardinalityType DEF a, b
<1>4. Cardinality(a \cap b) = 0
  BY <1>2, FS_EmptySet DEF a, b
<1>5. Cardinality(a \cup b) = Cardinality(a) + Cardinality(b)
  BY <1>3, <1>4
<1> QED  BY <1>2, <1>5 DEF Total, a, b

LEMMA TotalOfFewer ==
    ASSUME NEW S, IsFiniteSet(S), NEW w, Weighs(w, S),
           NEW s \in SUBSET S, NEW t \in SUBSET S, s \subseteq t
    PROVE  Total(w, s) <= Total(w, t)
<1>1. IsFiniteSet(Units(w, t)) /\ Units(w, s) \subseteq Units(w, t)
  BY TotalAdds DEF Units
<1> QED  BY <1>1, FS_Subset DEF Total

LEMMA TotalOfOnes ==
    ASSUME NEW S, IsFiniteSet(S), NEW w, \A x \in S : w[x] = 1
    PROVE  Total(w, S) = Cardinality(S)
<1>1. Units(w, S) = S \X {1}
  BY DEF Units
<1>2. IsFiniteSet({1}) /\ Cardinality({1}) = 1
  BY FS_Singleton
<1>3. Cardinality(S \X {1}) = Cardinality(S) * 1 /\ Cardinality(S) \in Nat
  BY <1>2, FS_Product, FS_CardinalityType
<1> QED  BY <1>1, <1>3 DEF Total

\* What weighs the same, weighs the same together.
LEMMA TotalSame ==
    ASSUME NEW s, NEW w, NEW v, \A x \in s : w[x] = v[x]
    PROVE  Total(w, s) = Total(v, s)
<1>1. Units(w, s) = Units(v, s)
  BY DEF Units
<1> QED  BY <1>1 DEF Total

LEMMA TotalTimes ==
    ASSUME NEW S, IsFiniteSet(S), NEW w, Weighs(w, S), NEW n \in Nat
    PROVE  Total([x \in S |-> n * w[x]], S) = n * Total(w, S)
<1> DEFINE v == [x \in S |-> n * w[x]]
           P == {s \in SUBSET S : Total(v, s) = n * Total(w, s)}
<1>1. Weighs(v, S) /\ \A x \in S : v[x] = n * w[x] /\ w[x] \in Nat
  BY DEF Weighs
<1> HIDE DEF v
<1>2. {} \in P
  <2>1. Total(v, {}) = 0 /\ Total(w, {}) = 0
    BY <1>1, TotalAdds
  <2> QED  BY <2>1
<1>3. ASSUME NEW s \in SUBSET S, NEW x \in S, s \in P, x \notin s PROVE s \cup {x} \in P
  <2>1. /\ Total(v, s \cup {x}) = Total(v, s) + v[x] /\ Total(w, s \cup {x}) = Total(w, s) + w[x]
        /\ Total(w, s) \in Nat
    BY <1>1, <1>3, TotalAdds
  <2>2. Total(v, s) = n * Total(w, s)
    BY <1>3
  <2>3. PICK a \in Nat, b \in Nat : a = Total(w, s) /\ b = w[x]
    BY <1>1, <2>1
  <2>4. n * a + n * b = n * (a + b)
    OBVIOUS
  <2>5. Total(v, s \cup {x}) = n * Total(w, s \cup {x})
    BY <1>1, <2>1, <2>2, <2>3, <2>4
  <2> QED  BY <2>5
<1> HIDE DEF P
<1>4. \A s \in SUBSET S : s \in P
  BY <1>2, <1>3, SetInduction
<1>5. S \in P
  BY <1>4
<1> QED  BY <1>5 DEF P, v

\* What is counted group by group is counted once.
Groups(part, R, S) ==
    /\ \A r \in R : part[r] \in SUBSET S
    /\ \A r, q \in R : r # q => part[r] \cap part[q] = {}

LEMMA TotalByGroups ==
    ASSUME NEW S, IsFiniteSet(S), NEW w, Weighs(w, S), NEW R, IsFiniteSet(R),
           NEW part, Groups(part, R, S), NEW v, \A r \in R : v[r] = Total(w, part[r])
    PROVE  Total(v, R) = Total(w, UNION {part[r] : r \in R})
<1> DEFINE All(q) == UNION {part[r] : r \in q}
           P == {q \in SUBSET R : Total(v, q) = Total(w, All(q))}
<1>1. Weighs(v, R)
  <2>1. \A r \in R : Total(w, part[r]) \in Nat
    BY TotalAdds DEF Groups
  <2> QED  BY <2>1 DEF Weighs
<1>2. {} \in P
  <2>1. All({}) = {} /\ Total(v, {}) = 0 /\ Total(w, {}) = 0
    BY <1>1, TotalAdds
  <2> QED  BY <2>1
<1>3. ASSUME NEW q \in SUBSET R, NEW r \in R, q \in P, r \notin q PROVE q \cup {r} \in P
  <2>1. Total(v, q \cup {r}) = Total(v, q) + v[r]
    BY <1>1, <1>3, TotalAdds
  <2>2. /\ All(q \cup {r}) = All(q) \cup part[r] /\ All(q) \in SUBSET S
        /\ part[r] \in SUBSET S /\ All(q) \cap part[r] = {}
    BY <1>3 DEF Groups
  <2>3. Total(v, q) = Total(w, All(q)) /\ v[r] = Total(w, part[r])
    BY <1>3
  <2> HIDE DEF All
  <2>4. Total(w, All(q) \cup part[r]) = Total(w, All(q)) + Total(w, part[r])
    BY <2>2, TotalOfBoth
  <2> QED  BY <2>1, <2>2, <2>3, <2>4
<1> HIDE DEF P
<1>4. \A q \in SUBSET R : q \in P
  BY <1>2, <1>3, SetInduction
<1>5. R \in P
  BY <1>4
<1> QED  BY <1>5 DEF P

\* What a sequence holds after another one was appended to it.
LEMMA ConcatIs ==
    ASSUME NEW S, NEW s \in Seq(S), NEW t \in Seq(S)
    PROVE  /\ s \o t \in Seq(S) /\ Len(s \o t) = Len(s) + Len(t)
           /\ \A n \in 1 .. Len(s) : (s \o t)[n] = s[n]
           /\ \A n \in 1 .. Len(t) : (s \o t)[Len(s) + n] = t[n]
           /\ \A n \in 1 .. Len(s \o t) :
                 n \in 1 .. Len(s) \/ \E m \in 1 .. Len(t) : n = Len(s) + m
<1>1. /\ s \o t \in Seq(S) /\ Len(s \o t) = Len(s) + Len(t)
      /\ \A n \in 1 .. Len(s) : (s \o t)[n] = s[n]
      /\ \A n \in 1 .. Len(t) : (s \o t)[Len(s) + n] = t[n]
  OBVIOUS
<1>2. ASSUME NEW n \in 1 .. Len(s \o t)
      PROVE  n \in 1 .. Len(s) \/ \E m \in 1 .. Len(t) : n = Len(s) + m
  <2>1. PICK a \in Nat : a = Len(s)
    OBVIOUS
  <2>2. PICK b \in Nat : b = Len(t)
    OBVIOUS
  <2>3. n \in 1 .. a + b
    BY <1>1, <2>1, <2>2
  <2>4. n \in 1 .. a \/ (n - a \in 1 .. b /\ n = a + (n - a))
    BY <2>3
  <2> QED  BY <2>1, <2>2, <2>4
<1> QED  BY <1>1, <1>2

-----------------------------------------------------------------------------
(* Putting rows in order. *)

\* The pairs in T tell the elements of S apart.
StrictOrder(S, T) ==
    /\ \A x \in S : <<x, x>> \notin T
    /\ \A x, y \in S : x # y => <<x, y>> \in T \/ <<y, x>> \in T
    /\ \A x, y, z \in S : <<x, y>> \in T /\ <<y, z>> \in T => <<x, z>> \in T

Ordered(s, T) == \A i, j \in DOMAIN s : i < j => <<s[i], s[j]>> \in T

\* One of them is behind all others.
LEMMA SomeIsLast ==
    ASSUME NEW S, IsFiniteSet(S), NEW T, StrictOrder(S, T), NEW s \in SUBSET S, s # {}
    PROVE  \E m \in s : \A x \in s \ {m} : <<x, m>> \in T
<1> DEFINE HasLast(u) == u # {} => \E m \in u : \A x \in u \ {m} : <<x, m>> \in T
           P == {u \in SUBSET S : HasLast(u)}
<1>1. ASSUME NEW u \in SUBSET S, NEW x \in S, HasLast(u), x \notin u PROVE HasLast(u \cup {x})
  <2>1. CASE u = {}
    BY <2>1
  <2>2. ASSUME u # {} PROVE HasLast(u \cup {x})
    <3>1. PICK m \in u : \A y \in u \ {m} : <<y, m>> \in T
      BY <1>1, <2>2
    <3>2. m \in S /\ m # x
      BY <1>1
    <3>3. CASE <<x, m>> \in T
      <4>1. m \in u \cup {x} /\ \A y \in (u \cup {x}) \ {m} : <<y, m>> \in T
        BY <3>1, <3>3
      <4> QED  BY <4>1
    <3>4. CASE <<m, x>> \in T
      <4>1. \A y \in (u \cup {x}) \ {x} : <<y, x>> \in T
        BY <3>1, <3>2, <3>4 DEF StrictOrder
      <4> QED  BY <4>1
    <3> QED  BY <3>2, <3>3, <3>4 DEF StrictOrder
  <2> QED  BY <2>1, <2>2
<1>2. {} \in P /\ \A u \in SUBSET S, x \in S : u \in P /\ x \notin u => u \cup {x} \in P
  BY <1>1
<1> HIDE DEF P
<1>3. s \in P
  BY <1>2, SetInduction
<1> QED  BY <1>3 DEF P

\* So they can be put in order, each once.
LEMMA CanBeOrdered ==
    ASSUME NEW S, IsFiniteSet(S), NEW T, StrictOrder(S, T)
    PROVE  \E s \in SetToSeqs(S) : Ordered(s, T)
<1> DEFINE Can(u) == \E f \in SetToSeqs(u) : Ordered(f, T)
           Have(n) == \A u \in SUBSET S : Cardinality(u) = n => Can(u)
           N == {n \in Nat : Have(n)}
<1>0. \A u \in SUBSET S : IsFiniteSet(u) /\ Cardinality(u) \in Nat
  BY FS_Subset, FS_CardinalityType
<1>1. Have(0)
  <2> SUFFICES ASSUME NEW u \in SUBSET S, Cardinality(u) = 0 PROVE Can(u)
    OBVIOUS
  <2>1. 1 .. Cardinality(u) = {}
    OBVIOUS
  <2>2. << >> \in SetToSeqs(u) /\ Ordered(<< >>, T)
    BY <2>1 DEF SetToSeqs, Ordered
  <2> QED  BY <2>2
<1>2. ASSUME NEW n \in Nat, Have(n) PROVE Have(n + 1)
  <2> SUFFICES ASSUME NEW u \in SUBSET S, Cardinality(u) = n + 1 PROVE Can(u)
    OBVIOUS
  <2>1. u # {}
    BY <1>0, FS_EmptySet
  <2>2. PICK m \in u : \A x \in u \ {m} : <<x, m>> \in T
    BY <2>1, SomeIsLast
  <2>3. Cardinality(u \ {m}) = n
    <3>1. Cardinality(u \ {m}) = Cardinality(u) - 1
      BY <1>0, FS_RemoveElement
    <3> QED  BY <3>1
  <2>4. PICK f \in SetToSeqs(u \ {m}) : Ordered(f, T)
    BY <1>2, <2>3
  <2>5. /\ f \in [1 .. n -> u \ {m}]
        /\ \A i, j \in 1 .. n : i # j => f[i] # f[j]
        /\ \A i, j \in 1 .. n : i < j => <<f[i], f[j]>> \in T
    BY <2>3, <2>4 DEF SetToSeqs, Ordered
  <2> DEFINE g == [i \in 1 .. n + 1 |-> IF i = n + 1 THEN m ELSE f[i]]
  <2>6. \A i \in 1 .. n : i \in 1 .. n + 1 /\ i # n + 1
    OBVIOUS
  <2>7. \A i \in 1 .. n + 1 : i = n + 1 \/ i \in 1 .. n
    OBVIOUS
  <2>8. /\ g \in [1 .. n + 1 -> u] /\ g[n + 1] = m
        /\ \A i \in 1 .. n : g[i] = f[i] /\ g[i] \in u \ {m}
    BY <2>5, <2>6, <2>7
  <2> HIDE DEF g
  <2>9. \A i, j \in 1 .. n + 1 : i # j => g[i] # g[j]
    BY <2>5, <2>7, <2>8
  <2>10. \A i, j \in 1 .. n + 1 : i < j => <<g[i], g[j]>> \in T
    <3> SUFFICES ASSUME NEW i \in 1 .. n + 1, NEW j \in 1 .. n + 1, i < j
                 PROVE  <<g[i], g[j]>> \in T
      OBVIOUS
    <3>1. i \in 1 .. n
      OBVIOUS
    <3>2. CASE j = n + 1
      BY <2>2, <2>8, <3>1, <3>2
    <3>3. CASE j \in 1 .. n
      BY <2>5, <2>8, <3>1, <3>3
    <3> QED  BY <2>7, <3>2, <3>3
  <2>11. g \in SetToSeqs(u) /\ Ordered(g, T)
    BY <2>8, <2>9, <2>10 DEF SetToSeqs, Ordered
  <2> QED  BY <2>11
<1>3. 0 \in N /\ \A n \in Nat : n \in N => n + 1 \in N
  BY <1>1, <1>2
<1> HIDE DEF N
<1>4. Cardinality(S) \in N
  BY <1>0, <1>3, Induction
<1> QED  BY <1>4 DEF N

\* As many increasing numbers as there are in a range are all of it, in order.
LEMMA IncreasingIsAll ==
    ASSUME NEW n \in Nat, NEW v \in Nat, NEW f \in [1 .. n -> v + 1 .. v + n],
           \A i, j \in 1 .. n : i < j => f[i] < f[j]
    PROVE  \A i \in 1 .. n : f[i] = v + i
<1> DEFINE Up(k) == k \in 1 .. n => f[k] >= v + k
           Down(k) == n - k \in 1 .. n => f[n - k] <= v + n - k
           U == {k \in Nat : Up(k)}
           D == {k \in Nat : Down(k)}
<1>0. \A i \in 1 .. n : f[i] \in Int /\ f[i] >= v + 1 /\ f[i] <= v + n
  OBVIOUS
<1>1. ASSUME NEW k \in Nat, Up(k) PROVE Up(k + 1)
  <2> SUFFICES ASSUME k + 1 \in 1 .. n PROVE f[k + 1] >= v + (k + 1)
    OBVIOUS
  <2>1. CASE k = 0
    BY <1>0, <2>1
  <2>2. CASE k # 0
    <3>1. k \in 1 .. n /\ k < k + 1
      BY <2>2
    <3>2. f[k] >= v + k /\ f[k] < f[k + 1]
      BY <1>1, <3>1
    <3> QED  BY <1>0, <3>1, <3>2
  <2> QED  BY <2>1, <2>2
<1>2. ASSUME NEW k \in Nat, Down(k) PROVE Down(k + 1)
  <2> SUFFICES ASSUME n - (k + 1) \in 1 .. n PROVE f[n - (k + 1)] <= v + n - (k + 1)
    OBVIOUS
  <2> DEFINE i == n - (k + 1)
  <2>1. i \in 1 .. n /\ i + 1 \in 1 .. n /\ n - k = i + 1 /\ i < i + 1
    OBVIOUS
  <2>2. f[i + 1] <= v + n - k /\ f[i] < f[i + 1]
    BY <1>2, <2>1
  <2> HIDE DEF i
  <2>3. f[i] <= v + i
    BY <1>0, <2>1, <2>2
  <2> QED  BY <2>1, <2>3 DEF i
<1>3. Up(0) /\ Down(0)
  BY <1>0
<1>4. \A k \in Nat : k \in U
  <2>1. 0 \in U /\ \A k \in Nat : k \in U => k + 1 \in U
    BY <1>1, <1>3
  <2> HIDE DEF U
  <2> QED  BY <2>1, Induction
<1>5. \A k \in Nat : k \in D
  <2>1. 0 \in D /\ \A k \in Nat : k \in D => k + 1 \in D
    BY <1>2, <1>3
  <2> HIDE DEF D
  <2> QED  BY <2>1, Induction
<1>6. \A k \in Nat : Up(k) /\ Down(k)
  BY <1>4, <1>5
<1> SUFFICES ASSUME NEW i \in 1 .. n PROVE f[i] = v + i
  OBVIOUS
<1> HIDE DEF Up, Down, U, D
<1>7. Up(i) /\ Down(n - i)
  BY <1>6
<1>8. f[i] >= v + i
  BY <1>7 DEF Up
<1>9. f[n - (n - i)] <= v + n - (n - i)
  <2>1. n - (n - i) \in 1 .. n
    OBVIOUS
  <2> QED  BY <1>7, <2>1 DEF Down
<1>10. n - (n - i) = i
  OBVIOUS
<1> QED  BY <1>0, <1>8, <1>9, <1>10

-----------------------------------------------------------------------------
(* Repeating. *)

\* What is reached from base by n steps of g, for all n.
Repeats(g, base, f) == f = [n \in Nat |-> IF n = 0 THEN base ELSE g[f[n - 1]]]

LEMMA RepeatExists ==
    ASSUME NEW A, NEW g \in [A -> A], NEW base \in A
    PROVE  \E f \in [Nat -> A] : Repeats(g, base, f)
<1> DEFINE Starts(n, h) == \A k \in 0 .. n : h[k] = IF k = 0 THEN base ELSE g[h[k - 1]]
           Has(n) == \E h \in [0 .. n -> A] : Starts(n, h)
           N == {n \in Nat : Has(n)}
<1>1. Has(0)
  <2>1. [k \in 0 .. 0 |-> base] \in [0 .. 0 -> A] /\ Starts(0, [k \in 0 .. 0 |-> base])
    OBVIOUS
  <2> QED  BY <2>1
<1>2. ASSUME NEW n \in Nat, Has(n) PROVE Has(n + 1)
  <2>1. PICK h \in [0 .. n -> A] : Starts(n, h)
    BY <1>2
  <2> DEFINE m == [k \in 0 .. n + 1 |-> IF k = n + 1 THEN g[h[n]] ELSE h[k]]
  <2>2. /\ \A k \in 0 .. n : k \in 0 .. n + 1 /\ k # n + 1
        /\ \A k \in 0 .. n + 1 : k = n + 1 \/ k \in 0 .. n
        /\ n \in 0 .. n /\ n + 1 \in 0 .. n + 1 /\ n + 1 # 0 /\ (n + 1) - 1 = n
    OBVIOUS
  <2>3. /\ m \in [0 .. n + 1 -> A] /\ m[n + 1] = g[h[n]]
        /\ \A k \in 0 .. n : m[k] = h[k]
    BY <2>2
  <2> HIDE DEF m
  <2>4. ASSUME NEW k \in 0 .. n + 1 PROVE m[k] = IF k = 0 THEN base ELSE g[m[k - 1]]
    <3>1. CASE k = n + 1
      BY <2>2, <2>3, <3>1
    <3>2. CASE k \in 0 .. n
      <4>1. m[k] = h[k] /\ (k # 0 => k - 1 \in 0 .. n /\ m[k - 1] = h[k - 1])
        BY <2>3, <3>2
      <4>2. h[k] = IF k = 0 THEN base ELSE g[h[k - 1]]
        BY <2>1, <3>2
      <4> QED  BY <4>1, <4>2
    <3> QED  BY <2>2, <3>1, <3>2
  <2> QED  BY <2>3, <2>4
<1>3. \A n \in Nat : Has(n)
  <2> HIDE DEF Has
  <2>1. 0 \in N /\ \A n \in Nat : n \in N => n + 1 \in N
    BY <1>1, <1>2
  <2>2. N \subseteq {n \in Nat : Has(n)}
    OBVIOUS
  <2> HIDE DEF N
  <2>3. \A n \in Nat : n \in N
    BY <2>1, Induction
  <2> QED  BY <2>2, <2>3
<1> DEFINE H(n) == CHOOSE h \in [0 .. n -> A] : Starts(n, h)
<1>4. \A n \in Nat : H(n) \in [0 .. n -> A] /\ Starts(n, H(n))
  BY <1>3
<1>5. ASSUME NEW n \in Nat, NEW h, NEW m, Starts(n, h), Starts(n + 1, m)
      PROVE  h[n] = m[n]
  <2> DEFINE Same(k) == k \in 0 .. n => h[k] = m[k]
             S == {k \in Nat : Same(k)}
  <2>1. Same(0)
    BY <1>5
  <2>2. ASSUME NEW k \in Nat, Same(k) PROVE Same(k + 1)
    <3> SUFFICES ASSUME k + 1 \in 0 .. n PROVE h[k + 1] = m[k + 1]
      OBVIOUS
    <3>1. k \in 0 .. n /\ k + 1 \in 0 .. n + 1 /\ k + 1 # 0 /\ (k + 1) - 1 = k
      OBVIOUS
    <3>2. h[k + 1] = g[h[(k + 1) - 1]] /\ m[k + 1] = g[m[(k + 1) - 1]]
      BY <1>5, <3>1
    <3> QED  BY <2>2, <3>1, <3>2
  <2>3. \A k \in Nat : k \in S
    <3>1. 0 \in S /\ \A k \in Nat : k \in S => k + 1 \in S
      BY <2>1, <2>2
    <3> HIDE DEF S
    <3> QED  BY <3>1, Induction
  <2> QED  BY <2>3
<1> HIDE DEF Starts, H
<1> DEFINE f == [n \in Nat |-> H(n)[n]]
<1>6. f \in [Nat -> A]
  BY <1>4
<1>7. ASSUME NEW n \in Nat PROVE f[n] = IF n = 0 THEN base ELSE g[f[n - 1]]
  <2>1. Starts(n, H(n)) /\ n \in 0 .. n
    BY <1>4
  <2>2. f[n] = IF n = 0 THEN base ELSE g[H(n)[n - 1]]
    BY <2>1 DEF Starts
  <2>3. ASSUME n # 0 PROVE H(n)[n - 1] = f[n - 1]
    <3>1. n - 1 \in Nat /\ (n - 1) + 1 = n
      BY <2>3
    <3>2. Starts(n - 1, H(n - 1)) /\ Starts((n - 1) + 1, H(n))
      BY <1>4, <3>1
    <3>3. H(n - 1)[n - 1] = H(n)[n - 1]
      BY <1>5, <3>1, <3>2
    <3> QED  BY <3>1, <3>3
  <2> QED  BY <2>2, <2>3
<1>8. Repeats(g, base, f)
  <2> DEFINE e == [n \in Nat |-> IF n = 0 THEN base ELSE g[f[n - 1]]]
  <2>1. f = [n \in Nat |-> f[n]] /\ \A n \in Nat : f[n] = e[n]
    BY <1>7
  <2>2. f = e
    BY <2>1
  <2> QED  BY <2>2 DEF Repeats
<1> QED  BY <1>6, <1>8

=============================================================================
