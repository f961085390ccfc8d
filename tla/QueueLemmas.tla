----------------------------- MODULE QueueLemmas -----------------------------
(***************************************************************************)
(* What the queue operations of the driver's lists do to a queue without   *)
(* duplicates: list_add and list_add_tail, taking the first entry, and     *)
(* list_del of one entry wherever it is.                                   *)
(***************************************************************************)
EXTENDS SequencesExt, SequenceTheorems, TLAPS

\* list_del of an entry (RemoveFirst) takes exactly that entry out of a
\* queue without duplicates and leaves the others in it once.
LEMMA RemoveFirstFacts ==
    ASSUME NEW S, NEW s \in Seq(S), IsInjective(s), NEW e
    PROVE  /\ RemoveFirst(s, e) \in Seq(S)
           /\ IsInjective(RemoveFirst(s, e))
           /\ Range(RemoveFirst(s, e)) = Range(s) \ {e}
<1>0. /\ Len(s) \in Nat /\ DOMAIN s = 1..Len(s)
      /\ \A i \in 1..Len(s) : s[i] \in S
      /\ \A i, j \in 1..Len(s) : s[i] = s[j] => i = j
  BY LenProperties, ElementOfSeq DEF IsInjective
<1>1. CASE \A i \in 1..Len(s) : s[i] # e
  <2>1. RemoveFirst(s, e) = s  BY <1>1 DEF RemoveFirst
  <2> QED  BY <1>0, <1>1, <2>1 DEF Range
<1>2. ASSUME NEW k \in 1..Len(s), s[k] = e
      PROVE  /\ RemoveFirst(s, e) \in Seq(S)
             /\ IsInjective(RemoveFirst(s, e))
             /\ Range(RemoveFirst(s, e)) = Range(s) \ {e}
  <2> DEFINE r == RemoveFirst(s, e)
             a == SubSeq(s, 1, k - 1)
             b == SubSeq(s, k + 1, Len(s))
  <2>1. {i \in 1..Len(s) : s[i] = e} = {k}  BY <1>0, <1>2
  <2>2. r = RemoveAt(s, k)
    BY <1>0, <1>2, <2>1 DEF RemoveFirst, SelectInSeq, Min
  <2>3. r = a \o b  BY <2>2 DEF RemoveAt
  <2>4. /\ a \in Seq(S) /\ Len(a) = k - 1
        /\ \A i \in 1..(k - 1) : a[i] = s[i]
    <3>1. \A i \in 1..(k - 1) : s[i] \in S  BY <1>0
    <3> QED  BY <1>0, <3>1, SubSeqProperties
  <2>5. /\ b \in Seq(S) /\ Len(b) = Len(s) - k
        /\ \A i \in 1..(Len(s) - k) : b[i] = s[k + i]
    <3>1. \A i \in (k + 1)..Len(s) : s[i] \in S  BY <1>0
    <3>2. /\ b \in Seq(S)
          /\ Len(b) = IF k + 1 <= Len(s) THEN Len(s) - (k + 1) + 1 ELSE 0
          /\ \A i \in 1..(Len(s) - (k + 1) + 1) : b[i] = s[(k + 1) + i - 1]
      <4>1. k + 1 \in Int /\ Len(s) \in Int  BY <1>0
      <4> QED  BY <3>1, <4>1, SubSeqProperties
    <3> HIDE DEF b
    <3>a. Len(s) \in Nat /\ k \in Nat /\ k <= Len(s)  BY <1>0
    <3>b. Len(b) = IF k + 1 <= Len(s) THEN Len(s) - (k + 1) + 1 ELSE 0  BY <3>2
    <3>3. Len(s) - (k + 1) + 1 = Len(s) - k  BY <3>a
    <3>4. Len(b) = Len(s) - k  BY <3>a, <3>b
    <3>5. ASSUME NEW i \in 1..(Len(s) - k) PROVE b[i] = s[k + i]
      <4>1. (k + 1) + i - 1 = k + i  BY <1>0
      <4>2. b[i] = s[(k + 1) + i - 1]  BY ZenonT(60), <3>2, <3>3
      <4> QED  BY <4>1, <4>2
    <3> QED  BY <3>2, <3>4, <3>5
  <2> HIDE DEF a, b
  <2>6. r \in Seq(S) /\ Len(r) = Len(s) - 1
    <3>1. r \in Seq(S) /\ Len(r) = Len(a) + Len(b)
      BY ZenonT(60), <2>3, <2>4, <2>5, ConcatProperties
    <3> QED  BY <1>0, <2>4, <2>5, <3>1
  <2>7. \A i \in 1..(Len(s) - 1) : r[i] = IF i < k THEN s[i] ELSE s[i + 1]
    <3>1. \A i \in 1..(Len(s) - 1) :
            r[i] = IF i <= k - 1 THEN a[i] ELSE b[i - (k - 1)]
      BY <1>0, <2>3, <2>4, <2>5, ConcatProperties
    <3> QED  BY <1>0, <2>4, <2>5, <3>1
  <2>8. DOMAIN r = 1..(Len(s) - 1)  BY <2>6, LenProperties
  <2> HIDE DEF r
  <2>9. IsInjective(r)
    <3> SUFFICES ASSUME NEW i \in 1..(Len(s) - 1), NEW j \in 1..(Len(s) - 1),
                        r[i] = r[j]
                 PROVE  i = j
      BY <2>8 DEF IsInjective
    <3> QED  BY <1>0, <2>7
  <2>10. ASSUME NEW i \in 1..(Len(s) - 1) PROVE r[i] \in Range(s) \ {e}
    <3>1. \E j \in 1..Len(s) : j # k /\ r[i] = s[j]  BY <1>0, <2>7
    <3> QED  BY <1>0, <1>2, <3>1 DEF Range
  <2>11. ASSUME NEW i \in 1..Len(s), s[i] # e PROVE s[i] \in Range(r)
    <3>1. CASE i < k  BY <1>0, <2>7, <2>8, <3>1 DEF Range
    <3>2. CASE i > k
      <4>1. i - 1 \in 1..(Len(s) - 1) /\ r[i - 1] = s[i]
        BY <1>0, <2>7, <3>2
      <4> QED  BY <2>8, <4>1 DEF Range
    <3> QED  BY <1>0, <1>2, <2>11, <3>1, <3>2
  <2>12. Range(r) \subseteq Range(s) \ {e}  BY <2>8, <2>10 DEF Range
  <2>13. Range(s) \ {e} \subseteq Range(r)  BY <1>0, <2>11 DEF Range
  <2> QED  BY <2>6, <2>9, <2>12, <2>13 DEF r
<1> QED  BY <1>1, <1>2

\* list_add_tail of an entry that is not in the queue
LEMMA AppendFacts ==
    ASSUME NEW S, NEW s \in Seq(S), NEW e \in S
    PROVE  /\ Append(s, e) \in Seq(S) /\ Append(s, e) # <<>>
           /\ Range(Append(s, e)) = Range(s) \cup {e}
           /\ IsInjective(s) /\ e \notin Range(s) => IsInjective(Append(s, e))
<1> DEFINE r == Append(s, e)
<1>1. /\ r \in Seq(S) /\ r # <<>> /\ Len(s) \in Nat /\ Len(r) = Len(s) + 1
      /\ DOMAIN s = 1..Len(s) /\ DOMAIN r = 1..(Len(s) + 1)
      /\ \A i \in 1..Len(s) : r[i] = s[i]
      /\ r[Len(s) + 1] = e
  BY AppendProperties, LenProperties
<1> HIDE DEF r
<1>2. \A i \in DOMAIN r : r[i] \in Range(s) \cup {e}
  BY <1>1 DEF Range
<1>3. Range(s) \cup {e} \subseteq Range(r)
  BY <1>1 DEF Range
<1>4. Range(r) = Range(s) \cup {e}  BY <1>2, <1>3 DEF Range
<1>5. IsInjective(s) /\ e \notin Range(s) => IsInjective(r)
  <2> SUFFICES ASSUME IsInjective(s), e \notin Range(s),
                      NEW i \in 1..(Len(s) + 1), NEW j \in 1..(Len(s) + 1),
                      r[i] = r[j]
               PROVE  i = j
    BY <1>1 DEF IsInjective
  <2>1. \A k \in 1..Len(s) : s[k] # e  BY <1>1 DEF Range
  <2>2. CASE i \in 1..Len(s) /\ j \in 1..Len(s)
    BY <1>1, <2>2 DEF IsInjective
  <2> QED  BY <1>1, <2>1, <2>2
<1> QED  BY <1>1, <1>4, <1>5 DEF r

\* list_add of an entry that is not in the queue
LEMMA PrependFacts ==
    ASSUME NEW S, NEW s \in Seq(S), NEW e \in S
    PROVE  /\ <<e>> \o s \in Seq(S) /\ <<e>> \o s # <<>>
           /\ Range(<<e>> \o s) = Range(s) \cup {e}
           /\ IsInjective(s) /\ e \notin Range(s) => IsInjective(<<e>> \o s)
<1> DEFINE r == <<e>> \o s
<1>0. <<e>> \in Seq(S) /\ Len(<<e>>) = 1 /\ <<e>>[1] = e  OBVIOUS
<1>1. /\ r \in Seq(S) /\ Len(s) \in Nat /\ Len(r) = Len(s) + 1
      /\ DOMAIN s = 1..Len(s) /\ DOMAIN r = 1..(Len(s) + 1)
      /\ \A i \in 1..(Len(s) + 1) : r[i] = IF i <= 1 THEN e ELSE s[i - 1]
  BY <1>0, ConcatProperties, LenProperties
<1> HIDE DEF r
<1>2. r # <<>>  BY <1>1
<1>3. \A i \in 1..Len(s) : i + 1 \in 1..(Len(s) + 1) /\ r[i + 1] = s[i]
  BY <1>1
<1>4. \A i \in DOMAIN r : r[i] \in Range(s) \cup {e}
  BY <1>1 DEF Range
<1>5. Range(s) \cup {e} \subseteq Range(r)
  BY SMTT(60), <1>1, <1>3 DEF Range
<1>6. Range(r) = Range(s) \cup {e}  BY <1>4, <1>5 DEF Range
<1>7. IsInjective(s) /\ e \notin Range(s) => IsInjective(r)
  <2> SUFFICES ASSUME IsInjective(s), e \notin Range(s),
                      NEW i \in 1..(Len(s) + 1), NEW j \in 1..(Len(s) + 1),
                      r[i] = r[j]
               PROVE  i = j
    BY <1>1 DEF IsInjective
  <2>1. \A k \in 1..Len(s) : s[k] # e  BY <1>1 DEF Range
  <2>2. \A k, l \in 1..Len(s) : s[k] = s[l] => k = l
    BY <1>1 DEF IsInjective
  <2> QED  BY SMTT(60), <1>1, <2>1, <2>2
<1> QED  BY <1>1, <1>2, <1>6, <1>7 DEF r

\* Taking the first entry of a queue
LEMMA TailFacts ==
    ASSUME NEW S, NEW s \in Seq(S), s # <<>>
    PROVE  /\ Head(s) \in S /\ Head(s) \in Range(s) /\ Tail(s) \in Seq(S)
           /\ Range(Tail(s)) \subseteq Range(s)
           /\ IsInjective(s) => /\ IsInjective(Tail(s))
                                /\ Range(Tail(s)) = Range(s) \ {Head(s)}
<1> DEFINE r == Tail(s)
<1>1. /\ r \in Seq(S) /\ Len(s) \in Nat /\ Len(s) > 0 /\ Len(r) = Len(s) - 1
      /\ DOMAIN s = 1..Len(s) /\ DOMAIN r = 1..(Len(s) - 1)
      /\ \A i \in 1..(Len(s) - 1) : r[i] = s[i + 1]
  BY HeadTailProperties, LenProperties, EmptySeq
<1>2. Head(s) = s[1] /\ Head(s) \in S  BY <1>1, HeadTailProperties
<1> HIDE DEF r
<1>3. Head(s) \in Range(s)  BY <1>1, <1>2 DEF Range
<1>4. Range(r) \subseteq Range(s)  BY <1>1 DEF Range
<1>5. ASSUME IsInjective(s)
      PROVE  IsInjective(r) /\ Range(r) = Range(s) \ {Head(s)}
  <2>1. \A k, l \in 1..Len(s) : s[k] = s[l] => k = l
    BY <1>1, <1>5 DEF IsInjective
  <2>2. IsInjective(r)  BY <1>1, <2>1 DEF IsInjective
  <2>3. \A i \in 1..(Len(s) - 1) : r[i] # Head(s)
    BY <1>1, <1>2, <2>1
  <2>4. ASSUME NEW i \in 1..Len(s), s[i] # Head(s) PROVE s[i] \in Range(r)
    <3>1. i - 1 \in 1..(Len(s) - 1) /\ r[i - 1] = s[i]
      BY <1>1, <1>2, <2>4
    <3> QED  BY <1>1, <3>1 DEF Range
  <2>5. Range(s) \ {Head(s)} \subseteq Range(r)
    BY <1>1, <2>4 DEF Range
  <2>6. Range(r) \subseteq Range(s) \ {Head(s)}
    BY <1>1, <1>4, <2>3 DEF Range
  <2> QED  BY <2>2, <2>5, <2>6
<1> QED  BY <1>1, <1>2, <1>3, <1>4, <1>5 DEF r

-----------------------------------------------------------------------------
(* Messages under way: a queue from which some may be lost *)

\* s is what is left of t when some of its entries are lost; the others keep
\* their order.
Thinned(s, t) ==
    \E f \in [1..Len(s) -> 1..Len(t)] :
        /\ \A i, j \in 1..Len(s) : i < j => f[i] < f[j]
        /\ \A i \in 1..Len(s) : s[i] = t[f[i]]

\* Nothing was lost.
LEMMA ThinnedSame ==
    ASSUME NEW S, NEW s \in Seq(S)
    PROVE  Thinned(s, s)
<1> DEFINE f == [i \in 1..Len(s) |-> i]
<1>1. f \in [1..Len(s) -> 1..Len(s)] /\ \A i \in 1..Len(s) : f[i] = i
  OBVIOUS
<1> QED  BY <1>1 DEF Thinned

\* Everything was lost.
LEMMA ThinnedAway ==
    ASSUME NEW S, NEW s \in Seq(S)
    PROVE  Thinned(<<>>, s)
<1> DEFINE f == [i \in 1..0 |-> i]
<1>1. Len(<<>>) = 0 /\ 1..0 = {}  OBVIOUS
<1>2. f \in [1..0 -> 1..Len(s)]  BY <1>1
<1> QED  BY <1>1, <1>2 DEF Thinned

\* The first entry was lost.
LEMMA ThinnedTail ==
    ASSUME NEW S, NEW s \in Seq(S), s # <<>>
    PROVE  Thinned(Tail(s), s)
<1> DEFINE r == Tail(s)
           f == [i \in 1..Len(r) |-> i + 1]
<1>1. /\ Len(s) \in Nat /\ Len(r) = Len(s) - 1
      /\ \A i \in 1..Len(r) : r[i] = s[i + 1]
  BY HeadTailProperties, LenProperties
<1> HIDE DEF r
<1>2. f \in [1..Len(r) -> 1..Len(s)] /\ \A i \in 1..Len(r) : f[i] = i + 1
  BY <1>1
<1>3. \A i, j \in 1..Len(r) : i < j => f[i] < f[j]  BY <1>1, <1>2
<1>4. \A i \in 1..Len(r) : r[i] = s[f[i]]  BY <1>1, <1>2
<1> QED  BY <1>2, <1>3, <1>4 DEF Thinned, r

\* Losses of two queues in a row are losses of the whole.
LEMMA ThinnedConcat ==
    ASSUME NEW S, NEW s \in Seq(S), NEW t \in Seq(S), NEW u \in Seq(S),
           NEW v \in Seq(S), Thinned(s, t), Thinned(u, v)
    PROVE  Thinned(s \o u, t \o v)
<1>1. PICK f \in [1..Len(s) -> 1..Len(t)] :
        /\ \A i, j \in 1..Len(s) : i < j => f[i] < f[j]
        /\ \A i \in 1..Len(s) : s[i] = t[f[i]]
  BY DEF Thinned
<1>2. PICK g \in [1..Len(u) -> 1..Len(v)] :
        /\ \A i, j \in 1..Len(u) : i < j => g[i] < g[j]
        /\ \A i \in 1..Len(u) : u[i] = v[g[i]]
  BY DEF Thinned
<1> DEFINE a == s \o u
           b == t \o v
           h == [i \in 1..Len(a) |-> IF i <= Len(s) THEN f[i]
                                     ELSE Len(t) + g[i - Len(s)]]
<1>3. /\ Len(s) \in Nat /\ Len(t) \in Nat /\ Len(u) \in Nat /\ Len(v) \in Nat
  BY LenProperties
<1>4. /\ Len(a) = Len(s) + Len(u)
      /\ \A i \in 1..Len(a) :
            a[i] = IF i <= Len(s) THEN s[i] ELSE u[i - Len(s)]
  BY ConcatProperties
<1>5. /\ Len(b) = Len(t) + Len(v)
      /\ \A i \in 1..Len(b) :
            b[i] = IF i <= Len(t) THEN t[i] ELSE v[i - Len(t)]
  BY ConcatProperties
<1> HIDE DEF a, b
<1>6. \A i \in 1..Len(a) : i <= Len(s) => f[i] \in 1..Len(t) /\ i \in 1..Len(s)
  BY <1>3, <1>4
<1>7. \A i \in 1..Len(a) : ~(i <= Len(s)) =>
        i - Len(s) \in 1..Len(u) /\ g[i - Len(s)] \in 1..Len(v)
  <2>1. \A i \in 1..Len(a) : ~(i <= Len(s)) => i - Len(s) \in 1..Len(u)
    BY <1>3, <1>4
  <2> QED  BY <2>1
<1>8. \A i \in 1..Len(a) : h[i] = IF i <= Len(s) THEN f[i]
                                  ELSE Len(t) + g[i - Len(s)]
  OBVIOUS
<1>9. \A i \in 1..Len(a) : h[i] \in 1..Len(b)
  BY <1>3, <1>5, <1>6, <1>7, <1>8
<1>10. h \in [1..Len(a) -> 1..Len(b)]  BY <1>9
<1> HIDE DEF h
<1>11. ASSUME NEW i \in 1..Len(a), NEW j \in 1..Len(a), i < j
       PROVE  h[i] < h[j]
  <2>1. CASE j <= Len(s)
    BY <1>1, <1>3, <1>6, <1>8, <1>11, <2>1
  <2>2. CASE i <= Len(s) /\ ~(j <= Len(s))
    <3>1. h[i] \in 1..Len(t) /\ h[j] = Len(t) + g[j - Len(s)]
          /\ g[j - Len(s)] \in 1..Len(v)
      BY <1>6, <1>7, <1>8, <2>2
    <3> QED  BY SMTT(60), <1>3, <3>1
  <2>3. CASE ~(i <= Len(s))
    <3>1. ~(j <= Len(s))  BY <1>3, <1>4, <1>11, <2>3
    <3>2. /\ i - Len(s) \in 1..Len(u) /\ j - Len(s) \in 1..Len(u)
          /\ i - Len(s) < j - Len(s)
      BY <1>3, <1>7, <1>11, <2>3, <3>1
    <3>3. g[i - Len(s)] < g[j - Len(s)]  BY <1>2, <3>2
    <3>4. g[i - Len(s)] \in 1..Len(v) /\ g[j - Len(s)] \in 1..Len(v)
      BY <3>2
    <3>5. h[i] = Len(t) + g[i - Len(s)] /\ h[j] = Len(t) + g[j - Len(s)]
      BY <1>8, <2>3, <3>1
    <3> QED  BY SMTT(60), <1>3, <3>3, <3>4, <3>5
  <2> QED  BY <2>1, <2>2, <2>3
<1>12. ASSUME NEW i \in 1..Len(a) PROVE a[i] = b[h[i]]
  <2>1. CASE i <= Len(s)
    <3>1. h[i] = f[i] /\ f[i] \in 1..Len(t) /\ i \in 1..Len(s)
      BY <1>6, <1>8, <2>1
    <3>2. f[i] \in 1..Len(b) /\ f[i] <= Len(t)  BY <1>3, <1>5, <3>1
    <3>3. b[f[i]] = t[f[i]]  BY <1>5, <3>2
    <3>4. a[i] = s[i]  BY <1>4, <2>1
    <3> QED  BY <1>1, <3>1, <3>3, <3>4
  <2>2. CASE ~(i <= Len(s))
    <3>1. /\ i - Len(s) \in 1..Len(u) /\ g[i - Len(s)] \in 1..Len(v)
          /\ h[i] = Len(t) + g[i - Len(s)]
      BY <1>7, <1>8, <2>2
    <3>2. a[i] = u[i - Len(s)] /\ u[i - Len(s)] = v[g[i - Len(s)]]
      BY <1>2, <1>4, <2>2, <3>1
    <3>3. h[i] \in 1..Len(b) /\ ~(h[i] <= Len(t))
          /\ h[i] - Len(t) = g[i - Len(s)]
      BY SMTT(60), <1>3, <1>5, <3>1
    <3>4. b[h[i]] = v[h[i] - Len(t)]  BY <1>5, <3>3
    <3> QED  BY <3>2, <3>3, <3>4
  <2> QED  BY <2>1, <2>2
<1> QED  BY <1>10, <1>11, <1>12 DEF Thinned, a, b

\* The first entry of one queue moves to the end of the queue before it.
LEMMA MoveAhead ==
    ASSUME NEW S, NEW s \in Seq(S), NEW t \in Seq(S), t # <<>>
    PROVE  Append(s, Head(t)) \o Tail(t) = s \o t
<1>1. /\ Head(t) \in S /\ Tail(t) \in Seq(S) /\ <<Head(t)>> \in Seq(S)
  BY HeadTailProperties
<1>2. Append(s, Head(t)) = s \o <<Head(t)>>  BY <1>1, AppendIsConcat
<1>3. (s \o <<Head(t)>>) \o Tail(t) = s \o (<<Head(t)>> \o Tail(t))
  BY <1>1, ConcatAssociative
<1>4. <<Head(t)>> \o Tail(t) = t
  <2> DEFINE w == <<Head(t)>> \o Tail(t)
  <2>1. /\ Len(t) \in Nat /\ Len(t) > 0 /\ Len(Tail(t)) = Len(t) - 1
        /\ \A i \in 1..(Len(t) - 1) : Tail(t)[i] = t[i + 1]
        /\ Head(t) = t[1]
    BY HeadTailProperties, LenProperties, EmptySeq
  <2>2. Len(<<Head(t)>>) = 1 /\ <<Head(t)>>[1] = Head(t)  OBVIOUS
  <2>3. /\ w \in Seq(S) /\ Len(w) = 1 + Len(Tail(t))
        /\ \A i \in 1..(1 + Len(Tail(t))) :
              w[i] = IF i <= 1 THEN <<Head(t)>>[i] ELSE Tail(t)[i - 1]
    BY <1>1, <2>2, ConcatProperties
  <2> HIDE DEF w
  <2>4. Len(w) = Len(t)  BY <2>1, <2>3
  <2>5. \A i \in 1..Len(w) : w[i] = t[i]
    <3> SUFFICES ASSUME NEW i \in 1..Len(w) PROVE w[i] = t[i]  OBVIOUS
    <3>1. CASE i = 1  BY <2>1, <2>2, <2>3, <2>4, <3>1
    <3>2. CASE i # 1
      <4>1. w[i] = Tail(t)[i - 1]  BY <2>1, <2>3, <3>2
      <4>2. i - 1 \in 1..(Len(t) - 1)  BY <2>1, <2>4, <3>2
      <4>3. Tail(t)[i - 1] = t[(i - 1) + 1]  BY <2>1, <4>2
      <4>4. (i - 1) + 1 = i  BY <2>1, <2>4
      <4> QED  BY <4>1, <4>3, <4>4
    <3> QED  BY <3>1, <3>2
  <2> QED  BY <2>3, <2>4, <2>5, SeqEqual DEF w
<1> QED  BY <1>2, <1>3, <1>4

\* The same with a queue behind the two
LEMMA MoveAheadOf ==
    ASSUME NEW S, NEW s \in Seq(S), NEW t \in Seq(S), NEW u \in Seq(S),
           t # <<>>
    PROVE  Append(s, Head(t)) \o (Tail(t) \o u) = s \o (t \o u)
<1> DEFINE a == Append(s, Head(t))
           b == Tail(t)
<1>1. a \in Seq(S) /\ b \in Seq(S)
  BY HeadTailProperties, AppendProperties
<1>2. a \o b = s \o t  BY MoveAhead
<1> HIDE DEF a, b
<1>3. \A x, y \in Seq(S) : (x \o y) \o u = x \o (y \o u)
  BY SMTT(60), ConcatAssociative
<1>4. (a \o b) \o u = a \o (b \o u)  BY <1>1, <1>3, Zenon
<1>5. (s \o t) \o u = s \o (t \o u)  BY <1>3, Zenon
<1> QED  BY <1>2, <1>4, <1>5 DEF a, b

\* Appending to the second of two queues in a row
LEMMA AppendBehind ==
    ASSUME NEW S, NEW s \in Seq(S), NEW t \in Seq(S), NEW e \in S
    PROVE  s \o Append(t, e) = Append(s \o t, e)
<1>1. <<e>> \in Seq(S) /\ s \o t \in Seq(S)  BY ConcatProperties
<1>2. Append(t, e) = t \o <<e>>  BY AppendIsConcat
<1>3. Append(s \o t, e) = (s \o t) \o <<e>>  BY <1>1, AppendIsConcat
<1>4. \A x, y \in Seq(S) : (x \o y) \o <<e>> = x \o (y \o <<e>>)
  BY SMTT(60), <1>1, ConcatAssociative
<1>5. (s \o t) \o <<e>> = s \o (t \o <<e>>)  BY <1>4, Zenon
<1> QED  BY <1>2, <1>3, <1>5

=============================================================================
