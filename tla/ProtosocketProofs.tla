-------------------------- MODULE ProtosocketProofs --------------------------
(* Proofs about protosockets.                                                *)
(*                                                                           *)
(* Reading, for byte strings of any length in segments of any size, any end  *)
(* markers and any size of the buffer: what is read is what was sent.        *)
(*                                                                           *)
(* Sending, for any texts of one segment, any windows and a network that     *)
(* loses, repeats and reorders segments: the peer gets the texts in order.   *)
(*                                                                           *)
(* Both are loops, AfterRounds: that a recursive function is what its rounds *)
(* say follows from the least number at which something is wrong.            *)
EXTENDS Psock, PsockSend, SequenceTheorems, WellFoundedInduction, TLAPS
-----------------------------------------------------------------------------
(* Loops. *)

\* What holds of 0, and of each number if of the one before, holds of all up to n.
LEMMA AllUpTo ==
    ASSUME NEW n \in Nat, NEW G, 0 \in G, \A k \in 1 .. n : k - 1 \in G => k \in G
    PROVE  0 .. n \subseteq G
<1> DEFINE Wrong == (0 .. n) \ G
<1>1. Wrong \in SUBSET Nat
  OBVIOUS
<1>2. Wrong = {}
  <2> SUFFICES ASSUME Wrong # {} PROVE FALSE
    OBVIOUS
  <2>1. IsWellFoundedOn(OpToRel(<, Nat), Nat)
    BY NatLessThanWellFounded
  <2>2. PICK m \in Wrong : \A k \in Wrong : <<k, m>> \notin OpToRel(<, Nat)
    <3> HIDE DEF Wrong
    <3> QED BY <1>1, <2>1, WFMin
  <2>3. m \in 1 .. n
    OBVIOUS
  <2>4. m - 1 \in Nat /\ m - 1 < m /\ m \in Nat
    BY <2>3
  <2>5. m - 1 \notin Wrong
    BY <2>2, <2>4 DEF OpToRel
  <2> QED BY <2>3, <2>5
<1> QED BY <1>2

\* A function that takes its steps one after the other, and that there is one.
StepsFrom(f, n, a, step) == f[0] = a /\ \A k \in 1 .. n : f[k] = step[<<f[k - 1], k>>]
LEMMA StepsExist ==
    ASSUME NEW n \in Nat, NEW X, NEW a \in X, NEW step \in [X \X (1 .. n) -> X]
    PROVE  \E f \in [0 .. n -> X] : StepsFrom(f, n, a, step)
<1> DEFINE Steps(f, m) == f[0] = a /\ \A k \in 1 .. m : f[k] = step[<<f[k - 1], k>>]
           G == {m \in 0 .. n : \E f \in [0 .. m -> X] : Steps(f, m)}
<1>1. 0 \in G
  <2> DEFINE f == [k \in 0 .. 0 |-> a]
  <2>1. f \in [0 .. 0 -> X] /\ Steps(f, 0)
    OBVIOUS
  <2> HIDE DEF f, Steps
  <2> QED BY <2>1
<1>2. ASSUME NEW m \in 1 .. n, m - 1 \in G
      PROVE  m \in G
  <2>1. PICK f \in [0 .. m - 1 -> X] : Steps(f, m - 1)
    BY <1>2
  <2> DEFINE g == [k \in 0 .. m |-> IF k = m THEN step[<<f[m - 1], m>>] ELSE f[k]]
  <2>2. f[m - 1] \in X /\ step[<<f[m - 1], m>>] \in X
    <3>1. m - 1 \in 0 .. m - 1
      OBVIOUS
    <3>2. f[m - 1] \in X
      BY <3>1
    <3>3. <<f[m - 1], m>> \in X \X (1 .. n)
      BY <3>2
    <3> QED BY <3>2, <3>3
  <2>3. g \in [0 .. m -> X]
    BY <2>2
  <2>4. g[0] = a /\ \A k \in 1 .. m : g[k] = step[<<g[k - 1], k>>]
    <3>1. g[0] = f[0] /\ g[m] = step[<<f[m - 1], m>>] /\ \A k \in 0 .. m - 1 : g[k] = f[k]
      OBVIOUS
    <3> HIDE DEF g
    <3>2. ASSUME NEW k \in 1 .. m
          PROVE  g[k] = step[<<g[k - 1], k>>]
      <4>1. g[k - 1] = f[k - 1]
        BY <3>1
      <4>2. CASE k = m
        BY <3>1, <4>1, <4>2
      <4>3. CASE k # m
        <5>1. k \in 1 .. m - 1
          BY <4>3
        <5>2. f[k] = step[<<f[k - 1], k>>]
          BY <2>1, <5>1
        <5> QED BY <3>1, <4>1, <5>1, <5>2
      <4> QED BY <4>2, <4>3
    <3> QED BY <2>1, <3>1, <3>2
  <2> HIDE DEF g
  <2>5. Steps(g, m)
    BY <2>4
  <2> QED BY <2>3, <2>5
<1> HIDE DEF G
<1>3. 0 .. n \subseteq G
  BY <1>1, <1>2, AllUpTo
<1>4. n \in G
  BY <1>3
<1> QED BY <1>4 DEF G, StepsFrom

\* What rounds of a loop make of a state, one after the other.
RoundsEnd(n, X, round, state, end) ==
    \E f \in [0 .. n -> X] : f[0] = state /\ (\A k \in 1 .. n : f[k] = round[f[k - 1]]) /\ f[n] = end

LEMMA RoundsAre ==
    ASSUME NEW n \in Nat, NEW X, NEW state \in X, NEW round, \A x \in X : round[x] \in X
    PROVE  RoundsEnd(n, X, round, state, AfterRounds(n, round, state))
<1> DEFINE Built(f) == [k \in 0 .. n |-> IF k = 0 THEN state ELSE round[f[k - 1]]]
           after == CHOOSE f : f = Built(f)
           step == [p \in X \X (1 .. n) |-> round[p[1]]]
<1>1. step \in [X \X (1 .. n) -> X]
  <2>1. \A p \in X \X (1 .. n) : p[1] \in X
    OBVIOUS
  <2> QED BY <2>1
<1>2. PICK f \in [0 .. n -> X] : StepsFrom(f, n, state, step)
  <2> HIDE DEF step, Built, after
  <2> QED BY <1>1, StepsExist
<1>3. \A k \in 1 .. n : f[k] = round[f[k - 1]]
  <2> SUFFICES ASSUME NEW k \in 1 .. n PROVE f[k] = round[f[k - 1]]
    OBVIOUS
  <2>1. k - 1 \in 0 .. n
    OBVIOUS
  <2>2. <<f[k - 1], k>> \in X \X (1 .. n)
    BY <2>1
  <2>3. step[<<f[k - 1], k>>] = round[f[k - 1]]
    BY <2>2
  <2> QED BY <1>2, <2>3 DEF StepsFrom
<1>4. f = Built(f)
  BY <1>2, <1>3 DEF StepsFrom
<1>5. after = Built(after)
  <2> HIDE DEF Built
  <2> QED BY <1>4
<1>6. AfterRounds(n, round, state) = after[n]
  BY DEF AfterRounds, after, Built
<1> HIDE DEF after
<1>7. DOMAIN after = 0 .. n /\ after[0] = state /\ \A k \in 1 .. n : after[k] = round[after[k - 1]]
  BY <1>5
<1>8. \A k \in 0 .. n : after[k] \in X
  <2> DEFINE G == {k \in 0 .. n : after[k] \in X}
  <2>1. 0 \in G
    BY <1>7
  <2>2. ASSUME NEW k \in 1 .. n, k - 1 \in G PROVE k \in G
    BY <1>7, <2>2
  <2> HIDE DEF G
  <2>3. 0 .. n \subseteq G
    BY <2>1, <2>2, AllUpTo
  <2> QED BY <2>3 DEF G
<1>9. after \in [0 .. n -> X]
  <2>1. after = [k \in 0 .. n |-> after[k]]
    BY <1>5
  <2> HIDE DEF Built
  <2> QED BY <1>8, <2>1
<1> QED BY <1>6, <1>7, <1>9 DEF RoundsEnd

\* Of some places the first.
LEMMA FirstPlace ==
    ASSUME NEW n \in Nat, NEW I \in SUBSET (1 .. n), I # {}
    PROVE  \E m \in I : \A k \in I : m <= k
<1>1. IsWellFoundedOn(OpToRel(<, Nat), Nat)
  BY NatLessThanWellFounded
<1>2. I \in SUBSET Nat
  OBVIOUS
<1>3. PICK m \in I : \A k \in I : <<k, m>> \notin OpToRel(<, Nat)
  BY <1>1, <1>2, WFMin
<1>4. \A k \in I : ~(k < m)
  BY <1>2, <1>3 DEF OpToRel
<1> QED BY <1>2, <1>4

-----------------------------------------------------------------------------
(* Pieces of sequences. *)

\* A sequence in two pieces.
LEMMA Cut ==
    ASSUME NEW S, NEW s \in Seq(S), NEW n \in 0 .. Len(s)
    PROVE  /\ SubSeq(s, 1, n) \in Seq(S) /\ Len(SubSeq(s, 1, n)) = n
           /\ \A i \in 1 .. n : SubSeq(s, 1, n)[i] = s[i]
           /\ SubSeq(s, n + 1, Len(s)) \in Seq(S) /\ Len(SubSeq(s, n + 1, Len(s))) = Len(s) - n
           /\ \A i \in 1 .. Len(s) - n : SubSeq(s, n + 1, Len(s))[i] = s[n + i]
<1>1. Len(s) \in Nat /\ \A i \in 1 .. Len(s) : s[i] \in S
  OBVIOUS
<1>2. /\ SubSeq(s, 1, n) \in Seq(S)
      /\ Len(SubSeq(s, 1, n)) = IF 1 <= n THEN n - 1 + 1 ELSE 0
      /\ \A i \in 1 .. n - 1 + 1 : SubSeq(s, 1, n)[i] = s[1 + i - 1]
  <2>1. \A i \in 1 .. n : s[i] \in S
    BY <1>1
  <2> QED BY <2>1, SubSeqProperties
<1>3. /\ SubSeq(s, n + 1, Len(s)) \in Seq(S)
      /\ Len(SubSeq(s, n + 1, Len(s))) = IF n + 1 <= Len(s) THEN Len(s) - (n + 1) + 1 ELSE 0
      /\ \A i \in 1 .. Len(s) - (n + 1) + 1 : SubSeq(s, n + 1, Len(s))[i] = s[n + 1 + i - 1]
  <2>1. \A i \in n + 1 .. Len(s) : s[i] \in S
    BY <1>1
  <2>2. n + 1 \in Int /\ Len(s) \in Int
    BY <1>1
  <2> QED BY <2>1, <2>2, SubSeqProperties
<1>4. ASSUME NEW i \in 1 .. n PROVE SubSeq(s, 1, n)[i] = s[i]
  <2>1. i \in 1 .. n - 1 + 1 /\ 1 + i - 1 = i
    OBVIOUS
  <2> QED BY <1>2, <2>1
<1>5. ASSUME NEW i \in 1 .. Len(s) - n PROVE SubSeq(s, n + 1, Len(s))[i] = s[n + i]
  <2>1. i \in 1 .. Len(s) - (n + 1) + 1 /\ n + 1 + i - 1 = n + i
    BY <1>1
  <2> QED BY <1>3, <2>1
<1> QED BY <1>1, <1>2, <1>3, <1>4, <1>5

\* Two sequences, cut in the first of them ...
LEMMA CutFirst ==
    ASSUME NEW S, NEW s \in Seq(S), NEW t \in Seq(S), NEW n \in 0 .. Len(s)
    PROVE  /\ SubSeq(s \o t, 1, n) = SubSeq(s, 1, n)
           /\ SubSeq(s \o t, n + 1, Len(s \o t)) = SubSeq(s, n + 1, Len(s)) \o t
<1> DEFINE a == SubSeq(s, 1, n)
           b == SubSeq(s, n + 1, Len(s))
           c == SubSeq(s \o t, 1, n)
           d == SubSeq(s \o t, n + 1, Len(s \o t))
<1>1. /\ Len(s) \in Nat /\ Len(t) \in Nat
      /\ s \o t \in Seq(S) /\ Len(s \o t) = Len(s) + Len(t)
      /\ \A i \in 1 .. Len(s) + Len(t) : (s \o t)[i] = IF i <= Len(s) THEN s[i] ELSE t[i - Len(s)]
  BY ConcatProperties
<1>2. a \in Seq(S) /\ Len(a) = n /\ \A i \in 1 .. n : a[i] = s[i]
  BY Cut
<1>3. b \in Seq(S) /\ Len(b) = Len(s) - n /\ \A i \in 1 .. Len(s) - n : b[i] = s[n + i]
  BY Cut
<1>4. n \in 0 .. Len(s \o t)
  BY <1>1
<1>5. c \in Seq(S) /\ Len(c) = n /\ \A i \in 1 .. n : c[i] = (s \o t)[i]
  BY <1>1, <1>4, Cut
<1>6. /\ d \in Seq(S) /\ Len(d) = Len(s \o t) - n
      /\ \A i \in 1 .. Len(s \o t) - n : d[i] = (s \o t)[n + i]
  BY <1>1, <1>4, Cut
<1> HIDE DEF a, b, c, d
<1>7. c = a
  <2>1. \A i \in 1 .. n : (s \o t)[i] = s[i]
    BY <1>1
  <2> QED BY <1>2, <1>5, <2>1, SeqEqual
<1>8. /\ b \o t \in Seq(S) /\ Len(b \o t) = Len(b) + Len(t)
      /\ \A i \in 1 .. Len(b) + Len(t) : (b \o t)[i] = IF i <= Len(b) THEN b[i] ELSE t[i - Len(b)]
  BY <1>3, ConcatProperties
<1>9. Len(d) = Len(b \o t)
  BY <1>1, <1>3, <1>6, <1>8
<1>10. ASSUME NEW i \in 1 .. Len(d) PROVE d[i] = (b \o t)[i]
  <2>1. i \in 1 .. Len(s \o t) - n /\ i \in 1 .. Len(b) + Len(t) /\ n + i \in 1 .. Len(s) + Len(t)
    BY <1>1, <1>6, <1>8, <1>9
  <2>2. d[i] = IF n + i <= Len(s) THEN s[n + i] ELSE t[n + i - Len(s)]
    BY <1>1, <1>6, <2>1
  <2>3. (b \o t)[i] = IF i <= Len(b) THEN b[i] ELSE t[i - Len(b)]
    BY <1>8, <2>1
  <2>4. CASE n + i <= Len(s)
    BY <1>1, <1>3, <2>1, <2>2, <2>3, <2>4
  <2>5. CASE ~(n + i <= Len(s))
    <3>1. ~(i <= Len(b)) /\ i - Len(b) = n + i - Len(s)
      BY <1>1, <1>3, <2>5
    <3> QED BY <2>2, <2>3, <2>5, <3>1
  <2> QED BY <2>4, <2>5
<1>11. d = b \o t
  BY <1>6, <1>8, <1>9, <1>10, SeqEqual
<1> QED BY <1>7, <1>11 DEF a, b, c, d

\* ... and in the second.
LEMMA CutSecond ==
    ASSUME NEW S, NEW s \in Seq(S), NEW t \in Seq(S), NEW n \in 0 .. Len(t)
    PROVE  /\ SubSeq(s \o t, 1, Len(s) + n) = s \o SubSeq(t, 1, n)
           /\ SubSeq(s \o t, Len(s) + n + 1, Len(s \o t)) = SubSeq(t, n + 1, Len(t))
<1> DEFINE a == SubSeq(t, 1, n)
           b == SubSeq(t, n + 1, Len(t))
           m == Len(s) + n
           c == SubSeq(s \o t, 1, m)
           d == SubSeq(s \o t, m + 1, Len(s \o t))
<1>1. /\ Len(s) \in Nat /\ Len(t) \in Nat
      /\ s \o t \in Seq(S) /\ Len(s \o t) = Len(s) + Len(t)
      /\ \A i \in 1 .. Len(s) + Len(t) : (s \o t)[i] = IF i <= Len(s) THEN s[i] ELSE t[i - Len(s)]
  BY ConcatProperties
<1>2. a \in Seq(S) /\ Len(a) = n /\ \A i \in 1 .. n : a[i] = t[i]
  BY Cut
<1>3. b \in Seq(S) /\ Len(b) = Len(t) - n /\ \A i \in 1 .. Len(t) - n : b[i] = t[n + i]
  BY Cut
<1>4. m \in 0 .. Len(s \o t) /\ m = Len(s) + n
  BY <1>1
<1>5. c \in Seq(S) /\ Len(c) = m /\ \A i \in 1 .. m : c[i] = (s \o t)[i]
  <2> HIDE DEF m
  <2> QED BY <1>1, <1>4, Cut
<1>6. /\ d \in Seq(S) /\ Len(d) = Len(s \o t) - m
      /\ \A i \in 1 .. Len(s \o t) - m : d[i] = (s \o t)[m + i]
  <2> HIDE DEF m
  <2> QED BY <1>1, <1>4, Cut
<1> HIDE DEF a, b, c, d, m
<1>7. /\ s \o a \in Seq(S) /\ Len(s \o a) = Len(s) + Len(a)
      /\ \A i \in 1 .. Len(s) + Len(a) : (s \o a)[i] = IF i <= Len(s) THEN s[i] ELSE a[i - Len(s)]
  BY <1>2, ConcatProperties
<1>8. ASSUME NEW i \in 1 .. Len(c) PROVE c[i] = (s \o a)[i]
  <2>1. i \in 1 .. m /\ i \in 1 .. Len(s) + Len(a) /\ i \in 1 .. Len(s) + Len(t)
    BY <1>1, <1>2, <1>4, <1>5
  <2>2. c[i] = IF i <= Len(s) THEN s[i] ELSE t[i - Len(s)]
    BY <1>1, <1>5, <2>1
  <2>3. ~(i <= Len(s)) => a[i - Len(s)] = t[i - Len(s)]
    BY <1>1, <1>2, <2>1
  <2> QED BY <1>7, <2>1, <2>2, <2>3
<1>9. c = s \o a
  <2>1. Len(c) = Len(s \o a)
    BY <1>2, <1>4, <1>5, <1>7
  <2> QED BY <1>5, <1>7, <1>8, <2>1, SeqEqual
<1>10. ASSUME NEW i \in 1 .. Len(d) PROVE d[i] = b[i]
  <2>1. /\ i \in 1 .. Len(s \o t) - m /\ m + i \in 1 .. Len(s) + Len(t) /\ ~(m + i <= Len(s))
        /\ m + i - Len(s) = n + i /\ i \in 1 .. Len(t) - n
    BY <1>1, <1>4, <1>6
  <2>2. d[i] = (s \o t)[m + i]
    BY <1>6, <2>1
  <2>3. (s \o t)[m + i] = t[m + i - Len(s)]
    <3>1. \E j \in 1 .. Len(s) + Len(t) : j = m + i
      BY <2>1
    <3>2. ASSUME NEW j \in 1 .. Len(s) + Len(t), j = m + i PROVE (s \o t)[j] = t[j - Len(s)]
      BY <1>1, <2>1, <3>2
    <3> QED BY <1>1, <1>4, <3>1, <3>2
  <2> QED BY <1>3, <2>1, <2>2, <2>3
<1>11. d = b
  <2>1. Len(d) = Len(b)
    BY <1>1, <1>3, <1>4, <1>6
  <2> QED BY <1>3, <1>6, <1>10, <2>1, SeqEqual
<1> QED BY <1>9, <1>11 DEF a, b, c, d, m

-----------------------------------------------------------------------------
(* What a buffer keeps, and where a token ends. *)

LEMMA KeptIs ==
    ASSUME NEW S, NEW s \in Seq(S)
    PROVE  /\ Kept(s) \in Seq(S) /\ Len(Kept(s)) <= BufSize
           /\ Len(s) <= BufSize => Kept(s) = s
           /\ Len(s) >= BufSize => Kept(s) = SubSeq(s, 1, BufSize)
<1>1. Len(s) \in Nat /\ BufSize \in Nat \ {0}
  BY PsockAssumption
<1>2. SubSeq(s, 1, Len(s)) = s
  BY SubSeqFull
<1>3. CASE Len(s) < BufSize
  <2>1. Kept(s) = s
    BY <1>2, <1>3 DEF Kept
  <2> QED BY <1>1, <1>3, <2>1
<1>4. CASE ~(Len(s) < BufSize)
  <2>1. Kept(s) = SubSeq(s, 1, BufSize) /\ BufSize \in 0 .. Len(s)
    BY <1>1, <1>4 DEF Kept
  <2>2. SubSeq(s, 1, BufSize) \in Seq(S) /\ Len(SubSeq(s, 1, BufSize)) = BufSize
    BY <2>1, Cut
  <2>3. CASE Len(s) = BufSize
    <3>1. Kept(s) = s
      BY <1>2, <2>1, <2>3
    <3> QED BY <1>1, <2>1, <2>2, <2>3, <3>1
  <2>4. CASE Len(s) # BufSize
    <3>1. ~(Len(s) <= BufSize)
      BY <1>1, <1>4, <2>4
    <3> QED BY <1>1, <2>1, <2>2, <3>1
  <2> QED BY <2>3, <2>4
<1> QED BY <1>3, <1>4

\* What is not kept before what follows is not kept after it.
LEMMA KeptGrows ==
    ASSUME NEW S, NEW s \in Seq(S), NEW t \in Seq(S)
    PROVE  Kept(Kept(s) \o t) = Kept(s \o t)
<1>1. Len(s) \in Nat /\ Len(t) \in Nat /\ BufSize \in Nat \ {0}
  BY PsockAssumption
<1>2. CASE Len(s) < BufSize
  <2>1. Kept(s) = s
    BY <1>1, <1>2, KeptIs
  <2> QED BY <2>1
<1>3. CASE ~(Len(s) < BufSize)
  <2> DEFINE h == SubSeq(s, 1, BufSize)
             u == s \o t
             v == h \o t
  <2>1. Kept(s) = h
    BY <1>1, <1>3, KeptIs
  <2>2. BufSize \in 0 .. Len(s)
    BY <1>1, <1>3
  <2>3. h \in Seq(S) /\ Len(h) = BufSize
    BY <2>2, Cut
  <2>4. SubSeq(u, 1, BufSize) = h
    BY <2>2, CutFirst
  <2> HIDE DEF h
  <2>5. u \in Seq(S) /\ Len(u) >= BufSize
    <3>1. u \in Seq(S) /\ Len(u) = Len(s) + Len(t)
      BY ConcatProperties
    <3> HIDE DEF u
    <3> QED BY <1>1, <2>2, <3>1
  <2>6. v \in Seq(S) /\ Len(v) >= BufSize
    <3>1. v \in Seq(S) /\ Len(v) = Len(h) + Len(t)
      BY <2>3, ConcatProperties
    <3> HIDE DEF v
    <3> QED BY <1>1, <2>3, <3>1
  <2>7. SubSeq(v, 1, BufSize) = h
    <3>1. BufSize \in 0 .. Len(h)
      BY <1>1, <2>3
    <3>2. SubSeq(v, 1, BufSize) = SubSeq(h, 1, BufSize)
      BY <2>3, <3>1, CutFirst
    <3>3. SubSeq(h, 1, Len(h)) = h
      BY <2>3, SubSeqFull
    <3> QED BY <2>3, <3>2, <3>3
  <2> HIDE DEF u, v
  <2>8. Kept(u) = h /\ Kept(v) = h
    BY <2>4, <2>5, <2>6, <2>7, KeptIs
  <2> QED BY <2>1, <2>8 DEF u, v
<1> QED BY <1>2, <1>3

\* A token ends at the first of its markers, ...
LEMMA MarkAt ==
    ASSUME NEW S, NEW s \in Seq(S), NEW m, NEW n \in 1 .. Len(s), s[n] = m,
           \A k \in 1 .. n - 1 : s[k] # m
    PROVE  UpTo(s, m) = SubSeq(s, 1, n) /\ UpTo(s, m) # <<>> /\ Len(UpTo(s, m)) = n
<1> DEFINE at == {k \in DOMAIN s : s[k] = m}
<1>1. DOMAIN s = 1 .. Len(s) /\ Len(s) \in Nat
  OBVIOUS
<1>2. n \in at /\ \A k \in at : n <= k
  BY <1>1
<1>3. \A k \in at : (\A j \in at : k <= j) => k = n
  BY <1>1, <1>2
<1>4. Min(at) = n
  <2> HIDE DEF at
  <2> QED BY <1>2, <1>3 DEF Min
<1>5. UpTo(s, m) = SubSeq(s, 1, n)
  <2>1. UpTo(s, m) = IF at = {} THEN <<>> ELSE SubSeq(s, 1, Min(at))
    BY DEF UpTo
  <2> HIDE DEF at
  <2> QED BY <1>2, <1>4, <2>1
<1>6. Len(SubSeq(s, 1, n)) = n
  <2>1. n \in 0 .. Len(s)
    OBVIOUS
  <2> QED BY <2>1, Cut
<1>7. Len(<<>>) = 0 /\ n # 0
  OBVIOUS
<1> QED BY <1>5, <1>6, <1>7

\* ... and else goes on.
LEMMA NoMark ==
    ASSUME NEW S, NEW s \in Seq(S), NEW m, \A k \in 1 .. Len(s) : s[k] # m
    PROVE  UpTo(s, m) = <<>>
<1>1. {k \in DOMAIN s : s[k] = m} = {}
  OBVIOUS
<1> QED BY <1>1 DEF UpTo

LEMMA MarkOrNone ==
    ASSUME NEW S, NEW s \in Seq(S), NEW m
    PROVE  \/ \A k \in 1 .. Len(s) : s[k] # m
           \/ \E n \in 1 .. Len(s) : s[n] = m /\ \A k \in 1 .. n - 1 : s[k] # m
<1> SUFFICES ASSUME ~ \A k \in 1 .. Len(s) : s[k] # m
             PROVE  \E n \in 1 .. Len(s) : s[n] = m /\ \A k \in 1 .. n - 1 : s[k] # m
  OBVIOUS
<1> DEFINE I == {k \in 1 .. Len(s) : s[k] = m}
<1>1. I \in SUBSET (1 .. Len(s)) /\ I # {} /\ Len(s) \in Nat
  OBVIOUS
<1>2. PICK n \in I : \A k \in I : n <= k
  <2> HIDE DEF I
  <2> QED BY <1>1, FirstPlace
<1>3. n \in 1 .. Len(s) /\ s[n] = m
  OBVIOUS
<1>4. ASSUME NEW k \in 1 .. n - 1 PROVE s[k] # m
  <2>1. k \in 1 .. Len(s) /\ ~(n <= k)
    BY <1>1, <1>3
  <2> QED BY <1>2, <2>1
<1> QED BY <1>3, <1>4

\* How long a read finds that it has to wait, or where its token ends.
Waiting(s, w) ==
    IF w = READBUF THEN Len(s) < BufSize ELSE \A k \in 1 .. Len(s) : s[k] # w
EndsAt(s, w, n) ==
    IF w = READBUF THEN n = BufSize ELSE s[n] = w /\ \A k \in 1 .. n - 1 : s[k] # w

LEMMA TakenIs ==
    ASSUME NEW S, NEW s \in Seq(S), NEW w
    PROVE  /\ Waiting(s, w) => Taken(s, w) = <<>>
           /\ \A n \in 1 .. Len(s) : EndsAt(s, w, n) =>
                Taken(s, w) = SubSeq(s, 1, n) /\ Taken(s, w) # <<>> /\ Len(Taken(s, w)) = n
           /\ Waiting(s, w) \/ \E n \in 1 .. Len(s) : EndsAt(s, w, n)
<1>1. Len(s) \in Nat /\ BufSize \in Nat \ {0} /\ Len(<<>>) = 0
  BY PsockAssumption
<1>2. CASE w = READBUF
  <2>1. Taken(s, w) = IF Len(s) < BufSize THEN <<>> ELSE SubSeq(s, 1, BufSize)
    BY <1>2 DEF Taken
  <2>2. CASE Len(s) < BufSize
    BY <1>1, <1>2, <2>1, <2>2 DEF Waiting, EndsAt
  <2>3. CASE ~(Len(s) < BufSize)
    <3>1. BufSize \in 0 .. Len(s) /\ BufSize \in 1 .. Len(s)
      BY <1>1, <2>3
    <3>2. Len(SubSeq(s, 1, BufSize)) = BufSize
      BY <3>1, Cut
    <3> QED BY <1>1, <1>2, <2>1, <2>3, <3>1, <3>2 DEF Waiting, EndsAt
  <2> QED BY <2>2, <2>3
<1>3. CASE w # READBUF
  <2>1. Taken(s, w) = UpTo(s, w)
    BY <1>3 DEF Taken
  <2> QED BY <1>3, <2>1, MarkAt, NoMark, MarkOrNone DEF Waiting, EndsAt
<1> QED BY <1>2, <1>3

\* What follows a token does not change it.
LEMMA EndsEarly ==
    ASSUME NEW S, NEW s \in Seq(S), NEW t \in Seq(S), NEW w, NEW n \in 1 .. Len(s), EndsAt(s, w, n)
    PROVE  EndsAt(s \o t, w, n) /\ n \in 1 .. Len(s \o t)
<1>1. /\ Len(s \o t) = Len(s) + Len(t) /\ Len(s) \in Nat /\ Len(t) \in Nat
      /\ \A i \in 1 .. Len(s) + Len(t) : (s \o t)[i] = IF i <= Len(s) THEN s[i] ELSE t[i - Len(s)]
  BY ConcatProperties
<1>2. \A i \in 1 .. n : (s \o t)[i] = s[i]
  BY <1>1
<1>3. n \in 1 .. Len(s \o t) /\ n \in 1 .. n /\ \A k \in 1 .. n - 1 : k \in 1 .. n
  BY <1>1
<1> QED BY <1>2, <1>3 DEF EndsAt

-----------------------------------------------------------------------------
(* One round of a read. *)

\* What is read in a round, of the bytes that wait and those that arrived: a token and
\* what follows it, or all.
LEMMA RoundReads ==
    ASSUME NEW p \in Sock, NEW pending \in Seq(Letter), NEW w,
           p.buf = Kept(pending), Waiting(pending, w), p.rest # <<>>
    PROVE  LET all   == pending \o p.rest
               round == IF w = READBUF THEN bufdata(p) ELSE bufto(p, w)
               upto  == Taken(all, w)
           IN  /\ all \in Seq(Letter)
               /\ round.sock \in Sock /\ round.sock.state = p.state
               /\ round.found = TRUE => /\ upto # <<>> /\ upto \in Seq(Letter)
                                        /\ round.sock.buf = Kept(upto)
                                        /\ round.sock.rest = SubSeq(all, Len(upto) + 1, Len(all))
               /\ round.found # TRUE => /\ Waiting(all, w)
                                        /\ round.sock.buf = Kept(all) /\ round.sock.rest = <<>>
               /\ round.found \in BOOLEAN
<1> DEFINE rest == p.rest
           all == pending \o rest
           upto == Taken(all, w)
           round == IF w = READBUF THEN bufdata(p) ELSE bufto(p, w)
           After(b, r) == [p EXCEPT !.buf = b, !.rest = r]
<1>1. /\ p.state \in {"none", "read", "blocked"} /\ rest \in Seq(Letter) /\ p.buf \in Seq(Letter)
      /\ p = [state |-> p.state, buf |-> p.buf, rest |-> rest]
  BY DEF Sock
<1>2. Len(pending) \in Nat /\ Len(rest) \in Nat \ {0} /\ BufSize \in Nat \ {0}
  BY <1>1, PsockAssumption
<1>3. /\ all \in Seq(Letter) /\ Len(all) = Len(pending) + Len(rest)
      /\ \A i \in 1 .. Len(pending) + Len(rest) : all[i] = IF i <= Len(pending) THEN pending[i] ELSE rest[i - Len(pending)]
  BY <1>1, ConcatProperties
\* The token ends in what arrived, ...
<1>4. ASSUME NEW n \in 1 .. Len(rest), EndsAt(all, w, Len(pending) + n)
      PROVE  /\ upto # <<>> /\ upto \in Seq(Letter) /\ Len(upto) = Len(pending) + n
             /\ upto = pending \o SubSeq(rest, 1, n)
             /\ SubSeq(all, Len(upto) + 1, Len(all)) = SubSeq(rest, n + 1, Len(rest))
  <2>1. Len(pending) + n \in 1 .. Len(all) /\ n \in 0 .. Len(rest) /\ Len(pending) + n \in 0 .. Len(all)
    BY <1>2, <1>3
  <2>2. upto = SubSeq(all, 1, Len(pending) + n) /\ upto # <<>> /\ Len(upto) = Len(pending) + n
    <3> HIDE DEF all
    <3> QED BY <1>3, <1>4, <2>1, TakenIs
  <2>3. SubSeq(all, 1, Len(pending) + n) \in Seq(Letter)
    <3> HIDE DEF all
    <3> QED BY <1>3, <2>1, Cut
  <2>4. /\ SubSeq(all, 1, Len(pending) + n) = pending \o SubSeq(rest, 1, n)
        /\ SubSeq(all, Len(pending) + n + 1, Len(all)) = SubSeq(rest, n + 1, Len(rest))
    <3> HIDE DEF rest
    <3> QED BY <1>1, <2>1, CutSecond
  <2> QED BY <2>2, <2>3, <2>4
\* ... or there is none.
<1>5. ASSUME NEW s \in Seq(Letter) PROVE Kept(s) \in Seq(Letter) /\ Kept(Kept(pending) \o s) = Kept(pending \o s)
  BY KeptIs, KeptGrows
<1>6. ASSUME NEW b \in Seq(Letter), NEW r \in Seq(Letter)
      PROVE  /\ After(b, r) \in Sock /\ After(b, r).state = p.state
             /\ After(b, r).buf = b /\ After(b, r).rest = r
  BY DEF Sock
<1> HIDE DEF After
<1>7. CASE w = READBUF
  <2> DEFINE left == BufSize - Len(p.buf)
             r == SubSeq(rest, left + 1, Len(rest))
  <2>1. Len(pending) < BufSize /\ p.buf = pending
    BY <1>2, <1>7, KeptIs DEF Waiting
  <2>2. left \in 1 .. BufSize /\ left + Len(pending) = BufSize
    BY <1>2, <2>1
  <2>3. /\ round.sock = After(Kept(all), r)
        /\ Len(rest) >= left => round.found = TRUE
        /\ Len(rest) < left => round.found = FALSE
    <3>1. bufdata(p).sock = [p EXCEPT !.buf = Kept(p.buf \o p.rest), !.rest = SubSeq(p.rest, BufSize - Len(p.buf) + 1, Len(p.rest))]
      BY DEF bufdata
    <3>2. bufdata(p).found = (Len(rest) >= left)
      BY DEF bufdata
    <3>3. round = bufdata(p)
      BY <1>7
    <3>4. /\ Len(rest) >= left => round.found = TRUE
          /\ Len(rest) < left => round.found = FALSE
      <4>1. ASSUME Len(rest) >= left PROVE round.found = TRUE
        <5>1. (Len(rest) >= left) = TRUE
          BY <4>1
        <5> QED BY <3>2, <3>3, <5>1
      <4>2. ASSUME Len(rest) < left PROVE round.found = FALSE
        <5>1. (Len(rest) >= left) = FALSE
          BY <1>2, <2>2, <4>2
        <5> QED BY <3>2, <3>3, <5>1
      <4> QED BY <4>1, <4>2
    <3>5. round.sock = After(Kept(all), r)
      <4>1. After(Kept(all), r) = [p EXCEPT !.buf = Kept(p.buf \o p.rest), !.rest = SubSeq(p.rest, BufSize - Len(p.buf) + 1, Len(p.rest))]
        BY <2>1 DEF After
      <4> QED BY <3>1, <3>3, <4>1
    <3> QED BY <3>4, <3>5
  <2>4. Kept(all) \in Seq(Letter)
    BY <1>3, KeptIs
  <2> HIDE DEF left
  <2>5. CASE Len(rest) >= left
    <3>1. left \in 1 .. Len(rest) /\ left \in 0 .. Len(rest) /\ EndsAt(all, w, Len(pending) + left)
      BY <1>2, <1>7, <2>2, <2>5 DEF EndsAt
    <3>2. /\ upto # <<>> /\ upto \in Seq(Letter) /\ Len(upto) = BufSize
          /\ SubSeq(all, Len(upto) + 1, Len(all)) = r
      <4>1. /\ upto # <<>> /\ upto \in Seq(Letter) /\ Len(upto) = Len(pending) + left
            /\ SubSeq(all, Len(upto) + 1, Len(all)) = SubSeq(rest, left + 1, Len(rest))
        <5> HIDE DEF upto, all, rest
        <5> QED BY <1>4, <3>1
      <4>2. Len(pending) + left = BufSize
        BY <1>2, <2>2
      <4> HIDE DEF upto, all, rest
      <4> QED BY <4>1, <4>2
    <3>3. Kept(all) = upto
      <4>1. Len(all) >= BufSize
        BY <1>2, <1>3, <2>2, <3>1
      <4>2. Len(all) >= BufSize => Kept(all) = SubSeq(all, 1, BufSize)
        BY <1>3, KeptIs
      <4>3. Taken(all, w) = SubSeq(all, 1, BufSize)
        <5>1. ~(Len(all) < BufSize)
          BY <1>2, <1>3, <4>1
        <5> QED BY <1>7, <5>1 DEF Taken
      <4> QED BY <4>1, <4>2, <4>3
    <3>4. Kept(upto) = upto
      BY <1>2, <3>2, KeptIs
    <3>5. r \in Seq(Letter)
      BY <1>1, <3>1, Cut
    <3>6. round.found = TRUE
      BY <2>3, <2>5
    <3> HIDE DEF upto, all, r, round
    <3>7. round.sock \in Sock /\ round.sock.state = p.state /\ round.sock.buf = Kept(all) /\ round.sock.rest = r
      BY <1>6, <2>3, <2>4, <3>5
    <3> QED BY <1>3, <3>2, <3>3, <3>4, <3>6, <3>7 DEF upto, all, r, round
  <2>6. CASE ~(Len(rest) >= left)
    <3>1. Waiting(all, w)
      BY <1>2, <1>3, <1>7, <2>2, <2>6 DEF Waiting
    <3>2. r = <<>>
      BY <1>2, <2>2, <2>6, SubSeqEmpty
    <3>3. round.found = FALSE
      <4>1. Len(rest) < left
        BY <1>2, <2>2, <2>6
      <4> QED BY <2>3, <4>1
    <3> HIDE DEF upto, all, r, round
    <3>4. round.sock \in Sock /\ round.sock.state = p.state /\ round.sock.buf = Kept(all) /\ round.sock.rest = <<>>
      <4>1. r \in Seq(Letter)
        BY <3>2
      <4>2. round.sock \in Sock /\ round.sock.state = p.state /\ round.sock.buf = Kept(all) /\ round.sock.rest = r
        BY <1>6, <2>3, <2>4, <4>1
      <4> QED BY <3>2, <4>2
    <3> QED BY <1>3, <3>1, <3>3, <3>4 DEF upto, all, r, round
  <2> QED BY <2>5, <2>6
<1>8. CASE w # READBUF
  <2> DEFINE mark == UpTo(rest, w)
             taken == IF mark = <<>> THEN rest ELSE mark
             r == SubSeq(rest, Len(taken) + 1, Len(rest))
  <2>1. /\ round.sock = After(Kept(Kept(pending) \o taken), r)
        /\ mark # <<>> => round.found = TRUE
        /\ mark = <<>> => round.found = FALSE
    BY <1>8 DEF bufto, After
  <2>2. \A k \in 1 .. Len(pending) : pending[k] # w
    BY <1>8 DEF Waiting
  <2>3. CASE \A k \in 1 .. Len(rest) : rest[k] # w
    <3>1. mark = <<>> /\ taken = rest
      BY <1>1, <2>3, NoMark
    <3>2. r = <<>>
      BY <1>2, <3>1, SubSeqEmpty
    <3>3. Waiting(all, w)
      <4>1. ASSUME NEW k \in 1 .. Len(all) PROVE all[k] # w
        <5>1. CASE k <= Len(pending)
          BY <1>2, <1>3, <2>2, <5>1
        <5>2. CASE ~(k <= Len(pending))
          <6>1. all[k] = rest[k - Len(pending)] /\ k - Len(pending) \in 1 .. Len(rest)
            BY <1>2, <1>3, <5>2
          <6> QED BY <2>3, <6>1
        <5> QED BY <5>1, <5>2
      <4> QED BY <1>8, <4>1 DEF Waiting
    <3>4. round.found = FALSE
      BY <2>1, <3>1
    <3>5. Kept(Kept(pending) \o taken) = Kept(all) /\ Kept(all) \in Seq(Letter)
      BY <1>1, <1>3, <1>5, <3>1
    <3> HIDE DEF upto, all, r, round, taken, mark
    <3>6. round.sock \in Sock /\ round.sock.state = p.state /\ round.sock.buf = Kept(all) /\ round.sock.rest = <<>>
      <4>1. r \in Seq(Letter) /\ round.sock = After(Kept(all), r)
        BY <2>1, <3>2, <3>5
      <4>2. round.sock \in Sock /\ round.sock.state = p.state /\ round.sock.buf = Kept(all) /\ round.sock.rest = r
        BY <1>6, <3>5, <4>1
      <4> QED BY <3>2, <4>2
    <3> QED BY <1>3, <3>3, <3>4, <3>6 DEF upto, all, r, round
  <2>4. ASSUME NEW n \in 1 .. Len(rest), rest[n] = w, \A k \in 1 .. n - 1 : rest[k] # w
        PROVE  /\ round.sock \in Sock /\ round.sock.state = p.state /\ round.found = TRUE
               /\ upto # <<>> /\ upto \in Seq(Letter)
               /\ round.sock.buf = Kept(upto)
               /\ round.sock.rest = SubSeq(all, Len(upto) + 1, Len(all))
    <3>1. mark = SubSeq(rest, 1, n) /\ mark # <<>> /\ Len(mark) = n /\ taken = mark
      BY <1>1, <2>4, MarkAt
    <3>2. EndsAt(all, w, Len(pending) + n)
      <4>1. all[Len(pending) + n] = rest[n]
        <5>1. Len(pending) + n \in 1 .. Len(pending) + Len(rest) /\ ~(Len(pending) + n <= Len(pending))
              /\ Len(pending) + n - Len(pending) = n
          BY <1>2
        <5> QED BY <1>3, <5>1
      <4>2. ASSUME NEW k \in 1 .. Len(pending) + n - 1 PROVE all[k] # w
        <5>1. CASE k <= Len(pending)
          BY <1>2, <1>3, <2>2, <5>1
        <5>2. CASE ~(k <= Len(pending))
          <6>1. all[k] = rest[k - Len(pending)] /\ k - Len(pending) \in 1 .. n - 1
            BY <1>2, <1>3, <5>2
          <6> QED BY <2>4, <6>1
        <5> QED BY <5>1, <5>2
      <4> HIDE DEF all, rest
      <4> QED BY <1>8, <2>4, <4>1, <4>2 DEF EndsAt
    <3>3. /\ upto # <<>> /\ upto \in Seq(Letter)
          /\ upto = pending \o mark
          /\ SubSeq(all, Len(upto) + 1, Len(all)) = SubSeq(rest, n + 1, Len(rest))
      BY <1>4, <3>1, <3>2
    <3>4. mark \in Seq(Letter) /\ r = SubSeq(rest, n + 1, Len(rest)) /\ r \in Seq(Letter)
      <4>1. n \in 0 .. Len(rest)
        OBVIOUS
      <4> QED BY <1>1, <3>1, <4>1, Cut
    <3>5. round.found = TRUE
      BY <2>1, <3>1
    <3>6. Kept(Kept(pending) \o taken) = Kept(upto) /\ Kept(upto) \in Seq(Letter)
      BY <1>5, <3>1, <3>3, <3>4, KeptIs
    <3> HIDE DEF upto, all, r, round, taken, mark
    <3>7. round.sock \in Sock /\ round.sock.state = p.state /\ round.sock.buf = Kept(upto) /\ round.sock.rest = r
      <4>1. round.sock = After(Kept(upto), r)
        BY <2>1, <3>6
      <4>2. r \in Seq(Letter) /\ Kept(upto) \in Seq(Letter)
        BY <3>4, <3>6
      <4> QED BY <1>6, <4>1, <4>2
    <3> QED BY <3>3, <3>4, <3>5, <3>7
  <2>5. CASE \E n \in 1 .. Len(rest) : rest[n] = w /\ \A k \in 1 .. n - 1 : rest[k] # w
    <3> HIDE DEF upto, all, round, mark, taken, r
    <3> QED BY <1>3, <2>4, <2>5 DEF upto, all, round
  <2> QED BY <1>1, <2>3, <2>5, MarkOrNone
<1> QED BY <1>7, <1>8

-----------------------------------------------------------------------------
(* The tokens of what has arrived. *)

\* What a byte string is split into, read after read.
Splits(g, b) ==
    /\ g \in [0 .. Len(reads) -> [found : Seq(Seq(Letter)), rest : Seq(Letter)]]
    /\ g[0] = [found |-> <<>>, rest |-> b]
    /\ \A k \in 1 .. Len(reads) : g[k] = Split(g[k - 1])

\* A byte string begins with the tokens found, and they are followed by the rest.
Begins(b, found, rest) ==
    \E g : /\ Splits(g, b)
           /\ Len(found) \in 0 .. Len(reads)
           /\ \A k \in 0 .. Len(found) : Len(g[k].found) = k
           /\ g[Len(found)] = [found |-> found, rest |-> rest]

LEMMA TakenHere ==
    ASSUME NEW S, NEW b \in Seq(S), NEW w
    PROVE  /\ Taken(b, w) \in Seq(S) /\ Len(Taken(b, w)) \in 0 .. Len(b)
           /\ SubSeq(b, Len(Taken(b, w)) + 1, Len(b)) \in Seq(S)
<1>1. CASE Waiting(b, w)
  <2>1. Taken(b, w) = <<>> /\ Len(<<>>) = 0 /\ 0 \in 0 .. Len(b)
    BY <1>1, TakenIs
  <2>2. <<>> \in Seq(S) /\ SubSeq(b, 0 + 1, Len(b)) \in Seq(S)
    BY <2>1, Cut
  <2> QED BY <2>1, <2>2
<1>2. ASSUME NEW n \in 1 .. Len(b), EndsAt(b, w, n)
      PROVE  /\ Taken(b, w) \in Seq(S) /\ Len(Taken(b, w)) \in 0 .. Len(b)
             /\ SubSeq(b, Len(Taken(b, w)) + 1, Len(b)) \in Seq(S)
  <2>1. Taken(b, w) = SubSeq(b, 1, n) /\ Len(Taken(b, w)) = n /\ n \in 0 .. Len(b)
    BY <1>2, TakenIs
  <2>2. SubSeq(b, 1, n) \in Seq(S) /\ SubSeq(b, n + 1, Len(b)) \in Seq(S)
    BY <2>1, Cut
  <2> QED BY <2>1, <2>2
<1> QED BY <1>1, <1>2, TakenIs

\* One read of what is left.
LEMMA SplitIs ==
    ASSUME NEW found \in Seq(Seq(Letter)), NEW rest \in Seq(Letter)
    PROVE  LET left == [found |-> found, rest |-> rest]
               upto == Taken(rest, reads[Len(found) + 1])
           IN  /\ Len(found) = Len(reads) \/ upto = <<>> => Split(left) = left
               /\ Len(found) # Len(reads) /\ upto # <<>> =>
                    Split(left) = [found |-> Append(found, Kept(upto)),
                                   rest  |-> SubSeq(rest, Len(upto) + 1, Len(rest))]
               /\ Split(left) \in [found : Seq(Seq(Letter)), rest : Seq(Letter)]
<1> DEFINE left == [found |-> found, rest |-> rest]
           upto == Taken(rest, reads[Len(found) + 1])
           next == [found |-> Append(found, Kept(upto)), rest |-> SubSeq(rest, Len(upto) + 1, Len(rest))]
<1>1. Split(left) = IF Len(found) = Len(reads) \/ upto = <<>> THEN left ELSE next
  BY DEF Split, Finished
<1>2. upto \in Seq(Letter) /\ SubSeq(rest, Len(upto) + 1, Len(rest)) \in Seq(Letter)
  BY TakenHere
<1>3. Append(found, Kept(upto)) \in Seq(Seq(Letter))
  <2>1. Kept(upto) \in Seq(Letter)
    BY <1>2, KeptIs
  <2> QED BY <2>1, AppendProperties
<1>4. left \in [found : Seq(Seq(Letter)), rest : Seq(Letter)]
  OBVIOUS
<1>5. next \in [found : Seq(Seq(Letter)), rest : Seq(Letter)]
  BY <1>2, <1>3
<1> QED BY <1>1, <1>4, <1>5

\* Every byte string is split, and in one way, that tells its tokens.
LEMMA SplitsExist ==
    ASSUME NEW b \in Seq(Letter), Len(reads) \in Nat
    PROVE  \E g : Splits(g, b) /\ Tokens(b) = g[Len(reads)].found
<1> DEFINE X == [found : Seq(Seq(Letter)), rest : Seq(Letter)]
           split[left \in X] == Split(left)
           start == [found |-> <<>>, rest |-> b]
<1>1. \A left \in X : Split(left) \in X
  <2> SUFFICES ASSUME NEW left \in X PROVE Split(left) \in X
    OBVIOUS
  <2>1. left = [found |-> left.found, rest |-> left.rest] /\ left.found \in Seq(Seq(Letter)) /\ left.rest \in Seq(Letter)
    OBVIOUS
  <2> HIDE DEF X
  <2>2. Split([found |-> left.found, rest |-> left.rest]) \in X
    BY <2>1, SplitIs DEF X
  <2> QED BY <2>1, <2>2
<1>2. start \in X
  OBVIOUS
<1>3. Tokens(b) = AfterRounds(Len(reads), split, start).found
  BY DEF Tokens
<1>4. \A left \in X : split[left] = Split(left)
  OBVIOUS
<1> HIDE DEF split, start, X
<1>5. PICK g \in [0 .. Len(reads) -> X] :
         /\ g[0] = start
         /\ \A k \in 1 .. Len(reads) : g[k] = split[g[k - 1]]
         /\ AfterRounds(Len(reads), split, start) = g[Len(reads)]
  <2>1. \A left \in X : split[left] \in X
    BY <1>1, <1>4
  <2>2. Len(reads) \in Nat
    OBVIOUS
  <2>3. RoundsEnd(Len(reads), X, split, start, AfterRounds(Len(reads), split, start))
    BY <1>2, <2>1, <2>2, RoundsAre
  <2> QED BY <2>3 DEF RoundsEnd
<1>6. \A k \in 1 .. Len(reads) : g[k] = Split(g[k - 1])
  <2> SUFFICES ASSUME NEW k \in 1 .. Len(reads) PROVE g[k] = Split(g[k - 1])
    OBVIOUS
  <2>1. k - 1 \in 0 .. Len(reads)
    OBVIOUS
  <2> QED BY <1>4, <1>5, <2>1
<1>7. Splits(g, b)
  BY <1>5, <1>6 DEF Splits, X, start
<1> QED BY <1>3, <1>5, <1>7

LEMMA SplitsOnce ==
    ASSUME NEW b, NEW g, NEW h, Splits(g, b), Splits(h, b), Len(reads) \in Nat
    PROVE  \A k \in 0 .. Len(reads) : g[k] = h[k]
<1> DEFINE G == {k \in 0 .. Len(reads) : g[k] = h[k]}
<1>1. 0 \in G
  BY DEF Splits
<1>2. ASSUME NEW k \in 1 .. Len(reads), k - 1 \in G PROVE k \in G
  <2>1. g[k] = Split(g[k - 1]) /\ h[k] = Split(h[k - 1]) /\ k \in 0 .. Len(reads)
    BY DEF Splits
  <2> QED BY <1>2, <2>1
<1> HIDE DEF G
<1>3. 0 .. Len(reads) \subseteq G
  BY <1>1, <1>2, AllUpTo
<1> QED BY <1>3 DEF G

\* At first no token is found, ...
LEMMA BeginsEmpty ==
    ASSUME NEW b \in Seq(Letter), Len(reads) \in Nat
    PROVE  Begins(b, <<>>, b)
<1>1. PICK g : Splits(g, b)
  BY SplitsExist
<1>2. Len(<<>>) = 0 /\ g[0] = [found |-> <<>>, rest |-> b] /\ g[0].found = <<>>
  BY <1>1 DEF Splits
<1>3. \A k \in 0 .. 0 : Len(g[k].found) = k
  BY <1>2
<1> QED BY <1>1, <1>2, <1>3 DEF Begins

\* ... then one after the other ...
LEMMA BeginsNext ==
    ASSUME NEW b, NEW found \in Seq(Seq(Letter)), NEW rest \in Seq(Letter), Len(reads) \in Nat,
           Begins(b, found, rest), Len(found) # Len(reads),
           Taken(rest, reads[Len(found) + 1]) # <<>>
    PROVE  LET upto == Taken(rest, reads[Len(found) + 1])
           IN  /\ Begins(b, Append(found, Kept(upto)), SubSeq(rest, Len(upto) + 1, Len(rest)))
               /\ Append(found, Kept(upto)) \in Seq(Seq(Letter))
               /\ Len(Append(found, Kept(upto))) = Len(found) + 1
<1> DEFINE upto == Taken(rest, reads[Len(found) + 1])
           n == Len(found)
           more == Append(found, Kept(upto))
           after == SubSeq(rest, Len(upto) + 1, Len(rest))
<1>1. PICK g : /\ Splits(g, b) /\ n \in 0 .. Len(reads)
               /\ \A k \in 0 .. n : Len(g[k].found) = k
               /\ g[n] = [found |-> found, rest |-> rest]
  BY DEF Begins
<1>2. n + 1 \in 1 .. Len(reads) /\ n + 1 - 1 = n /\ n + 1 \in 0 .. Len(reads)
  BY <1>1
<1>3. g[n + 1] = [found |-> more, rest |-> after]
  <2>1. g[n + 1] = Split(g[n])
    BY <1>1, <1>2 DEF Splits
  <2> QED BY <1>1, <2>1, SplitIs
<1>4. more \in Seq(Seq(Letter)) /\ Len(more) = n + 1
  <2>1. upto \in Seq(Letter)
    BY TakenHere
  <2>2. Kept(upto) \in Seq(Letter)
    BY <2>1, KeptIs
  <2> HIDE DEF upto
  <2> QED BY <2>2, AppendProperties
<1> HIDE DEF upto, more, after
<1>5. ASSUME NEW k \in 0 .. Len(more) PROVE Len(g[k].found) = k
  <2>1. CASE k \in 0 .. n
    BY <1>1, <2>1
  <2>2. CASE k = n + 1
    BY <1>3, <1>4, <2>2
  <2> QED BY <1>1, <1>4, <2>1, <2>2
<1>6. g[Len(more)] = [found |-> more, rest |-> after]
  BY <1>3, <1>4
<1>7. Len(more) \in 0 .. Len(reads)
  BY <1>2, <1>4
<1>8. Begins(b, more, after)
  BY <1>1, <1>5, <1>6, <1>7 DEF Begins
<1> QED BY <1>4, <1>8 DEF upto, more, after

\* ... until the rest holds none.
LEMMA BeginsAll ==
    ASSUME NEW b \in Seq(Letter), NEW found \in Seq(Seq(Letter)), NEW rest \in Seq(Letter),
           Len(reads) \in Nat, Begins(b, found, rest),
           Len(found) = Len(reads) \/ Waiting(rest, reads[Len(found) + 1])
    PROVE  Tokens(b) = found
<1> DEFINE n == Len(found)
           left == [found |-> found, rest |-> rest]
<1>1. PICK h : Splits(h, b) /\ n \in 0 .. Len(reads) /\ h[n] = left
  BY DEF Begins
<1>2. PICK g : Splits(g, b) /\ Tokens(b) = g[Len(reads)].found
  BY SplitsExist
<1>3. g[n] = left
  <2>1. \A k \in 0 .. Len(reads) : g[k] = h[k]
    BY <1>1, <1>2, SplitsOnce
  <2> QED BY <1>1, <2>1
<1>4. Split(left) = left
  <2>1. Len(found) = Len(reads) \/ Taken(rest, reads[Len(found) + 1]) = <<>>
    BY TakenIs
  <2> QED BY <2>1, SplitIs
<1> DEFINE I == {k \in 0 .. Len(reads) : n <= k => g[k] = left}
<1>5. 0 \in I
  BY <1>1, <1>3
<1>6. ASSUME NEW k \in 1 .. Len(reads), k - 1 \in I PROVE k \in I
  <2> HIDE DEF left
  <2>1. g[k] = Split(g[k - 1]) /\ k \in 0 .. Len(reads)
    BY <1>2 DEF Splits
  <2>2. CASE n <= k - 1
    BY <1>4, <1>6, <2>1, <2>2
  <2>3. CASE ~(n <= k - 1)
    <3>1. n <= k => k = n
      BY <1>1, <2>3
    <3> QED BY <1>3, <2>1, <3>1
  <2> QED BY <2>2, <2>3
<1>7. Len(reads) \in I
  <2> HIDE DEF I
  <2>1. 0 .. Len(reads) \subseteq I
    BY <1>5, <1>6, AllUpTo
  <2> QED BY <2>1
<1>8. g[Len(reads)] = left
  BY <1>1, <1>7
<1> QED BY <1>2, <1>8

\* What arrives later does not change the tokens before.
LEMMA BeginsLonger ==
    ASSUME NEW b \in Seq(Letter), NEW d \in Seq(Letter),
           NEW found \in Seq(Seq(Letter)), NEW rest \in Seq(Letter),
           Len(reads) \in Nat, Begins(b, found, rest)
    PROVE  Begins(b \o d, found, rest \o d)
<1> DEFINE n == Len(found)
           longer == b \o d
<1>1. PICK g : /\ Splits(g, b) /\ n \in 0 .. Len(reads)
               /\ \A k \in 0 .. n : Len(g[k].found) = k
               /\ g[n] = [found |-> found, rest |-> rest]
  BY DEF Begins
<1>2. longer \in Seq(Letter)
  OBVIOUS
<1>3. PICK h : Splits(h, longer)
  <2> HIDE DEF longer
  <2> QED BY <1>2, SplitsExist
<1> DEFINE I == {k \in 0 .. n : h[k] = [found |-> g[k].found, rest |-> g[k].rest \o d]}
<1>4. \A k \in 0 .. Len(reads) : /\ g[k].found \in Seq(Seq(Letter)) /\ g[k].rest \in Seq(Letter)
                                 /\ g[k] = [found |-> g[k].found, rest |-> g[k].rest]
  <2> SUFFICES ASSUME NEW k \in 0 .. Len(reads)
               PROVE  /\ g[k].found \in Seq(Seq(Letter)) /\ g[k].rest \in Seq(Letter)
                      /\ g[k] = [found |-> g[k].found, rest |-> g[k].rest]
    OBVIOUS
  <2>1. g[k] \in [found : Seq(Seq(Letter)), rest : Seq(Letter)]
    BY <1>1 DEF Splits
  <2> QED BY <2>1
<1>5. 0 \in I
  BY <1>1, <1>3 DEF Splits
<1>6. ASSUME NEW k \in 1 .. n, k - 1 \in I PROVE k \in I
  <2> DEFINE f0 == g[k - 1].found
             r0 == g[k - 1].rest
             w == reads[Len(f0) + 1]
             upto == Taken(r0, w)
             all == r0 \o d
  <2>1. k - 1 \in 0 .. n /\ k \in 0 .. n /\ k - 1 \in 0 .. Len(reads) /\ k \in 1 .. Len(reads)
    BY <1>1
  <2>2. /\ f0 \in Seq(Seq(Letter)) /\ r0 \in Seq(Letter) /\ Len(f0) = k - 1
        /\ g[k - 1] = [found |-> f0, rest |-> r0]
        /\ h[k - 1] = [found |-> f0, rest |-> all]
    BY <1>1, <1>4, <1>6, <2>1
  <2>3. g[k] = Split(g[k - 1]) /\ h[k] = Split(h[k - 1]) /\ Len(g[k].found) = k
    BY <1>1, <1>3, <2>1 DEF Splits
  <2> HIDE DEF f0, r0, all
  <2>4. upto # <<>>
    <3> SUFFICES ASSUME upto = <<>> PROVE FALSE
      OBVIOUS
    <3>1. g[k] = [found |-> f0, rest |-> r0]
      BY <2>2, <2>3, SplitIs
    <3>2. Len(g[k].found) = k - 1
      BY <2>2, <3>1
    <3> QED BY <2>1, <2>3, <3>2
  <2>5. Len(f0) # Len(reads)
    BY <2>1, <2>2
  <2>6. g[k] = [found |-> Append(f0, Kept(upto)), rest |-> SubSeq(r0, Len(upto) + 1, Len(r0))]
    <3>1. Split([found |-> f0, rest |-> r0]) =
            [found |-> Append(f0, Kept(upto)), rest |-> SubSeq(r0, Len(upto) + 1, Len(r0))]
      BY <2>2, <2>4, <2>5, SplitIs
    <3> QED BY <2>2, <2>3, <3>1
  <2>7. /\ all \in Seq(Letter)
        /\ Taken(all, w) = upto
        /\ SubSeq(all, Len(upto) + 1, Len(all)) = SubSeq(r0, Len(upto) + 1, Len(r0)) \o d
    <3> HIDE DEF w
    <3>1. all \in Seq(Letter)
      BY <2>2 DEF all
    <3>2. ASSUME NEW m \in 1 .. Len(r0), EndsAt(r0, w, m)
          PROVE  /\ Taken(all, w) = upto
                 /\ SubSeq(all, Len(upto) + 1, Len(all)) = SubSeq(r0, Len(upto) + 1, Len(r0)) \o d
      <4>1. upto = SubSeq(r0, 1, m) /\ Len(upto) = m
        BY <2>2, <3>2, TakenIs
      <4>2. EndsAt(all, w, m) /\ m \in 1 .. Len(all)
        BY <2>2, <3>2, EndsEarly DEF all
      <4>3. Taken(all, w) = SubSeq(all, 1, m)
        BY <3>1, <4>2, TakenIs
      <4>4. m \in 0 .. Len(r0)
        OBVIOUS
      <4>5. SubSeq(all, 1, m) = SubSeq(r0, 1, m) /\ SubSeq(all, m + 1, Len(all)) = SubSeq(r0, m + 1, Len(r0)) \o d
        BY <2>2, <4>4, CutFirst DEF all
      <4> QED BY <4>1, <4>3, <4>5
    <3>3. \E m \in 1 .. Len(r0) : EndsAt(r0, w, m)
      BY <2>2, <2>4, TakenIs
    <3> QED BY <3>1, <3>2, <3>3
  <2>8. h[k] = [found |-> Append(f0, Kept(upto)), rest |-> SubSeq(r0, Len(upto) + 1, Len(r0)) \o d]
    <3>1. Split([found |-> f0, rest |-> all]) =
            [found |-> Append(f0, Kept(Taken(all, w))),
             rest |-> SubSeq(all, Len(Taken(all, w)) + 1, Len(all))]
      BY <2>2, <2>4, <2>5, <2>7, SplitIs
    <3> HIDE DEF upto, w
    <3> QED BY <2>2, <2>3, <2>7, <3>1
  <2>9. g[k].found = Append(f0, Kept(upto)) /\ g[k].rest = SubSeq(r0, Len(upto) + 1, Len(r0))
    BY <2>6
  <2> HIDE DEF upto
  <2>10. h[k] = [found |-> g[k].found, rest |-> g[k].rest \o d]
    BY <2>8, <2>9
  <2> QED BY <2>1, <2>10
<1>7. \A k \in 0 .. n : k \in I
  <2> HIDE DEF I
  <2>1. n \in Nat
    BY <1>1
  <2>2. 0 .. n \subseteq I
    <3> HIDE DEF n
    <3> QED BY <1>5, <1>6, <2>1, AllUpTo
  <2> QED BY <2>2
<1>8. \A k \in 0 .. n : Len(h[k].found) = k
  <2> SUFFICES ASSUME NEW k \in 0 .. n PROVE Len(h[k].found) = k
    OBVIOUS
  <2>1. h[k] = [found |-> g[k].found, rest |-> g[k].rest \o d] /\ Len(g[k].found) = k
    BY <1>1, <1>7
  <2> QED BY <2>1
<1>9. h[n] = [found |-> found, rest |-> rest \o d]
  <2>1. n \in 0 .. n
    BY <1>1
  <2>2. h[n] = [found |-> g[n].found, rest |-> g[n].rest \o d]
    <3> HIDE DEF n
    <3> QED BY <1>7, <2>1
  <2>3. g[n].found = found /\ g[n].rest = rest
    BY <1>1
  <2> QED BY <2>2, <2>3
<1> QED BY <1>1, <1>3, <1>8, <1>9 DEF Begins

-----------------------------------------------------------------------------
(* An application reads on until it has to wait. *)

Stopped(r) == Len(r.tokens) = Len(reads) \/ r.on # TRUE

\* The protosocket a round reads from, and what it reads.
Ready(r, data) == IF r.sock.rest = <<>> THEN [r.sock EXCEPT !.state = "read", !.rest = data] ELSE r.sock
Read(r, data) ==
    LET wanted == reads[Len(r.tokens) + 1]
    IN  IF wanted = READBUF THEN bufdata(Ready(r, data)) ELSE bufto(Ready(r, data), wanted)

LEMMA SockFields ==
    ASSUME NEW p \in Sock
    PROVE  /\ p.state \in {"none", "read", "blocked"} /\ p.buf \in Seq(Letter) /\ p.rest \in Seq(Letter)
           /\ [p EXCEPT !.state = "blocked"] \in Sock
           /\ [p EXCEPT !.state = "blocked"].state = "blocked"
           /\ [p EXCEPT !.state = "blocked"].buf = p.buf
           /\ [p EXCEPT !.state = "blocked"].rest = p.rest
  BY DEF Sock

LEMMA SockHolds ==
    ASSUME NEW p \in Sock, NEW b \in Seq(Letter)
    PROVE  /\ [p EXCEPT !.buf = b] \in Sock
           /\ [p EXCEPT !.buf = b].state = p.state
           /\ [p EXCEPT !.buf = b].buf = b
           /\ [p EXCEPT !.buf = b].rest = p.rest
  BY DEF Sock

LEMMA SockReads ==
    ASSUME NEW p \in Sock, NEW rest \in Seq(Letter)
    PROVE  /\ [p EXCEPT !.state = "read", !.rest = rest] \in Sock
           /\ [p EXCEPT !.state = "read", !.rest = rest].state = "read"
           /\ [p EXCEPT !.state = "read", !.rest = rest].buf = p.buf
           /\ [p EXCEPT !.state = "read", !.rest = rest].rest = rest
  BY DEF Sock

LEMMA ReadingFields ==
    ASSUME NEW r \in Reading, NEW p \in Sock
    PROVE  /\ r.sock \in Sock /\ r.tokens \in Seq(Seq(Letter)) /\ r.on \in BOOLEAN
           /\ [r EXCEPT !.sock = p] \in Reading
           /\ [r EXCEPT !.sock = p].sock = p
           /\ [r EXCEPT !.sock = p].tokens = r.tokens
           /\ [r EXCEPT !.sock = p].on = r.on
  BY DEF Reading

LEMMA ReadingStops ==
    ASSUME NEW r \in Reading, NEW p \in Sock
    PROVE  /\ [r EXCEPT !.sock = p, !.on = FALSE] \in Reading
           /\ [r EXCEPT !.sock = p, !.on = FALSE].sock = p
           /\ [r EXCEPT !.sock = p, !.on = FALSE].tokens = r.tokens
           /\ [r EXCEPT !.sock = p, !.on = FALSE].on = FALSE
  BY DEF Reading

LEMMA RoundStays ==
    ASSUME NEW r, NEW data, Stopped(r), r.on \in BOOLEAN
    PROVE  ReadRound(r, data) = r
<1>1. Finished(r.tokens) \/ ~r.on
  BY DEF Stopped, Finished
<1> QED BY <1>1 DEF ReadRound

LEMMA RoundWaits ==
    ASSUME NEW r \in Reading, NEW data, ~Stopped(r),
           r.sock.rest = <<>>, r.sock.state = "read" \/ data = <<>>
    PROVE  LET q == ReadRound(r, data)
           IN  /\ q \in Reading /\ q.on = FALSE /\ q.tokens = r.tokens
               /\ q.sock.buf = r.sock.buf /\ q.sock.rest = <<>> /\ q.sock.state # "read"
<1> DEFINE asked == psock_newdata(r.sock, data)
<1>1. r.sock \in Sock /\ r.tokens \in Seq(Seq(Letter)) /\ r.on \in BOOLEAN /\ ~(Len(r.tokens) = Len(reads)) /\ r.on = TRUE
  BY DEF Reading, Stopped
<1>2. ~(Finished(r.tokens) \/ ~r.on)
  BY <1>1 DEF Finished
<1>3. /\ asked.new = FALSE /\ asked.sock \in Sock /\ asked.sock.buf = r.sock.buf
      /\ asked.sock.rest = <<>> /\ asked.sock.state # "read"
  <2>1. CASE r.sock.state = "read"
    <3>1. asked = [sock |-> [r.sock EXCEPT !.state = "blocked"], new |-> FALSE]
      BY <2>1 DEF psock_newdata
    <3>2. asked.sock = [r.sock EXCEPT !.state = "blocked"] /\ asked.new = FALSE
      BY <3>1
    <3> HIDE DEF asked
    <3> QED BY <1>1, <3>2, SockFields
  <2>2. CASE r.sock.state # "read"
    <3>1. asked.sock = r.sock /\ asked.new = (data # <<>>)
      BY <2>2 DEF psock_newdata
    <3>2. data = <<>>
      BY <2>2
    <3> HIDE DEF asked
    <3> QED BY <1>1, <2>2, <3>1, <3>2
  <2> QED BY <2>1, <2>2
<1>4. ReadRound(r, data) = [r EXCEPT !.sock = asked.sock, !.on = FALSE]
  <2>1. ~asked.new
    BY <1>3
  <2> QED BY <1>2, <2>1 DEF ReadRound
<1> HIDE DEF asked
<1>5. \E p \in Sock : p = asked.sock
  BY <1>3
<1>6. ASSUME NEW p \in Sock, p = asked.sock
      PROVE  LET q == ReadRound(r, data)
             IN  q \in Reading /\ q.on = FALSE /\ q.tokens = r.tokens /\ q.sock = asked.sock
  <2> DEFINE stop == [r EXCEPT !.sock = p, !.on = FALSE]
  <2>1. ReadRound(r, data) = stop
    BY <1>4, <1>6
  <2>2. stop \in Reading /\ stop.sock = p /\ stop.tokens = r.tokens /\ stop.on = FALSE
    BY ReadingStops
  <2> HIDE DEF stop
  <2> QED BY <1>6, <2>1, <2>2
<1> QED BY <1>3, <1>5, <1>6

LEMMA RoundGoesOn ==
    ASSUME NEW r \in Reading, NEW data \in Seq(Letter), ~Stopped(r),
           r.sock.rest # <<>> \/ (r.sock.state # "read" /\ data # <<>>)
    PROVE  /\ Read(r, data).found = TRUE =>
                ReadRound(r, data) = [r EXCEPT !.sock = [Read(r, data).sock EXCEPT !.buf = <<>>],
                                               !.tokens = Append(r.tokens, Read(r, data).sock.buf)]
           /\ Read(r, data).found = FALSE =>
                ReadRound(r, data) = [r EXCEPT !.sock = Read(r, data).sock]
           /\ Ready(r, data) \in Sock /\ Ready(r, data).rest # <<>>
           /\ Ready(r, data).buf = r.sock.buf
           /\ Ready(r, data).state = IF r.sock.rest = <<>> THEN "read" ELSE r.sock.state
           /\ Ready(r, data).rest = IF r.sock.rest = <<>> THEN data ELSE r.sock.rest
<1> DEFINE asked == psock_newdata(r.sock, data)
           ready == IF r.sock.rest = <<>> THEN [asked.sock EXCEPT !.state = "read", !.rest = data] ELSE r.sock
           wanted == reads[Len(r.tokens) + 1]
           round == IF wanted = READBUF THEN bufdata(ready) ELSE bufto(ready, wanted)
<1>1. r.sock \in Sock /\ r.tokens \in Seq(Seq(Letter)) /\ r.on \in BOOLEAN /\ ~(Len(r.tokens) = Len(reads)) /\ r.on = TRUE
  BY DEF Reading, Stopped
<1>2. ~(Finished(r.tokens) \/ ~r.on)
  BY <1>1 DEF Finished
<1>3. asked.new = TRUE /\ asked.sock = r.sock
  <2>1. CASE r.sock.rest # <<>>
    BY <2>1 DEF psock_newdata
  <2>2. CASE r.sock.rest = <<>>
    <3>1. r.sock.state # "read" /\ data # <<>>
      BY <2>2
    <3> QED BY <2>2, <3>1 DEF psock_newdata
  <2> QED BY <2>1, <2>2
<1>4. ready = Ready(r, data)
  BY <1>3 DEF Ready
<1>5. round = Read(r, data)
  BY <1>4 DEF Read
<1>6. ReadRound(r, data) = IF round.found THEN [r EXCEPT !.sock = [round.sock EXCEPT !.buf = <<>>], !.tokens = Append(@, round.sock.buf)]
                           ELSE [r EXCEPT !.sock = round.sock]
  <2>1. ~(~asked.new)
    BY <1>3
  <2> QED BY <1>2, <2>1 DEF ReadRound
<1>7. /\ Ready(r, data) \in Sock /\ Ready(r, data).rest # <<>>
      /\ Ready(r, data).buf = r.sock.buf
      /\ Ready(r, data).state = IF r.sock.rest = <<>> THEN "read" ELSE r.sock.state
      /\ Ready(r, data).rest = IF r.sock.rest = <<>> THEN data ELSE r.sock.rest
  <2>1. CASE r.sock.rest = <<>>
    <3>1. Ready(r, data) = [r.sock EXCEPT !.state = "read", !.rest = data]
      BY <2>1 DEF Ready
    <3>2. data # <<>>
      BY <2>1
    <3>3. /\ Ready(r, data) \in Sock /\ Ready(r, data).rest = data
          /\ Ready(r, data).buf = r.sock.buf /\ Ready(r, data).state = "read"
      <4>1. \A p \in Sock : /\ [p EXCEPT !.state = "read", !.rest = data] \in Sock
                           /\ [p EXCEPT !.state = "read", !.rest = data].state = "read"
                           /\ [p EXCEPT !.state = "read", !.rest = data].buf = p.buf
                           /\ [p EXCEPT !.state = "read", !.rest = data].rest = data
        BY SockReads
      <4> QED BY <1>1, <3>1, <4>1
    <3> QED BY <2>1, <3>2, <3>3
  <2>2. CASE r.sock.rest # <<>>
    <3>1. Ready(r, data) = r.sock
      BY <2>2 DEF Ready
    <3> QED BY <1>1, <2>2, <3>1
  <2> QED BY <2>1, <2>2
<1> HIDE DEF round
<1> QED BY <1>5, <1>6, <1>7

\* An application between two rounds, with the bytes of this event: it has not looked at
\* them yet, reads them, or has to wait.
InRead(r, b, data, pending) ==
    /\ r.sock.buf = Kept(pending)
    /\ Len(r.tokens) # Len(reads) => Waiting(pending, reads[Len(r.tokens) + 1])
    /\ \/ /\ r.on = TRUE /\ r.sock.state # "read" /\ r.sock.rest = <<>>
          /\ Len(r.tokens) # Len(reads)
          /\ Begins(b, r.tokens, pending)
       \/ /\ r.on = TRUE /\ r.sock.state = "read"
          /\ Begins(b \o data, r.tokens, pending \o r.sock.rest)
       \/ /\ r.on = FALSE /\ r.sock.state # "read" /\ r.sock.rest = <<>>
          /\ Len(r.tokens) # Len(reads)
          /\ Begins(b \o data, r.tokens, pending)

InLoop(r, b, data) ==
    /\ r \in Reading
    /\ Len(r.tokens) \in 0 .. Len(reads)
    /\ \E pending \in Seq(Letter) : InRead(r, b, data, pending)

\* How far an application is: every round goes further.
Done(r) == IF r.sock.state = "read" /\ r.sock.rest = <<>> THEN Len(r.tokens) + 1 ELSE Len(r.tokens)

LEMMA NothingWaits ==
    ASSUME NEW w
    PROVE  Waiting(<<>>, w) /\ Kept(<<>>) = <<>>
<1>1. Len(<<>>) = 0 /\ BufSize \in Nat \ {0} /\ <<>> \in Seq(Letter)
  BY PsockAssumption
<1>2. Kept(<<>>) = <<>>
  <2>1. ASSUME NEW e \in Seq(Letter), e = <<>> PROVE Kept(e) = e
    <3>1. Len(e) <= BufSize
      BY <1>1, <2>1
    <3> QED BY <3>1, KeptIs
  <2> QED BY <1>1, <2>1
<1> QED BY <1>1, <1>2 DEF Waiting

LEMMA RoundKeeps ==
    ASSUME NEW r, NEW b \in Seq(Letter), NEW data \in Seq(Letter), Len(reads) \in Nat, InLoop(r, b, data)
    PROVE  LET q == ReadRound(r, data)
           IN  InLoop(q, b, data) /\ (Stopped(r) \/ Stopped(q) \/ Done(q) >= Done(r) + 1)
<1> DEFINE q == ReadRound(r, data)
           n == Len(r.tokens)
           w == reads[n + 1]
<1>1. /\ r \in Reading /\ n \in 0 .. Len(reads) /\ r.on \in BOOLEAN
      /\ r.sock \in Sock /\ r.tokens \in Seq(Seq(Letter))
  BY DEF InLoop, Reading
<1>2. PICK pending \in Seq(Letter) : InRead(r, b, data, pending)
  BY DEF InLoop
<1>3. b \o data \in Seq(Letter) /\ b \o <<>> = b /\ pending \o <<>> = pending
  BY ConcatEmptySeq
<1>4. CASE Stopped(r)
  <2>1. q = r
    BY <1>1, <1>4, RoundStays
  <2> QED BY <1>4, <2>1
<1>5. CASE ~Stopped(r) /\ r.sock.rest = <<>> /\ (r.sock.state = "read" \/ data = <<>>)
  <2>1. /\ q \in Reading /\ q.on = FALSE /\ q.tokens = r.tokens
        /\ q.sock.buf = r.sock.buf /\ q.sock.rest = <<>> /\ q.sock.state # "read"
    BY <1>1, <1>5, RoundWaits
  <2>2. n # Len(reads) /\ r.on = TRUE
    BY <1>5 DEF Stopped
  <2>3. Begins(b \o data, r.tokens, pending)
    BY <1>2, <1>3, <1>5, <2>2 DEF InRead
  <2> HIDE DEF q
  <2>4. InRead(q, b, data, pending)
    BY <1>2, <2>1, <2>2, <2>3 DEF InRead
  <2>5. Stopped(q)
    BY <2>1 DEF Stopped
  <2>6. InLoop(q, b, data)
    BY <1>1, <2>1, <2>4 DEF InLoop
  <2> QED BY <2>5, <2>6 DEF q
<1>6. CASE ~Stopped(r) /\ ~(r.sock.rest = <<>> /\ (r.sock.state = "read" \/ data = <<>>))
  <2> DEFINE p == Ready(r, data)
             round == IF w = READBUF THEN bufdata(p) ELSE bufto(p, w)
             all == pending \o p.rest
             upto == Taken(all, w)
  <2>1. n # Len(reads) /\ r.on = TRUE
    BY <1>6 DEF Stopped
  <2>2. /\ Read(r, data).found = TRUE =>
              q = [r EXCEPT !.sock = [Read(r, data).sock EXCEPT !.buf = <<>>],
                            !.tokens = Append(r.tokens, Read(r, data).sock.buf)]
        /\ Read(r, data).found = FALSE => q = [r EXCEPT !.sock = Read(r, data).sock]
        /\ p \in Sock /\ p.rest # <<>> /\ p.buf = r.sock.buf
        /\ p.state = IF r.sock.rest = <<>> THEN "read" ELSE r.sock.state
        /\ p.rest = IF r.sock.rest = <<>> THEN data ELSE r.sock.rest
    BY <1>1, <1>6, RoundGoesOn
  <2>3. round = Read(r, data)
    BY DEF Read
  <2>4. p.state = "read" /\ Begins(b \o data, r.tokens, all) /\ p.rest \in Seq(Letter)
    <3>1. CASE r.sock.state = "read"
      <4>1. r.sock.rest # <<>> /\ Begins(b \o data, r.tokens, pending \o r.sock.rest)
        BY <1>2, <1>6, <2>1, <3>1 DEF InRead
      <4> QED BY <1>1, <2>2, <3>1, <4>1 DEF Sock
    <3>2. CASE r.sock.state # "read"
      <4>1. r.sock.rest = <<>> /\ Begins(b, r.tokens, pending)
        BY <1>2, <2>1, <3>2 DEF InRead
      <4>2. Begins(b \o data, r.tokens, pending \o data)
        BY <1>1, <4>1, BeginsLonger
      <4> QED BY <2>2, <4>1, <4>2
    <3> QED BY <3>1, <3>2
  <2>5. p.buf = Kept(pending) /\ Waiting(pending, w)
    BY <1>2, <2>1, <2>2 DEF InRead
  <2>6. /\ all \in Seq(Letter)
        /\ round.sock \in Sock /\ round.sock.state = p.state
        /\ round.found = TRUE => /\ upto # <<>> /\ upto \in Seq(Letter)
                                 /\ round.sock.buf = Kept(upto)
                                 /\ round.sock.rest = SubSeq(all, Len(upto) + 1, Len(all))
        /\ round.found # TRUE => /\ Waiting(all, w)
                                 /\ round.sock.buf = Kept(all) /\ round.sock.rest = <<>>
        /\ round.found \in BOOLEAN
    <3> HIDE DEF p, w
    <3> QED BY <2>2, <2>5, RoundReads
  <2> HIDE DEF p, round, all, upto, q
  <2>7. r.sock.rest = <<>> => r.sock.state # "read"
    BY <1>6
  <2>8. Done(r) = n
    BY <1>1, <2>7 DEF Done
  <2>9. CASE round.found = TRUE
    <3> DEFINE more == Append(r.tokens, Kept(upto))
               after == SubSeq(all, Len(upto) + 1, Len(all))
               sock == [round.sock EXCEPT !.buf = <<>>]
    <3>1. q = [r EXCEPT !.sock = sock, !.tokens = more]
      BY <2>2, <2>3, <2>6, <2>9
    <3>2. Begins(b \o data, more, after) /\ more \in Seq(Seq(Letter)) /\ Len(more) = n + 1
      BY <1>1, <2>1, <2>4, <2>6, <2>9, BeginsNext DEF upto
    <3>3. sock \in Sock /\ sock.buf = <<>> /\ sock.rest = after /\ sock.state = "read"
      <4>1. <<>> \in Seq(Letter)
        OBVIOUS
      <4> QED BY <2>4, <2>6, <2>9, <4>1, SockHolds
    <3> HIDE DEF more, sock
    <3>4. q \in Reading /\ q.sock = sock /\ q.tokens = more /\ q.on = r.on
      <4> DEFINE next == [r EXCEPT !.sock = sock, !.tokens = more]
      <4>1. next \in Reading /\ next.sock = sock /\ next.tokens = more /\ next.on = r.on
        <5>1. \A s0 \in Sock, m0 \in Seq(Seq(Letter)) :
                 LET x == [r EXCEPT !.sock = s0, !.tokens = m0]
                 IN  x \in Reading /\ x.sock = s0 /\ x.tokens = m0 /\ x.on = r.on
          BY <1>1 DEF Reading
        <5> QED BY <3>2, <3>3, <5>1
      <4> HIDE DEF next
      <4>2. q = next
        BY <3>1 DEF next
      <4> QED BY <4>1, <4>2
    <3>5. InRead(q, b, data, <<>>)
      <4>1. <<>> \o after = after
        <5>1. after \in Seq(Letter)
          BY <3>3 DEF Sock
        <5> HIDE DEF after
        <5> QED BY <5>1, ConcatEmptySeq
      <4> HIDE DEF after
      <4> QED BY <2>1, <3>2, <3>3, <3>4, <4>1, NothingWaits DEF InRead
    <3>6. Len(q.tokens) = n + 1 /\ n + 1 \in 0 .. Len(reads)
      BY <1>1, <2>1, <3>2, <3>4
    <3>7. InLoop(q, b, data)
      <4>1. <<>> \in Seq(Letter)
        OBVIOUS
      <4> QED BY <3>4, <3>5, <3>6, <4>1 DEF InLoop
    <3>8. Done(q) >= n + 1
      BY <1>1, <3>6 DEF Done
    <3> QED BY <2>8, <3>7, <3>8 DEF q
  <2>10. CASE round.found # TRUE
    <3>1. round.found = FALSE
      BY <2>6, <2>10
    <3>2. q = [r EXCEPT !.sock = round.sock]
      BY <2>2, <2>3, <3>1
    <3>3. q \in Reading /\ q.sock = round.sock /\ q.tokens = r.tokens /\ q.on = r.on
      BY <1>1, <2>6, <3>2, ReadingFields
    <3>4. /\ q.sock.buf = Kept(all) /\ q.sock.rest = <<>> /\ q.sock.state = "read"
          /\ Waiting(all, w) /\ all \o <<>> = all
      BY <2>4, <2>6, <2>10, <3>3, ConcatEmptySeq
    <3>5. InRead(q, b, data, all)
      BY <2>1, <2>4, <3>3, <3>4 DEF InRead
    <3>6. InLoop(q, b, data)
      BY <1>1, <2>6, <3>3, <3>5 DEF InLoop
    <3>7. Done(q) = n + 1
      BY <3>3, <3>4 DEF Done
    <3> QED BY <1>1, <2>8, <3>6, <3>7 DEF q
  <2> QED BY <2>9, <2>10
<1> QED BY <1>4, <1>5, <1>6

\* All rounds: the application waits, or has found its last token.
LEMMA HandlesInput ==
    ASSUME NEW p \in Sock, NEW found \in Seq(Seq(Letter)), NEW b \in Seq(Letter), NEW data \in Seq(Letter),
           Len(reads) \in Nat, InLoop([sock |-> p, tokens |-> found, on |-> TRUE], b, data)
    PROVE  LET run == handle_input(p, found, data)
           IN  InLoop(run, b, data) /\ Stopped(run)
<1> DEFINE N == Len(reads) + 1
           X == {r \in Reading : InLoop(r, b, data)}
           round[r \in Reading] == ReadRound(r, data)
           start == [sock |-> p, tokens |-> found, on |-> TRUE]
           run == AfterRounds(N, round, start)
<1>1. handle_input(p, found, data) = run
  BY DEF handle_input
<1>2. start \in X
  BY DEF InLoop
<1>3. \A r \in X : /\ round[r] = ReadRound(r, data) /\ round[r] \in X
                   /\ Stopped(r) \/ Stopped(round[r]) \/ Done(round[r]) >= Done(r) + 1
                   /\ Stopped(r) => round[r] = r
  <2> SUFFICES ASSUME NEW r \in X
               PROVE  /\ round[r] = ReadRound(r, data) /\ round[r] \in X
                      /\ Stopped(r) \/ Stopped(round[r]) \/ Done(round[r]) >= Done(r) + 1
                      /\ Stopped(r) => round[r] = r
    OBVIOUS
  <2>1. r \in Reading /\ InLoop(r, b, data) /\ r.on \in BOOLEAN
    BY DEF Reading
  <2>2. round[r] = ReadRound(r, data)
    BY <2>1
  <2>3. /\ InLoop(ReadRound(r, data), b, data)
        /\ Stopped(r) \/ Stopped(ReadRound(r, data)) \/ Done(ReadRound(r, data)) >= Done(r) + 1
    BY <2>1, RoundKeeps
  <2>4. Stopped(r) => ReadRound(r, data) = r
    BY <2>1, RoundStays
  <2>5. ReadRound(r, data) \in X
    BY <2>3 DEF InLoop
  <2> HIDE DEF round, X
  <2> QED BY <2>2, <2>3, <2>4, <2>5
<1>4. N \in Nat
  OBVIOUS
<1>5. \A r \in X : Stopped(r) \/ Done(r) <= Len(reads)
  <2> SUFFICES ASSUME NEW r \in X PROVE Stopped(r) \/ Done(r) <= Len(reads)
    OBVIOUS
  <2>1. Len(r.tokens) \in 0 .. Len(reads)
    BY DEF InLoop
  <2>2. Done(r) = Len(r.tokens) + 1 \/ Done(r) = Len(r.tokens)
    BY DEF Done
  <2>3. Stopped(r) \/ Len(r.tokens) # Len(reads)
    BY DEF Stopped
  <2> QED BY <2>1, <2>2, <2>3
<1>6. \A r \in X : Done(r) \in Nat
  BY DEF InLoop, Done
<1> HIDE DEF N, X, round, start
<1>7. PICK f \in [0 .. N -> X] : f[0] = start /\ (\A k \in 1 .. N : f[k] = round[f[k - 1]]) /\ f[N] = run
  <2>1. \A r \in X : round[r] \in X
    BY <1>3
  <2>2. RoundsEnd(N, X, round, start, run)
    BY <1>2, <1>4, <2>1, RoundsAre
  <2> HIDE DEF run
  <2> QED BY <2>2 DEF RoundsEnd
<1> DEFINE I == {k \in 0 .. N : Stopped(f[k]) \/ Done(f[k]) >= k}
<1> HIDE DEF run
<1>8. 0 \in I
  BY <1>2, <1>4, <1>6, <1>7
<1>9. ASSUME NEW k \in 1 .. N, k - 1 \in I PROVE k \in I
  <2>1. k - 1 \in 0 .. N /\ f[k - 1] \in X /\ f[k] = round[f[k - 1]] /\ f[k] \in X /\ k \in 0 .. N
    BY <1>4, <1>7
  <2>2. CASE Stopped(f[k - 1])
    <3>1. f[k] = f[k - 1]
      BY <1>3, <2>1, <2>2
    <3> QED BY <2>1, <2>2, <3>1
  <2>3. CASE ~Stopped(f[k - 1])
    <3>1. Done(f[k - 1]) >= k - 1
      BY <1>9, <2>3
    <3>2. Stopped(f[k]) \/ Done(f[k]) >= Done(f[k - 1]) + 1
      BY <1>3, <2>1, <2>3
    <3>3. Done(f[k]) \in Nat /\ Done(f[k - 1]) \in Nat
      BY <1>6, <2>1
    <3> QED BY <2>1, <3>1, <3>2, <3>3
  <2> QED BY <2>2, <2>3
<1>10. N \in I
  <2> HIDE DEF I
  <2>1. 0 .. N \subseteq I
    BY <1>4, <1>8, <1>9, AllUpTo
  <2> QED BY <1>4, <2>1
<1>11. run \in X
  BY <1>4, <1>7
<1>12. Stopped(run)
  <2>1. Stopped(run) \/ Done(run) >= N
    BY <1>7, <1>10
  <2>2. Stopped(run) \/ Done(run) <= Len(reads)
    BY <1>5, <1>11
  <2> QED BY <1>6, <1>11, <2>1, <2>2 DEF N
<1> QED BY <1>1, <1>11, <1>12 DEF X

-----------------------------------------------------------------------------
(* Psock: what is read is what arrived. *)

\* Between two events: the bytes of the next token that have arrived, in the buffer as
\* far as they fit, and nothing left to read while a token is wanted.
ReadingInv ==
    /\ reads \in Reads /\ stream \in Seq(Letter) /\ arrived \in Seq(Letter)
    /\ sin \in Sock /\ tokens \in Seq(Seq(Letter))
    /\ Len(tokens) \in 0 .. Len(reads)
    /\ \E pending \in Seq(Letter) :
          /\ sin.buf = Kept(pending)
          /\ Begins(arrived, tokens, pending \o sin.rest)
          /\ Len(tokens) # Len(reads) => /\ Waiting(pending, reads[Len(tokens) + 1])
                                         /\ sin.rest = <<>> /\ sin.state # "read"

LEMMA ReadsAre ==
    ASSUME reads \in Reads
    PROVE  Len(reads) \in Nat \ {0}
<1>1. reads \in Seq(Range(reads)) /\ reads # <<>>
  BY PsockAssumption
<1>2. \A S : \A q \in Seq(S) : Len(q) \in Nat /\ (Len(q) = 0 => q = <<>>)
  BY EmptySeq
<1> QED BY <1>1, <1>2

LEMMA ReadingInit == PsockInit => ReadingInv
<1> SUFFICES ASSUME PsockInit PROVE ReadingInv
  OBVIOUS
<1>1. /\ reads \in Reads /\ stream \in Seq(Letter) /\ arrived = <<>> /\ tokens = <<>>
      /\ sin = [state |-> "none", buf |-> <<>>, rest |-> <<>>]
      /\ Len(reads) \in Nat \ {0}
  BY PsockAssumption, ReadsAre DEF PsockInit, PSOCK_INIT
<1>2. <<>> \in Seq(Letter) /\ <<>> \in Seq(Seq(Letter)) /\ Len(<<>>) = 0
  OBVIOUS
<1>3. sin \in Sock /\ sin.buf = <<>> /\ sin.rest = <<>> /\ sin.state # "read"
  BY <1>1, <1>2 DEF Sock
<1>4. Begins(<<>>, <<>>, <<>>)
  BY <1>1, <1>2, BeginsEmpty
<1>5. <<>> \o <<>> = <<>>
  BY <1>2, ConcatEmptySeq
<1>6. Waiting(<<>>, reads[Len(tokens) + 1]) /\ Kept(<<>>) = <<>>
  BY NothingWaits
<1>7. \E pending \in Seq(Letter) :
         /\ sin.buf = Kept(pending)
         /\ Begins(arrived, tokens, pending \o sin.rest)
         /\ Len(tokens) # Len(reads) => /\ Waiting(pending, reads[Len(tokens) + 1])
                                        /\ sin.rest = <<>> /\ sin.state # "read"
  BY <1>1, <1>2, <1>3, <1>4, <1>5, <1>6
<1> QED BY <1>1, <1>2, <1>3, <1>7 DEF ReadingInv

LEMMA ReadingEvent ==
    ASSUME ReadingInv, NEW data \in Seq(Letter), Event(data)
    PROVE  ReadingInv'
<1> DEFINE start == [sock |-> sin, tokens |-> tokens, on |-> TRUE]
           run == handle_input(sin, tokens, data)
<1>1. /\ reads \in Reads /\ stream \in Seq(Letter) /\ arrived \in Seq(Letter)
      /\ sin \in Sock /\ tokens \in Seq(Seq(Letter))
      /\ Len(tokens) \in 0 .. Len(reads) /\ Len(reads) \in Nat
  BY ReadsAre DEF ReadingInv
<1>2. /\ Len(tokens) # Len(reads) /\ sin' = run.sock /\ tokens' = run.tokens
      /\ arrived' = arrived \o data /\ reads' = reads /\ stream' = stream
  BY DEF Event, Finished
<1>3. PICK pending \in Seq(Letter) :
         /\ sin.buf = Kept(pending)
         /\ Begins(arrived, tokens, pending \o sin.rest)
         /\ Waiting(pending, reads[Len(tokens) + 1])
         /\ sin.rest = <<>> /\ sin.state # "read"
  BY <1>2 DEF ReadingInv
<1>4. start \in Reading
  BY <1>1 DEF Reading
<1>5. start.sock = sin /\ start.tokens = tokens /\ start.on = TRUE
  OBVIOUS
<1> HIDE DEF start, run
<1>6. InLoop(start, arrived, data)
  <2>1. Begins(arrived, tokens, pending)
    BY <1>3, ConcatEmptySeq
  <2>2. InRead(start, arrived, data, pending)
    BY <1>2, <1>3, <1>5, <2>1 DEF InRead
  <2> QED BY <1>1, <1>4, <1>5, <2>2 DEF InLoop
<1>7. InLoop(run, arrived, data) /\ Stopped(run)
  BY <1>1, <1>6, HandlesInput DEF start, run
<1>8. /\ run.sock \in Sock /\ run.tokens \in Seq(Seq(Letter)) /\ run.on \in BOOLEAN
      /\ Len(run.tokens) \in 0 .. Len(reads)
  BY <1>7 DEF InLoop, Reading
<1>9. PICK after \in Seq(Letter) : InRead(run, arrived, data, after)
  BY <1>7 DEF InLoop
<1>10. /\ run.sock.buf = Kept(after)
       /\ Begins(arrived \o data, run.tokens, after \o run.sock.rest)
       /\ Len(run.tokens) # Len(reads) => /\ Waiting(after, reads[Len(run.tokens) + 1])
                                          /\ run.sock.rest = <<>> /\ run.sock.state # "read"
  <2>1. after \o <<>> = after
    BY ConcatEmptySeq
  <2>2. Len(run.tokens) = Len(reads) \/ run.on # TRUE
    BY <1>7 DEF Stopped
  <2> QED BY <1>9, <2>1, <2>2 DEF InRead
<1>11. arrived' \in Seq(Letter)
  BY <1>1, <1>2
<1> QED BY <1>1, <1>2, <1>8, <1>10, <1>11 DEF ReadingInv, Begins, Splits, Split, Finished

LEMMA ReadingNext == ReadingInv /\ [PsockNext]_psockVars => ReadingInv'
<1> SUFFICES ASSUME ReadingInv, [PsockNext]_psockVars PROVE ReadingInv'
  OBVIOUS
<1>1. CASE Poll
  <2>1. <<>> \in Seq(Letter)
    OBVIOUS
  <2> QED BY <1>1, <2>1, ReadingEvent DEF Poll
<1>2. ASSUME NEW n \in 1 .. Len(stream) - Len(arrived), Arrives(n) PROVE ReadingInv'
  <2> DEFINE data == SubSeq(stream, Len(arrived) + 1, Len(arrived) + n)
  <2>1. /\ stream \in Seq(Letter) /\ Len(stream) \in Nat /\ Len(arrived) \in Nat
        /\ Len(arrived) + 1 \in Int /\ Len(arrived) + n \in Int
    BY DEF ReadingInv
  <2>2. \A i \in Len(arrived) + 1 .. Len(arrived) + n : stream[i] \in Letter
    <3> SUFFICES ASSUME NEW i \in Len(arrived) + 1 .. Len(arrived) + n PROVE stream[i] \in Letter
      OBVIOUS
    <3>1. i \in 1 .. Len(stream)
      BY <2>1
    <3> QED BY <2>1, <3>1
  <2>3. data \in Seq(Letter)
    BY <2>1, <2>2, SubSeqProperties
  <2>4. Event(data)
    BY <1>2 DEF Arrives
  <2> HIDE DEF data
  <2> QED BY <2>3, <2>4, ReadingEvent
<1>3. CASE UNCHANGED psockVars
  BY <1>3 DEF ReadingInv, psockVars, Begins, Splits, Split, Finished
<1> QED BY <1>1, <1>2, <1>3 DEF PsockNext

LEMMA ReadingShows == ReadingInv => ReadsWhatArrived
<1> SUFFICES ASSUME ReadingInv PROVE ReadsWhatArrived
  OBVIOUS
<1>1. /\ reads \in Reads /\ arrived \in Seq(Letter) /\ tokens \in Seq(Seq(Letter)) /\ Len(reads) \in Nat
      /\ sin.rest \in Seq(Letter)
  BY ReadsAre DEF ReadingInv, Sock
<1>2. PICK pending \in Seq(Letter) :
         /\ sin.buf = Kept(pending)
         /\ Begins(arrived, tokens, pending \o sin.rest)
         /\ Len(tokens) # Len(reads) => /\ Waiting(pending, reads[Len(tokens) + 1])
                                        /\ sin.rest = <<>>
  BY DEF ReadingInv
<1>3. pending \o <<>> = pending /\ pending \o sin.rest \in Seq(Letter)
  BY <1>1, ConcatEmptySeq
<1>4. Len(tokens) = Len(reads) \/ Waiting(pending \o sin.rest, reads[Len(tokens) + 1])
  BY <1>2, <1>3
<1>5. Tokens(arrived) = tokens
  BY <1>1, <1>2, <1>3, <1>4, BeginsAll
<1>6. Len(sin.buf) <= BufSize
  BY <1>2, KeptIs
<1> QED BY <1>5, <1>6 DEF ReadsWhatArrived

\* Psock.ReadsWhatArrived: whatever the segments, the tokens an application has read are
\* those of the bytes that have arrived (psock_readto and psock_readbuf), and they fit.
THEOREM ReadsAreRight == PsockSpec => []ReadsWhatArrived
<1>1. PsockInit => ReadingInv
  BY ReadingInit
<1>2. ReadingInv /\ [PsockNext]_psockVars => ReadingInv'
  BY ReadingNext
<1>3. ReadingInv => ReadsWhatArrived
  BY ReadingShows
<1> QED BY <1>1, <1>2, <1>3, PTL DEF PsockSpec

-----------------------------------------------------------------------------
(* Loops of one or two rounds. *)

LEMMA RoundsSettle ==
    ASSUME NEW n \in Nat, NEW round, NEW a, NEW b, NEW c,
           round[a] = b, round[b] = c, round[c] = c, n >= 2 \/ (a = b /\ b = c)
    PROVE  AfterRounds(n, round, a) = c
<1> DEFINE X == {a, b, c}
           end == AfterRounds(n, round, a)
<1>1. RoundsEnd(n, X, round, a, end)
  <2> HIDE DEF end
  <2>1. a \in X /\ \A x \in X : round[x] \in X
    OBVIOUS
  <2> HIDE DEF X
  <2> QED BY <2>1, RoundsAre DEF end
<1> HIDE DEF end
<1>2. PICK f \in [0 .. n -> X] : f[0] = a /\ (\A k \in 1 .. n : f[k] = round[f[k - 1]]) /\ f[n] = end
  BY <1>1 DEF RoundsEnd
<1>3. CASE a = b /\ b = c
  <2> DEFINE I == {k \in 0 .. n : f[k] = c}
  <2>1. 0 \in I
    BY <1>2, <1>3
  <2>2. ASSUME NEW k \in 1 .. n, k - 1 \in I PROVE k \in I
    BY <1>2, <2>2
  <2> HIDE DEF I
  <2>3. 0 .. n \subseteq I
    BY <2>1, <2>2, AllUpTo
  <2> QED BY <1>2, <2>3 DEF I, end
<1>4. CASE n >= 2
  <2> DEFINE I == {k \in 0 .. n : /\ k = 1 => f[k] = b
                                  /\ k >= 2 => f[k] = c}
  <2>1. 0 \in I
    OBVIOUS
  <2>2. ASSUME NEW k \in 1 .. n, k - 1 \in I PROVE k \in I
    <3>1. f[k] = round[f[k - 1]] /\ k \in 0 .. n
      BY <1>2
    <3>2. CASE k = 1
      BY <1>2, <3>1, <3>2
    <3>3. CASE k = 2
      <4>1. f[k - 1] = b
        BY <2>2, <3>3
      <4> QED BY <3>1, <3>3, <4>1
    <3>4. CASE k >= 3
      <4>1. f[k - 1] = c
        BY <2>2, <3>4
      <4> QED BY <3>1, <3>4, <4>1
    <3> QED BY <3>2, <3>3, <3>4
  <2> HIDE DEF I
  <2>3. 0 .. n \subseteq I
    BY <2>1, <2>2, AllUpTo
  <2>4. n \in I
    BY <2>3
  <2> QED BY <1>2, <1>4, <2>4 DEF I, end
<1> QED BY <1>3, <1>4

\* The bytes are numbered from 1, text after text.
LEMMA FirstByteIs ==
    /\ Len(Texts) \in Nat
    /\ \A k \in 1 .. Len(Texts) : Texts[k] \in Nat \ {0}
    /\ FirstByte(1) = 1
    /\ \A k \in 1 .. Len(Texts) : FirstByte(k + 1) = FirstByte(k) + Texts[k]
    /\ \A k \in 1 .. Len(Texts) + 1 : FirstByte(k) \in Nat /\ FirstByte(k) >= k
<1> DEFINE n == Len(Texts)
           Built(f) == [i \in 0 .. n |-> IF i = 0 THEN 0 ELSE f[i - 1] + Texts[i]]
           sum == CHOOSE f : f = Built(f)
           step == [p \in Nat \X (1 .. n) |-> p[1] + Texts[p[2]]]
<1>1. n \in Nat /\ \A k \in 1 .. n : Texts[k] \in Nat \ {0}
  BY PsockSendAssumption
<1> HIDE DEF n
<1>2. step \in [Nat \X (1 .. n) -> Nat]
  <2>1. \A p \in Nat \X (1 .. n) : p[1] \in Nat /\ p[2] \in 1 .. n
    OBVIOUS
  <2>2. \A p \in Nat \X (1 .. n) : p[1] + Texts[p[2]] \in Nat
    BY <1>1, <2>1
  <2> QED BY <2>2
<1>3. PICK f \in [0 .. n -> Nat] : StepsFrom(f, n, 0, step)
  <2> HIDE DEF step
  <2> QED BY <1>1, <1>2, StepsExist
<1>4. \A k \in 1 .. n : f[k] = f[k - 1] + Texts[k]
  <2> SUFFICES ASSUME NEW k \in 1 .. n PROVE f[k] = f[k - 1] + Texts[k]
    OBVIOUS
  <2>1. k - 1 \in 0 .. n
    BY <1>1
  <2>2. <<f[k - 1], k>> \in Nat \X (1 .. n)
    BY <2>1
  <2>3. step[<<f[k - 1], k>>] = f[k - 1] + Texts[k]
    BY <2>2
  <2> QED BY <1>3, <2>3 DEF StepsFrom
<1>5. f = Built(f)
  BY <1>3, <1>4 DEF StepsFrom
<1>6. sum = Built(sum)
  <2> HIDE DEF Built
  <2> QED BY <1>5
<1>7. \A k : FirstByte(k) = sum[k - 1] + 1
  BY DEF FirstByte, sum, Built, n
<1> HIDE DEF sum
<1>8. sum[0] = 0 /\ \A k \in 1 .. n : sum[k] = sum[k - 1] + Texts[k]
  BY <1>1, <1>6
<1> DEFINE I == {k \in 0 .. n : sum[k] \in Nat /\ sum[k] >= k}
<1>9. 0 \in I
  BY <1>1, <1>8
<1>10. ASSUME NEW k \in 1 .. n, k - 1 \in I PROVE k \in I
  <2>1. sum[k - 1] \in Nat /\ sum[k - 1] >= k - 1
    BY <1>10
  <2>2. sum[k] = sum[k - 1] + Texts[k] /\ Texts[k] \in Nat \ {0} /\ k \in 0 .. n
    BY <1>1, <1>8
  <2> QED BY <2>1, <2>2
<1>11. 0 .. n \subseteq I
  <2> HIDE DEF I
  <2> QED BY <1>1, <1>9, <1>10, AllUpTo
<1>12. FirstByte(1) = 1
  BY <1>7, <1>8
<1>13. ASSUME NEW k \in 1 .. n PROVE FirstByte(k + 1) = FirstByte(k) + Texts[k]
  <2>1. sum[k] = sum[k - 1] + Texts[k] /\ sum[k - 1] \in Nat /\ Texts[k] \in Nat /\ k + 1 - 1 = k
    <3>1. k - 1 \in I
      BY <1>1, <1>11
    <3> QED BY <1>1, <1>8, <3>1
  <2>2. FirstByte(k + 1) = sum[k] + 1 /\ FirstByte(k) = sum[k - 1] + 1
    BY <1>7, <2>1
  <2> QED BY <2>1, <2>2
<1>14. ASSUME NEW k \in 1 .. n + 1 PROVE FirstByte(k) \in Nat /\ FirstByte(k) >= k
  <2>1. k - 1 \in I
    BY <1>1, <1>11
  <2> QED BY <1>7, <2>1
<1> QED BY <1>1, <1>12, <1>13, <1>14 DEF n

-----------------------------------------------------------------------------
(* One call of the application. *)

TypeOfSock == [text : Nat, state : {"none", "sent", "acked"}, ptr : Nat, len : Nat]

\* A protosocket that sends text k: before, or when its segment is under way.
Standing(sock, k, state) ==
    /\ sock \in TypeOfSock
    /\ sock.text = k /\ sock.state = state
    /\ sock.ptr = FirstByte(k) /\ sock.len = Texts[k]

GoesOver(sock, k) == sock = SendBegins(k + 1)

\* Nothing to send in this call.
NoOut == [ptr |-> 0, len |-> 0]

\* A round that gets no acknowledgement ends the call; it may have sent the text.
LEMMA RoundSends ==
    ASSUME NEW r \in Sending, NEW flags, NEW mss \in Nat, NEW k \in 1 .. Len(Texts), NEW state,
           Standing(r.sock, k, state), r.on = TRUE, r.out = NoOut, Texts[k] <= mss,
           state # "sent" \/ "acked" \notin flags
    PROVE  LET q == SendRound(r, flags, mss)
           IN  /\ q \in Sending /\ q.on = FALSE /\ SendRound(q, flags, mss) = q
               /\ state # "sent" \/ "rexmit" \in flags =>
                    Standing(q.sock, k, "sent") /\ q.out = [ptr |-> FirstByte(k), len |-> Texts[k]]
               /\ state = "sent" /\ "rexmit" \notin flags => q.sock = r.sock /\ q.out = NoOut
<1> DEFINE da == data_acked(r, flags, mss)
           q == SendRound(r, flags, mss)
           sends == state # "sent" \/ "rexmit" \in flags
<1>1. /\ r.sock \in TypeOfSock /\ r.out \in [ptr : Nat, len : Nat] /\ Len(Texts) \in Nat
      /\ Texts[k] \in Nat \ {0} /\ FirstByte(k) \in Nat
      /\ r.sock.text = k /\ r.sock.state = state /\ r.sock.ptr = FirstByte(k) /\ r.sock.len = Texts[k]
  BY FirstByteIs DEF Sending, TypeOfSock, Standing
<1>2. da = [r EXCEPT !.on = FALSE]
  BY <1>1 DEF data_acked
<1>3. da.sock = r.sock /\ da.out = r.out /\ da.on = FALSE
  BY <1>2 DEF Sending
<1> HIDE DEF da
<1>4. q = send_data(da, flags, mss)
  <2>1. ~(AllSent(r.sock) \/ ~r.on)
    BY <1>1 DEF AllSent
  <2>2. send_data(da, flags, mss).on = FALSE
    <3>1. CASE da.sock.state # "sent" \/ "rexmit" \in flags
      BY <1>3, <3>1 DEF send_data
    <3>2. CASE ~(da.sock.state # "sent" \/ "rexmit" \in flags)
      <4>1. send_data(da, flags, mss) = [da EXCEPT !.on = FALSE]
        BY <3>2 DEF send_data
      <4> QED BY <1>2, <4>1 DEF Sending
    <3> QED BY <3>1, <3>2
  <2>3. ~(send_data(da, flags, mss).on /\ send_data(da, flags, mss).sock.len = 0)
    BY <2>2
  <2> QED BY <2>1, <2>3 DEF SendRound, da
<1>5. CASE sends
  <2> DEFINE sock == [r.sock EXCEPT !.state = "sent"]
             out == [ptr |-> FirstByte(k), len |-> Texts[k]]
  <2>1. Smaller(r.sock.len, mss) = Texts[k]
    BY <1>1 DEF Smaller
  <2>2. uip_send(r.out, r.sock.ptr, Smaller(r.sock.len, mss)) = out
    BY <1>1, <2>1 DEF uip_send
  <2>3. q = [sock |-> sock, out |-> out, on |-> FALSE]
    <3> HIDE DEF q, sock, out
    <3> QED BY <1>1, <1>3, <1>4, <1>5, <2>2 DEF send_data, sock
  <2>4. Standing(sock, k, "sent")
    BY <1>1 DEF Standing, TypeOfSock
  <2>5. out \in [ptr : Nat, len : Nat]
    BY <1>1
  <2> HIDE DEF q, sock, out
  <2>6. q \in Sending /\ q.on = FALSE /\ q.sock = sock /\ q.out = out
    BY <2>3, <2>4, <2>5 DEF Sending, Standing, TypeOfSock
  <2>7. SendRound(q, flags, mss) = q
    BY <2>6 DEF SendRound
  <2> QED BY <1>5, <2>4, <2>6, <2>7 DEF q, out
<1>6. CASE ~sends
  <2>1. q = [da EXCEPT !.on = FALSE]
    BY <1>1, <1>3, <1>4, <1>6 DEF send_data
  <2>2. da \in Sending
    BY <1>2 DEF Sending
  <2> HIDE DEF q
  <2>3. q \in Sending /\ q.on = FALSE /\ q.sock = r.sock /\ q.out = r.out
    BY <1>3, <2>1, <2>2 DEF Sending
  <2>4. SendRound(q, flags, mss) = q
    BY <2>3 DEF SendRound
  <2> QED BY <1>6, <2>3, <2>4 DEF q
<1> QED BY <1>5, <1>6

\* A round with the acknowledgement goes on to the next text.
LEMMA RoundGoesOver ==
    ASSUME NEW r \in Sending, NEW flags, NEW mss \in Nat, NEW k \in 1 .. Len(Texts),
           Standing(r.sock, k, "sent"), r.on = TRUE, r.out = NoOut, Texts[k] <= mss, "acked" \in flags
    PROVE  LET q == SendRound(r, flags, mss)
           IN  q \in Sending /\ q.on = TRUE /\ q.out = NoOut /\ GoesOver(q.sock, k)
<1> DEFINE da == data_acked(r, flags, mss)
           sd == send_data(da, flags, mss)
           q == SendRound(r, flags, mss)
<1>1. /\ r.sock \in TypeOfSock /\ r.out \in [ptr : Nat, len : Nat] /\ Len(Texts) \in Nat
      /\ Texts[k] \in Nat \ {0} /\ FirstByte(k) \in Nat
      /\ r.sock.text = k /\ r.sock.state = "sent" /\ r.sock.ptr = FirstByte(k) /\ r.sock.len = Texts[k]
  BY FirstByteIs DEF Sending, TypeOfSock, Standing
<1>2. Smaller(r.sock.len, mss) = Texts[k]
  BY <1>1 DEF Smaller
<1>3. da = [r EXCEPT !.sock.ptr = @ + Texts[k], !.sock.len = @ - Texts[k], !.sock.state = "acked", !.on = TRUE]
  <2>1. r.sock.state = "sent" /\ "acked" \in flags
    BY <1>1
  <2> QED BY <1>2, <2>1 DEF data_acked
<1>4. /\ da.out = NoOut /\ da.on = TRUE /\ da.sock.text = k /\ da.sock.state = "acked"
      /\ da.sock.len = 0
      /\ [da.sock EXCEPT !.state = "sent"].len = 0 /\ [da.sock EXCEPT !.state = "sent"].text = k
  <2> HIDE DEF da
  <2>1. r.sock.len - Texts[k] = 0 /\ r.sock.ptr + Texts[k] \in Nat
    BY <1>1
  <2>2. da.out = r.out /\ da.on = TRUE /\ da.sock.text = r.sock.text /\ da.sock.state = "acked" /\ da.sock.len = 0
    BY <1>3, <2>1 DEF Sending
  <2>3. [da.sock EXCEPT !.state = "sent"].len = 0 /\ [da.sock EXCEPT !.state = "sent"].text = r.sock.text
    BY <1>3, <2>1 DEF Sending
  <2> QED BY <1>1, <2>2, <2>3
<1> HIDE DEF da
<1>5. Smaller(da.sock.len, mss) = 0
  BY <1>4 DEF Smaller
<1>6. uip_send(da.out, da.sock.ptr, Smaller(da.sock.len, mss)) = NoOut
  BY <1>4, <1>5 DEF uip_send
<1>7. sd = [sock |-> [da.sock EXCEPT !.state = "sent"], out |-> NoOut, on |-> TRUE]
  BY <1>4, <1>6 DEF send_data
<1>8. sd.on = TRUE /\ sd.out = NoOut /\ sd.sock.len = 0 /\ sd.sock.text = k
  <2> DEFINE sent == [da.sock EXCEPT !.state = "sent"]
  <2>1. sd = [sock |-> sent, out |-> NoOut, on |-> TRUE]
    BY <1>7
  <2>2. sent.len = 0 /\ sent.text = k
    BY <1>4
  <2> HIDE DEF sent, sd
  <2> QED BY <2>1, <2>2
<1>9. q = [sd EXCEPT !.sock = SendBegins(@.text + 1)]
  <2>1. ~(AllSent(r.sock) \/ ~r.on)
    BY <1>1 DEF AllSent
  <2>2. sd.on /\ sd.sock.len = 0
    BY <1>8
  <2> QED BY <2>1, <2>2 DEF SendRound, da
<1>10. q = [sock |-> SendBegins(k + 1), out |-> NoOut, on |-> TRUE]
  BY <1>7, <1>8, <1>9
<1>11. SendBegins(k + 1) \in TypeOfSock
  <2>1. k + 1 \in 1 .. Len(Texts) + 1 /\ FirstByte(k + 1) \in Nat
    BY <1>1, FirstByteIs
  <2>2. (IF k + 1 <= Len(Texts) THEN Texts[k + 1] ELSE 0) \in Nat
    BY <1>1, <2>1, FirstByteIs
  <2> QED BY <2>1, <2>2 DEF SendBegins, TypeOfSock
<1> HIDE DEF q
<1>12. q \in Sending /\ q.on = TRUE /\ q.out = NoOut /\ q.sock = SendBegins(k + 1)
  BY <1>10, <1>11 DEF Sending, TypeOfSock, NoOut
<1> QED BY <1>12 DEF q, GoesOver

LEMMA SendsNothing ==
    ASSUME NEW sock \in TypeOfSock, sock.text > Len(Texts), NEW flags, NEW mss
    PROVE  psock_send(sock, flags, mss).sock = sock /\ psock_send(sock, flags, mss).out = NoOut
<1> DEFINE a == [sock |-> sock, out |-> NoOut, on |-> TRUE]
           round[r \in Sending] == SendRound(r, flags, mss)
<1>1. psock_send(sock, flags, mss) = AfterRounds(Total + 1, round, a)
  BY DEF psock_send, NoOut
<1>2. a \in Sending
  BY DEF Sending, TypeOfSock, NoOut
<1>3. SendRound(a, flags, mss) = a
  <2>1. AllSent(a.sock)
    BY DEF AllSent
  <2> HIDE DEF a
  <2> QED BY <2>1 DEF SendRound
<1>4. round[a] = a
  BY <1>2, <1>3
<1>5. Total + 1 \in Nat
  <2>1. Len(Texts) + 1 \in 1 .. Len(Texts) + 1
    BY FirstByteIs
  <2> QED BY <2>1, FirstByteIs DEF Total
<1> HIDE DEF round
<1>6. AfterRounds(Total + 1, round, a) = a
  <2> HIDE DEF a
  <2> QED BY <1>4, <1>5, RoundsSettle
<1> QED BY <1>1, <1>6

LEMMA TwoRounds ==
    ASSUME NEW k \in 1 .. Len(Texts)
    PROVE  Total + 1 \in Nat /\ Total + 1 >= 2
<1>1. /\ Len(Texts) \in Nat /\ Len(Texts) + 1 \in 1 .. Len(Texts) + 1 /\ Len(Texts) + 1 >= 2
  BY FirstByteIs
<1>2. FirstByte(Len(Texts) + 1) \in Nat /\ FirstByte(Len(Texts) + 1) >= Len(Texts) + 1
  BY <1>1, FirstByteIs
<1> QED BY <1>1, <1>2 DEF Total

\* Without an acknowledgement the protosocket sends its text, or waits.
LEMMA SendsText ==
    ASSUME NEW sock, NEW flags, NEW mss \in Nat, NEW k \in 1 .. Len(Texts), NEW state,
           Standing(sock, k, state), Texts[k] <= mss, state # "sent" \/ "acked" \notin flags
    PROVE  LET run == psock_send(sock, flags, mss)
           IN  /\ state # "sent" \/ "rexmit" \in flags =>
                    Standing(run.sock, k, "sent") /\ run.out = [ptr |-> FirstByte(k), len |-> Texts[k]]
               /\ state = "sent" /\ "rexmit" \notin flags => run.sock = sock /\ run.out = NoOut
<1> DEFINE a == [sock |-> sock, out |-> NoOut, on |-> TRUE]
           b == SendRound(a, flags, mss)
           round[r \in Sending] == SendRound(r, flags, mss)
<1>1. psock_send(sock, flags, mss) = AfterRounds(Total + 1, round, a)
  BY DEF psock_send, NoOut
<1>2. a \in Sending /\ a.sock = sock /\ a.out = NoOut /\ a.on = TRUE
  BY DEF Sending, TypeOfSock, NoOut, Standing
<1> HIDE DEF a
<1>3. /\ b \in Sending /\ SendRound(b, flags, mss) = b
      /\ state # "sent" \/ "rexmit" \in flags =>
           Standing(b.sock, k, "sent") /\ b.out = [ptr |-> FirstByte(k), len |-> Texts[k]]
      /\ state = "sent" /\ "rexmit" \notin flags => b.sock = sock /\ b.out = NoOut
  <2>1. Standing(a.sock, k, state)
    BY <1>2
  <2>2. LET q == SendRound(a, flags, mss)
        IN  /\ q \in Sending /\ q.on = FALSE /\ SendRound(q, flags, mss) = q
            /\ state # "sent" \/ "rexmit" \in flags =>
                 Standing(q.sock, k, "sent") /\ q.out = [ptr |-> FirstByte(k), len |-> Texts[k]]
            /\ state = "sent" /\ "rexmit" \notin flags => q.sock = a.sock /\ q.out = NoOut
    BY <1>2, <2>1, RoundSends
  <2> QED BY <1>2, <2>2
<1>4. round[a] = b /\ round[b] = b
  <2> HIDE DEF b
  <2>1. round[b] = b
    BY <1>3
  <2>2. round[a] = b
    BY <1>2 DEF b
  <2> QED BY <2>1, <2>2
<1> HIDE DEF b, round
<1>5. AfterRounds(Total + 1, round, a) = b
  BY <1>4, TwoRounds, RoundsSettle
<1> QED BY <1>1, <1>3, <1>5

\* With the acknowledgement of its text it sends the next one, if there is one.
LEMMA SendsNext ==
    ASSUME NEW sock, NEW flags, NEW mss \in Nat, NEW k \in 1 .. Len(Texts), NEW next, next = k + 1,
           Standing(sock, k, "sent"), \A j \in 1 .. Len(Texts) : Texts[j] <= mss, "acked" \in flags
    PROVE  LET run == psock_send(sock, flags, mss)
           IN  /\ next <= Len(Texts) => /\ Standing(run.sock, next, "sent")
                                        /\ run.out = [ptr |-> FirstByte(next), len |-> Texts[next]]
               /\ next > Len(Texts) => run.sock = SendBegins(next) /\ run.out = NoOut
<1> DEFINE a == [sock |-> sock, out |-> NoOut, on |-> TRUE]
           b == SendRound(a, flags, mss)
           c == SendRound(b, flags, mss)
           round[r \in Sending] == SendRound(r, flags, mss)
<1>1. psock_send(sock, flags, mss) = AfterRounds(Total + 1, round, a)
  BY DEF psock_send, NoOut
<1>2. a \in Sending /\ a.sock = sock /\ a.out = NoOut /\ a.on = TRUE
  BY DEF Sending, TypeOfSock, NoOut, Standing
<1> HIDE DEF a
<1>3. b \in Sending /\ b.on = TRUE /\ b.out = NoOut /\ b.sock = SendBegins(next)
  <2>1. Standing(a.sock, k, "sent") /\ Texts[k] <= mss
    BY <1>2
  <2>2. b \in Sending /\ b.on = TRUE /\ b.out = NoOut /\ GoesOver(b.sock, k)
    BY <1>2, <2>1, RoundGoesOver
  <2> QED BY <2>2 DEF GoesOver
<1> HIDE DEF b
<1>4. /\ c \in Sending /\ SendRound(c, flags, mss) = c
      /\ next <= Len(Texts) => /\ Standing(c.sock, next, "sent")
                               /\ c.out = [ptr |-> FirstByte(next), len |-> Texts[next]]
      /\ next > Len(Texts) => c.sock = SendBegins(next) /\ c.out = NoOut
  <2>1. CASE next > Len(Texts)
    <3>1. AllSent(b.sock)
      <4>1. b.sock.text = next
        BY <1>3 DEF SendBegins
      <4> QED BY <2>1, <4>1 DEF AllSent
    <3>2. c = b
      BY <3>1 DEF SendRound
    <3>3. SendRound(c, flags, mss) = c
      BY <3>1, <3>2 DEF SendRound
    <3> QED BY <1>3, <2>1, <3>2, <3>3, FirstByteIs
  <2>2. CASE next <= Len(Texts)
    <3>1. next \in 1 .. Len(Texts)
      BY <2>2, FirstByteIs
    <3>2. Standing(b.sock, next, "none") /\ "none" # "sent"
      <4>1. SendBegins(next) \in TypeOfSock
        BY <1>3 DEF Sending, TypeOfSock
      <4> QED BY <1>3, <3>1, <4>1 DEF Standing, SendBegins
    <3>3. Texts[next] <= mss
      BY <3>1
    <3>4. /\ c \in Sending /\ SendRound(c, flags, mss) = c
          /\ Standing(c.sock, next, "sent") /\ c.out = [ptr |-> FirstByte(next), len |-> Texts[next]]
      <4>1. ASSUME NEW j \in 1 .. Len(Texts), NEW state, Standing(b.sock, j, state), Texts[j] <= mss, state # "sent"
            PROVE  /\ c \in Sending /\ SendRound(c, flags, mss) = c
                   /\ Standing(c.sock, j, "sent") /\ c.out = [ptr |-> FirstByte(j), len |-> Texts[j]]
        <5>1. state # "sent" \/ "acked" \notin flags
          BY <4>1
        <5>2. LET q == SendRound(b, flags, mss)
              IN  /\ q \in Sending /\ q.on = FALSE /\ SendRound(q, flags, mss) = q
                  /\ state # "sent" \/ "rexmit" \in flags =>
                       Standing(q.sock, j, "sent") /\ q.out = [ptr |-> FirstByte(j), len |-> Texts[j]]
                  /\ state = "sent" /\ "rexmit" \notin flags => q.sock = b.sock /\ q.out = NoOut
          BY <1>3, <4>1, <5>1, RoundSends
        <5> QED BY <4>1, <5>2
      <4> HIDE DEF c
      <4> QED BY <3>1, <3>2, <3>3, <4>1
    <3> QED BY <2>2, <3>1, <3>4, FirstByteIs
  <2> QED BY <2>1, <2>2, FirstByteIs
<1>5. round[a] = b /\ round[b] = c /\ round[c] = c
  <2>1. round[a] = b
    BY <1>2 DEF b
  <2>2. round[b] = c
    BY <1>3
  <2> HIDE DEF c
  <2>3. round[c] = c
    BY <1>4
  <2> QED BY <2>1, <2>2, <2>3
<1> HIDE DEF c, round
<1>6. AfterRounds(Total + 1, round, a) = c
  BY <1>5, TwoRounds, RoundsSettle
<1> QED BY <1>1, <1>4, <1>6

-----------------------------------------------------------------------------
(* PsockSend: the peer gets the bytes in their order. *)

\* Every segment under way holds the bytes its place in the stream says.
InPlace(s) == s.seq \in Nat /\ s.bytes \in Seq(Nat) /\ \A i \in 1 .. Len(s.bytes) : s.bytes[i] = s.seq + i
WireInv == \A s \in wire : InPlace(s)

GotInv == got \in Seq(Nat) /\ \A i \in 1 .. Len(got) : got[i] = i

\* The text that is sent: nothing of it is outstanding, or all; what was acknowledged is
\* what comes before it, and has arrived.
TextInv(k) ==
    /\ conn.acked = FirstByte(k) - 1 /\ Len(got) >= conn.acked
    /\ \/ sout = SendBegins(k) /\ conn.len = 0 /\ (k = 1 \/ k > Len(Texts))
       \/ k <= Len(Texts) /\ Standing(sout, k, "sent") /\ conn.len = Texts[k] /\ MaySend(conn.mss)

SendingInv ==
    /\ sout \in TypeOfSock /\ conn \in [mss : Nat, len : Nat, acked : Nat]
    /\ WireInv /\ GotInv
    /\ \E k \in 1 .. Len(Texts) + 1 : TextInv(k)

LEMMA SegmentIs ==
    ASSUME NEW seq \in Nat, NEW len \in Nat, NEW ptr \in Nat, ptr = seq + 1
    PROVE  InPlace(Segment(ptr, len, seq))
<1> DEFINE bytes == [i \in 1 .. len |-> ptr + i - 1]
<1>1. Segment(ptr, len, seq) = [seq |-> seq, bytes |-> bytes]
  BY DEF Segment
<1>2. bytes \in Seq(Nat) /\ Len(bytes) = len /\ \A i \in 1 .. len : bytes[i] = seq + i
  <2>1. \A i \in 1 .. len : ptr + i - 1 = seq + i /\ seq + i \in Nat
    OBVIOUS
  <2>2. bytes \in [1 .. len -> Nat]
    BY <2>1
  <2> QED BY <2>1, <2>2
<1> HIDE DEF bytes
<1> QED BY <1>1, <1>2 DEF InPlace

\* The three ways a call of the application may end.
LEMMA CallKeeps ==
    ASSUME SendingInv, OneSegment, NEW flags, NEW mss \in Nat, MaySend(mss), NEW k \in 1 .. Len(Texts) + 1,
           TextInv(k), appcall(flags, mss), got' = got,
           "acked" \in flags => conn.len > 0 /\ Len(got) = conn.acked + conn.len,
           k <= Len(Texts) /\ sout = SendBegins(k) => "acked" \notin flags
    PROVE  SendingInv'
<1> DEFINE run == psock_send(sout, flags, mss)
<1>1. /\ sout \in TypeOfSock /\ conn \in [mss : Nat, len : Nat, acked : Nat] /\ WireInv /\ GotInv
      /\ conn.acked = FirstByte(k) - 1 /\ Len(got) >= conn.acked
      /\ Len(got) \in Nat /\ conn.acked \in Nat /\ conn.len \in Nat
      /\ Len(Texts) \in Nat /\ FirstByte(k) \in Nat /\ k \in Nat
  BY FirstByteIs DEF SendingInv, TextInv, GotInv
<1>2. \A j \in 1 .. Len(Texts) : Texts[j] <= mss /\ Texts[j] \in Nat \ {0}
  BY FirstByteIs, PsockSendAssumption DEF MaySend
<1> DEFINE acked == IF "acked" \in flags THEN conn.acked + conn.len ELSE conn.acked
           free  == "acked" \in flags \/ conn.len = 0
           len   == IF free THEN Smaller(run.out.len, mss) ELSE conn.len
<1>3. /\ sout' = run.sock /\ conn' = [mss |-> mss, len |-> len, acked |-> acked]
      /\ wire' = IF run.out.len = 0 THEN wire ELSE wire \cup {Segment(run.out.ptr, len, acked)}
  BY DEF appcall
<1> HIDE DEF run
\* What is left to show: the state after the call, for the text it stands at.
<1>4. ASSUME NEW j \in 1 .. Len(Texts) + 1, acked = FirstByte(j) - 1, Len(got) >= acked,
             \/ sout' = SendBegins(j) /\ run.out = NoOut /\ len = 0 /\ (j = 1 \/ j > Len(Texts))
             \/ /\ j <= Len(Texts) /\ Standing(sout', j, "sent") /\ len = Texts[j]
                /\ run.out = NoOut \/ run.out.ptr = FirstByte(j)
      PROVE  SendingInv'
  <2> HIDE DEF len, acked
  <2>1. FirstByte(j) \in Nat /\ FirstByte(j) >= j /\ acked \in Nat
    BY <1>4, FirstByteIs
  <2>2. len \in Nat
    BY <1>2, <1>4
  <2>3. conn' \in [mss : Nat, len : Nat, acked : Nat] /\ conn'.mss = mss /\ conn'.len = len /\ conn'.acked = acked
    BY <1>3, <2>1, <2>2
  <2>4. sout' \in TypeOfSock
    <3>1. CASE sout' = SendBegins(j)
      <4>1. (IF j <= Len(Texts) THEN Texts[j] ELSE 0) \in Nat
        BY <1>1, <1>2
      <4> QED BY <2>1, <3>1, <4>1 DEF SendBegins, TypeOfSock
    <3>2. CASE Standing(sout', j, "sent")
      BY <3>2 DEF Standing
    <3> QED BY <1>4, <3>1, <3>2
  <2>5. WireInv'
    <3>1. CASE run.out.len = 0
      <4>1. wire' = wire
        BY <1>3, <3>1
      <4> QED BY <1>1, <4>1 DEF WireInv
    <3>2. CASE run.out.len # 0
      <4>1. run.out.ptr = FirstByte(j)
        BY <1>4, <3>2 DEF NoOut
      <4>2. FirstByte(j) = acked + 1
        BY <1>4, <2>1
      <4>3. wire' = wire \cup {Segment(run.out.ptr, len, acked)}
        BY <1>3, <3>2
      <4>4. InPlace(Segment(run.out.ptr, len, acked))
        BY <2>1, <2>2, <4>1, <4>2, SegmentIs
      <4> QED BY <1>1, <4>3, <4>4 DEF WireInv
    <3> QED BY <3>1, <3>2
  <2>6. GotInv'
    BY <1>1 DEF GotInv
  <2>7. TextInv(j)'
    <3>1. MaySend(conn'.mss)
      BY <2>3
    <3>2. \/ sout' = SendBegins(j) /\ conn'.len = 0 /\ (j = 1 \/ j > Len(Texts))
          \/ j <= Len(Texts) /\ Standing(sout', j, "sent") /\ conn'.len = Texts[j]
      BY <1>4, <2>3
    <3>3. conn'.acked = FirstByte(j) - 1 /\ Len(got') >= conn'.acked
      BY <1>4, <2>3
    <3> QED BY <3>1, <3>2, <3>3 DEF TextInv, SendBegins, Standing, MaySend
  <2> QED BY <2>3, <2>4, <2>5, <2>6, <2>7 DEF SendingInv
<1>5. CASE k > Len(Texts)
  <2>1. sout = SendBegins(k) /\ conn.len = 0 /\ "acked" \notin flags
    BY <1>1, <1>5 DEF TextInv
  <2>2. sout.text > Len(Texts)
    BY <1>5, <2>1 DEF SendBegins
  <2>3. run.sock = sout /\ run.out = NoOut
    BY <1>1, <2>2, SendsNothing DEF run
  <2>4. len = 0 /\ acked = conn.acked
    <3>1. Smaller(run.out.len, mss) = 0
      BY <2>3 DEF NoOut, Smaller
    <3> QED BY <2>1, <3>1
  <2> HIDE DEF len, acked
  <2> QED BY <1>1, <1>3, <1>4, <1>5, <2>1, <2>3, <2>4
<1>6. CASE k <= Len(Texts) /\ "acked" \notin flags
  <2>1. k \in 1 .. Len(Texts) /\ Texts[k] <= mss /\ Texts[k] \in Nat \ {0}
    BY <1>1, <1>2, <1>6
  <2>2. acked = FirstByte(k) - 1 /\ Len(got) >= acked
    BY <1>1, <1>6
  <2>3. CASE sout = SendBegins(k) /\ conn.len = 0
    <3>1. Standing(sout, k, "none")
      BY <1>1, <1>6, <2>3 DEF Standing, SendBegins
    <3>2. Standing(run.sock, k, "sent") /\ run.out = [ptr |-> FirstByte(k), len |-> Texts[k]]
      <4>1. ASSUME NEW state, Standing(sout, k, state), state # "sent"
            PROVE  Standing(run.sock, k, "sent") /\ run.out = [ptr |-> FirstByte(k), len |-> Texts[k]]
        BY <2>1, <4>1, SendsText DEF run
      <4> QED BY <3>1, <4>1
    <3>3. len = Texts[k]
      <4>1. run.out.len = Texts[k]
        BY <3>2
      <4> QED BY <2>1, <2>3, <4>1 DEF Smaller
    <3>4. run.out.ptr = FirstByte(k)
      BY <3>2
    <3> HIDE DEF len, acked
    <3> QED BY <1>1, <1>3, <1>4, <1>6, <2>2, <3>2, <3>3, <3>4
  <2>4. CASE Standing(sout, k, "sent") /\ conn.len = Texts[k]
    <3>1. /\ "rexmit" \in flags => Standing(run.sock, k, "sent") /\ run.out = [ptr |-> FirstByte(k), len |-> Texts[k]]
          /\ "rexmit" \notin flags => run.sock = sout /\ run.out = NoOut
      <4>1. ASSUME NEW state, Standing(sout, k, state), state = "sent"
            PROVE  /\ "rexmit" \in flags => Standing(run.sock, k, "sent") /\ run.out = [ptr |-> FirstByte(k), len |-> Texts[k]]
                   /\ "rexmit" \notin flags => run.sock = sout /\ run.out = NoOut
        BY <1>6, <2>1, <4>1, SendsText DEF run
      <4> QED BY <2>4, <4>1
    <3>2. Standing(run.sock, k, "sent") /\ (run.out = NoOut \/ run.out.ptr = FirstByte(k))
      BY <2>4, <3>1
    <3>3. len = Texts[k]
      BY <1>6, <2>1, <2>4
    <3> HIDE DEF len, acked
    <3> QED BY <1>1, <1>3, <1>4, <1>6, <2>2, <3>2, <3>3
  <2> QED BY <2>3, <2>4 DEF TextInv
<1>7. CASE k <= Len(Texts) /\ "acked" \in flags
  <2>1. k \in 1 .. Len(Texts)
    BY <1>1, <1>7
  <2>2. Standing(sout, k, "sent") /\ conn.len = Texts[k]
    BY <1>7 DEF TextInv
  <2>3. \E next \in 1 .. Len(Texts) + 1 : next = k + 1
    BY <1>1, <2>1
  <2>4. ASSUME NEW next \in 1 .. Len(Texts) + 1, next = k + 1 PROVE SendingInv'
    <3>1. FirstByte(next) = FirstByte(k) + Texts[k]
      BY <2>1, <2>4, FirstByteIs
    <3>2. acked = FirstByte(next) - 1 /\ Len(got) >= acked
      BY <1>1, <1>2, <1>7, <2>1, <2>2, <3>1
    <3>3. /\ next <= Len(Texts) => /\ Standing(run.sock, next, "sent")
                                   /\ run.out = [ptr |-> FirstByte(next), len |-> Texts[next]]
          /\ next > Len(Texts) => run.sock = SendBegins(next) /\ run.out = NoOut
      BY <1>2, <1>7, <2>1, <2>2, <2>4, SendsNext DEF run
    <3>4. CASE next <= Len(Texts)
      <4>1. Standing(run.sock, next, "sent") /\ run.out.ptr = FirstByte(next) /\ run.out.len = Texts[next]
        BY <3>3, <3>4
      <4>2. len = Texts[next]
        BY <1>2, <1>7, <3>4, <4>1 DEF Smaller
      <4> HIDE DEF len, acked
      <4> QED BY <1>3, <1>4, <3>2, <3>4, <4>1, <4>2
    <3>5. CASE next > Len(Texts)
      <4>1. run.sock = SendBegins(next) /\ run.out = NoOut
        BY <3>3, <3>5
      <4>2. len = 0
        BY <1>7, <4>1 DEF Smaller, NoOut
      <4> HIDE DEF len, acked
      <4> QED BY <1>3, <1>4, <3>2, <3>5, <4>1, <4>2
    <3> QED BY <1>1, <3>4, <3>5
  <2> QED BY <2>3, <2>4
<1> QED BY <1>1, <1>5, <1>6, <1>7

LEMMA SendingInit == SendInit => SendingInv
<1> SUFFICES ASSUME SendInit PROVE SendingInv
  OBVIOUS
<1>1. /\ sout = SendBegins(1) /\ conn = [mss |-> InitialMss, len |-> 0, acked |-> 0]
      /\ wire = {} /\ got = <<>>
  BY DEF SendInit
<1>2. Len(Texts) \in Nat /\ 1 \in 1 .. Len(Texts) + 1 /\ FirstByte(1) = 1 /\ InitialMss \in Nat
  BY FirstByteIs, PsockSendAssumption
<1>3. sout \in TypeOfSock
  <2>1. (IF 1 <= Len(Texts) THEN Texts[1] ELSE 0) \in Nat
    BY <1>2, FirstByteIs
  <2> QED BY <1>1, <1>2, <2>1 DEF SendBegins, TypeOfSock
<1>4. conn \in [mss : Nat, len : Nat, acked : Nat] /\ conn.len = 0 /\ conn.acked = 0
  BY <1>1, <1>2
<1>5. GotInv /\ Len(got) = 0
  BY <1>1 DEF GotInv
<1>6. TextInv(1)
  BY <1>1, <1>2, <1>4, <1>5 DEF TextInv
<1>7. WireInv
  BY <1>1 DEF WireInv
<1> QED BY <1>2, <1>3, <1>4, <1>5, <1>6, <1>7 DEF SendingInv

\* What the peer receives is the next piece, or nothing new.
LEMMA ReceivedKeeps ==
    ASSUME SendingInv, NEW s \in wire, Received(s)
    PROVE  SendingInv'
<1>1. /\ wire' = wire \ {s} /\ sout' = sout /\ conn' = conn
      /\ got' = IF s.seq = Len(got) THEN got \o s.bytes ELSE got
  BY DEF Received
<1>2. /\ got \in Seq(Nat) /\ Len(got) \in Nat /\ \A i \in 1 .. Len(got) : got[i] = i
      /\ s.bytes \in Seq(Nat) /\ Len(s.bytes) \in Nat /\ \A i \in 1 .. Len(s.bytes) : s.bytes[i] = s.seq + i
  BY DEF SendingInv, GotInv, WireInv, InPlace
<1>3. /\ got' \in Seq(Nat) /\ Len(got') \in Nat /\ Len(got') >= Len(got)
      /\ \A i \in 1 .. Len(got') : got'[i] = i
  <2>1. CASE s.seq = Len(got)
    <3> DEFINE more == got \o s.bytes
    <3>1. /\ more \in Seq(Nat) /\ Len(more) = Len(got) + Len(s.bytes)
          /\ \A i \in 1 .. Len(got) + Len(s.bytes) :
                more[i] = IF i <= Len(got) THEN got[i] ELSE s.bytes[i - Len(got)]
      BY <1>2, ConcatProperties
    <3>2. got' = more
      BY <1>1, <2>1
    <3> HIDE DEF more
    <3>3. ASSUME NEW i \in 1 .. Len(more) PROVE more[i] = i
      <4>1. CASE i <= Len(got)
        <5>1. i \in 1 .. Len(got) /\ i \in 1 .. Len(got) + Len(s.bytes)
          BY <1>2, <3>1, <4>1
        <5> QED BY <1>2, <3>1, <4>1, <5>1
      <4>2. CASE ~(i <= Len(got))
        <5>1. i - Len(got) \in 1 .. Len(s.bytes) /\ Len(got) + (i - Len(got)) = i
          BY <1>2, <3>1, <4>2
        <5>2. s.bytes[i - Len(got)] = i
          BY <1>2, <2>1, <5>1
        <5> QED BY <1>2, <3>1, <4>2, <5>2
      <4> QED BY <4>1, <4>2
    <3> QED BY <1>2, <3>1, <3>2, <3>3
  <2>2. CASE s.seq # Len(got)
    <3>1. got' = got
      BY <1>1, <2>2
    <3> QED BY <1>2, <3>1
  <2> QED BY <2>1, <2>2
<1>4. PICK k \in 1 .. Len(Texts) + 1 : TextInv(k)
  BY DEF SendingInv
<1>5. TextInv(k)'
  <2>1. conn.acked \in Nat
    BY DEF SendingInv
  <2> QED BY <1>1, <1>2, <1>3, <1>4, <2>1 DEF TextInv, Standing, SendBegins, MaySend
<1>6. WireInv' /\ GotInv'
  BY <1>1, <1>3 DEF SendingInv, WireInv, GotInv
<1> QED BY <1>1, <1>5, <1>6 DEF SendingInv

LEMMA MssIsNat == \A w \in Window : MssOf(w) \in Nat
  BY PsockSendAssumption DEF MssOf

LEMMA SendingNext ==
    ASSUME SendingInv, OneSegment, [SendNext]_sendVars
    PROVE  SendingInv'
<1>1. PICK k \in 1 .. Len(Texts) + 1 : TextInv(k)
  BY DEF SendingInv
<1>2. conn.mss \in Nat /\ conn.len \in Nat /\ k \in Nat /\ Len(Texts) \in Nat
  BY FirstByteIs DEF SendingInv
<1>3. CASE Connected
  <2>1. /\ sout = SendBegins(1) /\ MaySend(conn.mss) /\ appcall({"connected"}, conn.mss) /\ got' = got
        /\ "acked" \notin {"connected"}
    BY <1>3 DEF Connected
  <2> QED BY <1>1, <1>2, <2>1, CallKeeps
<1>4. CASE Rexmit
  <2>1. conn.len > 0 /\ appcall({"rexmit"}, conn.mss) /\ got' = got /\ "acked" \notin {"rexmit"}
    BY <1>4 DEF Rexmit
  <2>2. MaySend(conn.mss)
    BY <1>1, <1>2, <2>1 DEF TextInv
  <2> QED BY <1>1, <1>2, <2>1, <2>2, CallKeeps
<1>5. ASSUME NEW w \in Window, Acked(w) PROVE SendingInv'
  <2>1. /\ conn.len > 0 /\ Len(got) = conn.acked + conn.len /\ MaySend(MssOf(w))
        /\ appcall({"acked"}, MssOf(w)) /\ got' = got /\ MssOf(w) \in Nat
    BY <1>5, MssIsNat DEF Acked
  <2>2. ~(k <= Len(Texts) /\ sout = SendBegins(k))
    <3> SUFFICES ASSUME k <= Len(Texts), sout = SendBegins(k) PROVE FALSE
      OBVIOUS
    <3>1. sout.state = "none"
      BY DEF SendBegins
    <3>2. Standing(sout, k, "sent")
      BY <1>1, <1>2, <2>1 DEF TextInv
    <3> QED BY <3>1, <3>2 DEF Standing
  <2> QED BY <1>1, <2>1, <2>2, CallKeeps
<1>6. ASSUME NEW w \in Window, NEW data \in BOOLEAN, OtherSegment(w, data) PROVE SendingInv'
  <2>1. MaySend(MssOf(w)) /\ MssOf(w) \in Nat /\ got' = got
    BY <1>6, MssIsNat DEF OtherSegment
  <2>2. CASE data
    <3>1. appcall({"newdata"}, MssOf(w)) /\ "acked" \notin {"newdata"}
      BY <1>6, <2>2 DEF OtherSegment
    <3> QED BY <1>1, <2>1, <3>1, CallKeeps
  <2>3. CASE ~data
    <3>1. conn' = [conn EXCEPT !.mss = MssOf(w)] /\ sout' = sout /\ wire' = wire
      BY <1>6, <2>3 DEF OtherSegment
    <3>2. /\ conn' \in [mss : Nat, len : Nat, acked : Nat]
          /\ conn'.mss = MssOf(w) /\ conn'.len = conn.len /\ conn'.acked = conn.acked
      BY <2>1, <3>1 DEF SendingInv
    <3>3. TextInv(k)'
      <4>1. MaySend(conn'.mss)
        BY <2>1, <3>2
      <4> QED BY <1>1, <2>1, <3>1, <3>2, <4>1 DEF TextInv, Standing, SendBegins, MaySend
    <3>4. WireInv' /\ GotInv'
      BY <2>1, <3>1 DEF SendingInv, WireInv, GotInv
    <3> QED BY <3>1, <3>2, <3>3, <3>4 DEF SendingInv
  <2> QED BY <2>2, <2>3
<1>7. ASSUME NEW s \in wire, Received(s) PROVE SendingInv'
  BY <1>7, ReceivedKeeps
<1>8. ASSUME NEW s \in wire, Lose(s) PROVE SendingInv'
  <2>1. wire' = wire \ {s} /\ sout' = sout /\ conn' = conn /\ got' = got
    BY <1>8 DEF Lose
  <2> QED BY <1>1, <2>1 DEF SendingInv, WireInv, GotInv, TextInv, Standing, SendBegins, MaySend
<1>9. CASE UNCHANGED sendVars
  <2>1. wire' = wire /\ sout' = sout /\ conn' = conn /\ got' = got
    BY <1>9 DEF sendVars
  <2> QED BY <1>1, <2>1 DEF SendingInv, WireInv, GotInv, TextInv, Standing, SendBegins, MaySend
<1> QED BY <1>3, <1>4, <1>5, <1>6, <1>7, <1>8, <1>9 DEF SendNext

LEMMA SendingShows == SendingInv => TextsInOrder
<1> SUFFICES ASSUME SendingInv PROVE TextsInOrder
  OBVIOUS
<1>1. PICK k \in 1 .. Len(Texts) + 1 : TextInv(k)
  BY DEF SendingInv
<1>2. got \in Seq(Nat) /\ \A i \in 1 .. Len(got) : got[i] = i
  BY DEF SendingInv, GotInv
<1>3. got = [i \in 1 .. Len(got) |-> i]
  BY <1>2
<1>4. sout.text = k
  BY <1>1 DEF TextInv, SendBegins, Standing
<1>5. Len(got) >= FirstByte(sout.text) - 1
  BY <1>1, <1>4 DEF TextInv
<1> QED BY <1>3, <1>5 DEF TextsInOrder

\* PsockSend.TextsInOrder: while every text fits one segment, what arrives is the texts'
\* bytes in their order, and psock_send is done with a text only when all of it arrived.
THEOREM TextsAreInOrder == SendSpec => []TextsInOrder
<1>1. CASE OneSegment
  <2>1. SendInit => SendingInv
    BY SendingInit
  <2>2. SendingInv /\ [SendNext]_sendVars => SendingInv'
    BY <1>1, SendingNext
  <2>3. SendingInv => TextsInOrder
    BY SendingShows
  <2> QED BY <2>1, <2>2, <2>3, PTL DEF SendSpec
<1>2. CASE ~OneSegment
  <2>1. SendInit => TextsInOrder
    BY <1>2 DEF TextsInOrder
  <2>2. TextsInOrder /\ [SendNext]_sendVars => TextsInOrder'
    BY <1>2 DEF TextsInOrder
  <2> QED BY <2>1, <2>2, PTL DEF SendSpec
<1> QED BY <1>1, <1>2
=============================================================================
