--------------------------- MODULE IterateProofs ---------------------------
(***************************************************************************)
(* What is proved of a loop with any body: a module with a loop instances  *)
(* this one with the body of its own and reasons over the trace.           *)
(***************************************************************************)
EXTENDS Iterate, TLAPS, WellFoundedInduction

CONSTANT Keep(_, _)      \* what is shown of d, with what it is compared with

\* Counting up: a set with 0, and with the successor of each of its members, has 0 .. n.
LEMMA UpTo ==
  ASSUME NEW n \in Nat, NEW T, 0 \in T, \A i \in 0 .. (n - 1) : i \in T => i + 1 \in T
  PROVE  \A i \in 0 .. n : i \in T
<1> DEFINE S == {i \in 0 .. n : i \notin T}
<1>1. SUFFICES ASSUME S # {} PROVE FALSE
  OBVIOUS
<1>2. PICK x \in S : \A y \in S : ~(<<y, x>> \in OpToRel(<, Nat))
  BY <1>1, WFMin, NatLessThanWellFounded, S \subseteq Nat DEF OpToRel
<1>3. ASSUME NEW y \in S, y < x PROVE FALSE
  <2>1. <<y, x>> \in Nat \X Nat /\ <<y, x>>[1] < <<y, x>>[2]
    BY <1>3
  <2> QED  BY <1>2, <2>1 DEF OpToRel
<1>4. x # 0 /\ x - 1 \in 0 .. (n - 1) /\ (x - 1) + 1 = x
  OBVIOUS
<1> QED BY <1>3, <1>4

\* What a loop leaves is the last of a sequence of values, the first what it is
\* given and each of the others what the body makes of the one before: the loops of
\* email-core that delete, file or add row after row.
THEOREM Trace ==
  ASSUME NEW c, NEW d, NEW seq, Len(seq) \in Nat
  PROVE  \E after : /\ after[0] = d
                    /\ \A i \in 1 .. Len(seq) : after[i] = Step(c, after[i - 1], seq[i])
                    /\ Over(c, d, seq) = after[Len(seq)]
<1> DEFINE n == Len(seq)
           Is(g, k) == g = [i \in 0 .. k |-> IF i = 0 THEN d ELSE Step(c, g[i - 1], seq[i])]
           T == {k \in 0 .. n : \E g : Is(g, k)}
<1> n \in Nat
  OBVIOUS
<1> HIDE DEF n
<1>1. 0 \in T
  <2>1. Is([i \in 0 .. 0 |-> d], 0)
    OBVIOUS
  <2> HIDE DEF Is
  <2> QED  BY <2>1
<1>2. ASSUME NEW k \in 0 .. (n - 1), k \in T PROVE k + 1 \in T
  <2>1. PICK g : Is(g, k)
    BY <1>2
  <2> DEFINE h == [i \in 0 .. (k + 1) |-> IF i <= k THEN g[i] ELSE Step(c, g[k], seq[k + 1])]
  <2>2. Is(h, k + 1)
    <3>1. ASSUME NEW i \in 0 .. (k + 1)
          PROVE  h[i] = IF i = 0 THEN d ELSE Step(c, h[i - 1], seq[i])
      <4>1. CASE i = 0
        BY <2>1, <4>1
      <4>2. CASE i \in 1 .. k
        <5>1. h[i] = g[i] /\ h[i - 1] = g[i - 1] /\ g[i] = Step(c, g[i - 1], seq[i])
          BY <2>1, <4>2
        <5> QED  BY <4>2, <5>1
      <4>3. CASE i = k + 1
        <5>1. h[i] = Step(c, g[k], seq[k + 1]) /\ h[i - 1] = g[k] /\ i # 0
          BY <2>1, <4>3
        <5> QED  BY <4>3, <5>1
      <4> QED  BY <4>1, <4>2, <4>3
    <3> QED  BY <3>1
  <2> HIDE DEF Is
  <2> QED  BY <2>2
<1>3. n \in T
  <2> HIDE DEF T
  <2>1. \A i \in 0 .. (n - 1) : i \in T => i + 1 \in T
    BY <1>2
  <2>2. \A i \in 0 .. n : i \in T
    BY <1>1, <2>1, UpTo, Zenon
  <2> QED  BY <2>2
<1>4. PICK g : Is(g, n)
  BY <1>3
<1> DEFINE f == CHOOSE h : Is(h, n)
<1>5. Is(f, n)
  BY <1>4
<1>6. Over(c, d, seq) = f[n]
  BY DEF Over, n
<1> HIDE DEF f
<1>7. ASSUME NEW i \in 0 .. n PROVE f[i] = IF i = 0 THEN d ELSE Step(c, f[i - 1], seq[i])
  BY <1>5
<1>8. f[0] = d
  BY <1>7
<1>9. \A i \in 1 .. n : f[i] = Step(c, f[i - 1], seq[i])
  BY <1>7
<1> QED  BY <1>6, <1>8, <1>9 DEF n

\* What holds before a loop and is kept by its body holds after it.
THEOREM Kept ==
  ASSUME NEW p, NEW c, NEW d, NEW seq, Len(seq) \in Nat, Keep(p, d),
         \A i \in 1 .. Len(seq) : \A e : Keep(p, e) => Keep(p, Step(c, e, seq[i]))
  PROVE  Keep(p, Over(c, d, seq))
<1>1. PICK after : /\ after[0] = d
                   /\ \A i \in 1 .. Len(seq) : after[i] = Step(c, after[i - 1], seq[i])
                   /\ Over(c, d, seq) = after[Len(seq)]
  BY Trace
<1> DEFINE T == {i \in 0 .. Len(seq) : Keep(p, after[i])}
<1>2. 0 \in T
  BY <1>1
<1>3. ASSUME NEW i \in 0 .. (Len(seq) - 1), i \in T PROVE i + 1 \in T
  <2>1. i + 1 \in 1 .. Len(seq) /\ (i + 1) - 1 = i /\ Keep(p, after[i])
    BY <1>3
  <2>2. Keep(p, Step(c, after[i], seq[i + 1]))
    BY <2>1
  <2>3. after[i + 1] = Step(c, after[i], seq[i + 1])
    BY <1>1, <2>1
  <2> QED  BY <2>1, <2>2, <2>3
<1> HIDE DEF T
<1>4. \A i \in 0 .. Len(seq) : i \in T
  <2>1. \A i \in 0 .. (Len(seq) - 1) : i \in T => i + 1 \in T
    BY <1>3
  <2> QED  BY <1>2, <2>1, UpTo, Zenon
<1>5. Len(seq) \in T
  BY <1>4
<1> QED  BY <1>1, <1>5 DEF T
=============================================================================
