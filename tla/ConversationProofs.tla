------------------------- MODULE ConversationProofs -------------------------
(***************************************************************************)
(* What holds of Conversation for any limits and any number of prompts,    *)
(* replies, calls, crashes and undos.                                      *)
(***************************************************************************)
EXTENDS Conversation, FiniteSetTheorems, SequenceTheorems, WellFoundedInduction, TLAPS

(* Bounds of positions, used where a sequence is at hand.                   *)
LEMMA Within ==
    ASSUME NEW x \in Nat, NEW l \in Nat, NEW n \in Nat, x >= 1, x + l <= n + 1, NEW k \in 1 .. l
    PROVE  x + k - 1 \in 1 .. n
OBVIOUS

(* The same for two positions side by side.                                 *)
LEMMA BothWithin ==
    ASSUME NEW x \in Nat \ {0}, NEW n \in Nat, x + 2 - 1 <= n
    PROVE  x \in 1 .. n /\ x + 1 \in 1 .. n
OBVIOUS

(* A set of natural numbers that is not empty has a smallest element.       *)
LEMMA SmallestElement ==
    ASSUME NEW T, T \subseteq Nat, T # {}
    PROVE  \E x \in T : \A y \in T : x <= y
<1> DEFINE R == {ss \in Nat \X Nat : ss[1] < ss[2]}
<1>1. IsWellFoundedOn(R, Nat)
  BY NatLessThanWellFounded DEF OpToRel
<1>2. \A x, y \in Nat : <<y, x>> \in R <=> y < x
  OBVIOUS
<1> HIDE DEF R
<1>3. PICK x \in T : \A y \in T : ~ (<<y, x>> \in R)
  BY <1>1, WFMin
<1>4. \A y \in T : ~ (y < x)
  BY <1>2, <1>3
<1> QED BY <1>3, <1>4

Joined(s, t) == s \o t

Concats(f, seqs, n) == f = [i \in 1 .. n |-> IF i = 1 THEN seqs[i] ELSE Joined(f[i - 1], seqs[i])]

(* The concatenations of the first sequences, one after the other, exist    *)
(* ...                                                                      *)
LEMMA ConcatsExist ==
    ASSUME NEW seqs, NEW N \in Nat
    PROVE  \E f : Concats(f, seqs, N)
<1> DEFINE Bad == {n \in Nat : ~ \E f : Concats(f, seqs, n)}
<1> SUFFICES ASSUME Bad # {} PROVE FALSE
  OBVIOUS
<1>1. PICK n \in Bad : \A k \in Bad : n <= k
  BY SmallestElement
<1>2. n # 0
  <2> SUFFICES \E f : Concats(f, seqs, 0)
    BY <1>1
  <2>1. Concats([i \in 1 .. 0 |-> 0], seqs, 0)
    BY DEF Concats
  <2> QED BY <2>1
<1>3. n - 1 \in Nat /\ n - 1 \notin Bad
  BY <1>1, <1>2
<1>4. PICK f : Concats(f, seqs, n - 1)
  BY <1>3
<1> DEFINE g == [i \in 1 .. n |-> IF i = 1 THEN seqs[i] ELSE Joined(f[i - 1], seqs[i])]
<1>5. \A i \in 1 .. n - 1 : g[i] = f[i]
  <2> SUFFICES ASSUME NEW i \in 1 .. n - 1 PROVE g[i] = f[i]
    OBVIOUS
  <2>1. f[i] = IF i = 1 THEN seqs[i] ELSE Joined(f[i - 1], seqs[i])
    BY <1>4 DEF Concats
  <2>2. g[i] = IF i = 1 THEN seqs[i] ELSE Joined(f[i - 1], seqs[i])
    BY <1>3
  <2> QED BY <2>1, <2>2
<1>6. Concats(g, seqs, n)
  <2>1. \A i \in 1 .. n : i # 1 => i - 1 \in 1 .. n - 1
    BY <1>3
  <2>2. \A i \in 1 .. n : i # 1 => f[i - 1] = g[i - 1]
    BY <2>1, <1>5
  <2> HIDE DEF g
  <2>3. g = [i \in 1 .. n |-> IF i = 1 THEN seqs[i] ELSE Joined(g[i - 1], seqs[i])]
    BY <2>2 DEF g
  <2> QED BY <2>3 DEF Concats
<1> QED BY <1>1, <1>6

(* ... and FlattenSeq is the last of them.                                  *)
LEMMA FlattenIsConcats ==
    ASSUME NEW S, NEW seqs \in Seq(Seq(S)), Len(seqs) > 0
    PROVE  \E f : Concats(f, seqs, Len(seqs)) /\ FlattenSeq(seqs) = f[Len(seqs)]
<1> DEFINE f == CHOOSE f : Concats(f, seqs, Len(seqs))
<1>1. Concats(f, seqs, Len(seqs))
  <2>1. Len(seqs) \in Nat
    OBVIOUS
  <2>2. \E g : Concats(g, seqs, Len(seqs))
    BY <2>1, ConcatsExist
  <2> QED BY <2>2
<1>2. FlattenSeq(seqs) = f[Len(seqs)]
  BY DEF FlattenSeq, Concats, Joined
<1> QED BY <1>1, <1>2

Places(seqs, N, flat, start) ==
    /\ start \in [1 .. N + 1 -> Nat \ {0}]
    /\ start[1] = 1 /\ Len(flat) = start[N + 1] - 1
    /\ \A i \in 1 .. N :
         /\ start[i + 1] = start[i] + Len(seqs[i])
         /\ \A k \in 1 .. Len(seqs[i]) : flat[start[i] + k - 1] = seqs[i][k]
    /\ \A p \in 1 .. Len(flat) : \E i \in 1 .. N : start[i] <= p /\ p < start[i + 1]
    /\ \A i, j \in 1 .. N + 1 : i <= j => start[i] <= start[j]

(* Each sequence begins where those before it end: by induction, as the     *)
(* least number of sequences for which it fails.                            *)
LEMMA ConcatsPlaces ==
    ASSUME NEW S, NEW seqs, NEW N \in Nat \ {0}, \A i \in 1 .. N : seqs[i] \in Seq(S),
           NEW f, Concats(f, seqs, N)
    PROVE  f[N] \in Seq(S) /\ \E start : Places(seqs, N, f[N], start)
<1>0. N \in Nat /\ N > 0 /\ (\A i \in 1 .. N : seqs[i] \in Seq(S) /\ Len(seqs[i]) \in Nat) /\ Concats(f, seqs, N)
  OBVIOUS
<1> DEFINE start == [i \in 1 .. N + 1 |-> IF i = 1 THEN 1 ELSE Len(f[i - 1]) + 1]
           Good(n) == /\ f[n] \in Seq(S)
                      /\ \A i \in 1 .. n : /\ start[i] \in Nat \ {0}
                                           /\ start[i + 1] = start[i] + Len(seqs[i])
                                           /\ start[i + 1] <= Len(f[n]) + 1
                                           /\ \A k \in 1 .. Len(seqs[i]) : f[n][start[i] + k - 1] = seqs[i][k]
                      /\ \A p \in 1 .. Len(f[n]) : \E i \in 1 .. n : start[i] <= p /\ p < start[i + 1]
                      /\ \A i, j \in 1 .. n + 1 : i <= j => start[i] <= start[j]
           Bad == {n \in 1 .. N : ~ Good(n)}
<1>2. f[1] = seqs[1] /\ \A n \in 2 .. N : f[n] = Joined(f[n - 1], seqs[n])
  <2>1. \A n \in 1 .. N : f[n] = IF n = 1 THEN seqs[n] ELSE Joined(f[n - 1], seqs[n])
    BY <1>0 DEF Concats
  <2> QED BY <1>0, <2>1
<1>3. start[1] = 1 /\ \A n \in 1 .. N : start[n + 1] = Len(f[n]) + 1
  BY <1>0
<1>31. DOMAIN start = 1 .. N + 1
  BY <1>0
<1> HIDE DEF start
<1>4. Good(1)
  <2>1. PICK b : b = seqs[1] /\ b = f[1]
    BY <1>2
  <2>2. b \in Seq(S) /\ Len(b) \in Nat
    <3>1. 1 \in 1 .. N
      BY <1>0
    <3>2. seqs[1] \in Seq(S) /\ Len(seqs[1]) \in Nat
      BY <1>0, <3>1
    <3> QED BY <2>1, <3>2
  <2>3. start[1] = 1 /\ start[2] = Len(b) + 1
    BY <1>0, <1>3, <2>1
  <2>4. \A k \in 1 .. Len(b) : 1 + k - 1 = k
    BY <2>2
  <2>5. \A i \in 1 .. 1 : /\ start[i] \in Nat \ {0}
                          /\ start[i + 1] = start[i] + Len(seqs[i])
                          /\ start[i + 1] <= Len(b) + 1
                          /\ \A k \in 1 .. Len(seqs[i]) : b[start[i] + k - 1] = seqs[i][k]
    <3>1. \A i \in 1 .. 1 : i = 1 /\ i + 1 = 2
      OBVIOUS
    <3>2. /\ start[1] \in Nat \ {0} /\ start[2] = start[1] + Len(seqs[1]) /\ start[2] <= Len(b) + 1
      BY <2>1, <2>2, <2>3
    <3>3. \A k \in 1 .. Len(seqs[1]) : b[start[1] + k - 1] = seqs[1][k]
      BY <2>1, <2>3, <2>4
    <3> QED BY <3>1, <3>2, <3>3
  <2>6. \A p \in 1 .. Len(b) : \E i \in 1 .. 1 : start[i] <= p /\ p < start[i + 1]
    BY <2>2, <2>3
  <2>7. \A i, j \in 1 .. 2 : i <= j => start[i] <= start[j]
    BY <2>2, <2>3
  <2>8. f[1] \in Seq(S) /\ Len(f[1]) = Len(b) /\ 1 + 1 = 2
    BY <2>1, <2>2
  <2> QED BY <2>1, <2>5, <2>6, <2>7, <2>8
<1>5. ASSUME NEW n \in 2 .. N, Good(n - 1) PROVE Good(n)
  <2>1. /\ f[n - 1] \in Seq(S) /\ seqs[n] \in Seq(S) /\ f[n] = Joined(f[n - 1], seqs[n])
        /\ start[n] = Len(f[n - 1]) + 1 /\ start[n + 1] = Len(f[n]) + 1
        /\ n - 1 \in 1 .. N /\ n \in 1 .. N
    BY <1>0, <1>2, <1>3, <1>5
  <2>2. PICK a, b, c : a = f[n - 1] /\ b = seqs[n] /\ c = f[n]
    OBVIOUS
  <2>3. /\ c \in Seq(S) /\ Len(c) = Len(a) + Len(b)
        /\ Len(a) \in Nat /\ Len(b) \in Nat
        /\ \A p \in 1 .. Len(a) : c[p] = a[p]
        /\ \A k \in 1 .. Len(b) : c[Len(a) + k] = b[k]
    <3>1. a \in Seq(S) /\ b \in Seq(S) /\ c = Joined(a, b)
      BY <2>1, <2>2
    <3>2. /\ Joined(a, b) \in Seq(S) /\ Len(Joined(a, b)) = Len(a) + Len(b)
          /\ Len(a) \in Nat /\ Len(b) \in Nat
          /\ \A p \in 1 .. Len(a) : Joined(a, b)[p] = a[p]
          /\ \A k \in 1 .. Len(b) : Joined(a, b)[Len(a) + k] = b[k]
      BY <3>1 DEF Joined
    <3> QED BY <3>1, <3>2
  <2>4. /\ \A i \in 1 .. n - 1 :
              /\ start[i] \in Nat \ {0} /\ start[i + 1] = start[i] + Len(seqs[i])
              /\ start[i + 1] <= Len(a) + 1
              /\ \A k \in 1 .. Len(seqs[i]) : a[start[i] + k - 1] = seqs[i][k]
        /\ \A p \in 1 .. Len(a) : \E i \in 1 .. n - 1 : start[i] <= p /\ p < start[i + 1]
        /\ \A i, j \in 1 .. n : i <= j => start[i] <= start[j]
    <3>1. (n - 1) + 1 = n
      BY <2>1
    <3> QED BY <1>5, <2>2, <3>1
  <2>5. start[n] = Len(a) + 1 /\ start[n + 1] = Len(c) + 1 /\ Len(seqs[n]) = Len(b)
    BY <2>1, <2>2
  <2>6. ASSUME NEW i \in 1 .. n
        PROVE  /\ start[i] \in Nat \ {0}
               /\ start[i + 1] = start[i] + Len(seqs[i])
               /\ start[i + 1] <= Len(c) + 1
               /\ \A k \in 1 .. Len(seqs[i]) : c[start[i] + k - 1] = seqs[i][k]
    <3>1. CASE i = n
      <4>1. \A k \in 1 .. Len(b) : start[n] + k - 1 = Len(a) + k
        BY <2>3, <2>5
      <4>2. start[n] \in Nat \ {0} /\ start[n + 1] = start[n] + Len(b) /\ start[n + 1] <= Len(c) + 1
        BY <2>3, <2>5
      <4>3. \A k \in 1 .. Len(b) : c[start[n] + k - 1] = b[k]
        BY <2>3, <4>1
      <4> QED BY <2>2, <2>5, <3>1, <4>2, <4>3
    <3>2. CASE i # n
      <4>1. i \in 1 .. n - 1 /\ Len(seqs[i]) \in Nat
        BY <1>0, <2>1, <3>2
      <4>2. \A k \in 1 .. Len(seqs[i]) : start[i] + k - 1 \in 1 .. Len(a)
        <5>1. /\ start[i] \in Nat \ {0} /\ start[i + 1] = start[i] + Len(seqs[i])
              /\ start[i + 1] <= Len(a) + 1
          BY <2>4, <4>1
        <5>2. Len(a) \in Nat /\ Len(seqs[i]) \in Nat
          BY <2>3, <4>1
        <5>3. PICK l, x \in Nat : l = Len(seqs[i]) /\ x = start[i]
          BY <5>1, <5>2
        <5>4. ASSUME NEW k \in 1 .. l PROVE x + k - 1 \in 1 .. Len(a)
          <6>1. x >= 1 /\ x + l <= Len(a) + 1
            BY <5>1, <5>3
          <6> QED BY <5>2, <5>3, <6>1, Within, Zenon
        <5> QED BY <5>3, <5>4
      <4>3. \A k \in 1 .. Len(seqs[i]) : c[start[i] + k - 1] = seqs[i][k]
        BY <2>3, <2>4, <4>1, <4>2
      <4> QED BY <2>3, <2>4, <4>1, <4>3
    <3> QED BY <3>1, <3>2
  <2>7. ASSUME NEW p \in 1 .. Len(c) PROVE \E i \in 1 .. n : start[i] <= p /\ p < start[i + 1]
    <3>1. CASE p <= Len(a)
      <4>1. PICK i \in 1 .. n - 1 : start[i] <= p /\ p < start[i + 1]
        BY <2>3, <2>4, <3>1
      <4> QED BY <2>1, <4>1
    <3>2. CASE p > Len(a)
      <4>1. start[n] <= p /\ p < start[n + 1]
        BY <2>3, <2>5, <3>2
      <4> QED BY <2>1, <4>1
    <3> QED BY <2>3, <3>1, <3>2
  <2>8. ASSUME NEW i \in 1 .. n + 1, NEW j \in 1 .. n + 1, i <= j PROVE start[i] <= start[j]
    <3>1. CASE j <= n
      BY <2>1, <2>4, <2>8, <3>1
    <3>2. CASE j = n + 1 /\ i <= n
      <4>1. start[i] <= start[n] /\ start[i] \in Nat
        BY <2>1, <2>4, <2>6, <3>2
      <4>2. start[n] <= start[n + 1] /\ start[n] \in Nat /\ start[n + 1] \in Nat
        BY <2>3, <2>5
      <4> QED BY <3>2, <4>1, <4>2
    <3>3. CASE i = n + 1 /\ j = n + 1
      BY <2>3, <2>5, <3>3
    <3> QED BY <2>1, <2>8, <3>1, <3>2, <3>3
  <2> QED BY <2>2, <2>3, <2>6, <2>7, <2>8
<1> HIDE DEF Good
<1>6. Bad = {}
  <2> SUFFICES ASSUME Bad # {} PROVE FALSE
    OBVIOUS
  <2>1. Bad \subseteq Nat
    BY <1>0
  <2>2. PICK n \in Bad : \A k \in Bad : n <= k
    BY <2>1, SmallestElement
  <2>3. n # 1
    BY <1>4, <2>2
  <2>4. n - 1 \in 1 .. N /\ n - 1 \notin Bad /\ n \in 2 .. N
    BY <1>0, <2>2, <2>3
  <2>5. Good(n - 1)
    BY <2>4
  <2> QED BY <1>5, <2>2, <2>4, <2>5
<1>7. Good(N)
  BY <1>0, <1>6
<1>8. start[N + 1] = Len(f[N]) + 1
  BY <1>0, <1>3
<1>9. start \in [1 .. N + 1 -> Nat \ {0}]
  <2>1. f[N] \in Seq(S) /\ \A i \in 1 .. N : start[i] \in Nat \ {0}
    BY <1>7 DEF Good
  <2>2. start[N + 1] \in Nat \ {0}
    BY <1>8, <2>1
  <2>3. \A i \in 1 .. N + 1 : start[i] \in Nat \ {0}
    BY <1>0, <2>1, <2>2
  <2> QED BY <1>0, <1>31, <2>3 DEF start
<1>10. Places(seqs, N, f[N], start)
  BY <1>0, <1>3, <1>7, <1>8, <1>9 DEF Places, Good
<1> QED BY <1>7, <1>10 DEF Good

(* Where FlattenSeq puts the elements of each sequence.                     *)
LEMMA FlattenPlaces ==
    ASSUME NEW S, NEW seqs \in Seq(Seq(S))
    PROVE  /\ FlattenSeq(seqs) \in Seq(S)
           /\ \E start : Places(seqs, Len(seqs), FlattenSeq(seqs), start)
<1>0. Len(seqs) \in Nat /\ \A i \in 1 .. Len(seqs) : seqs[i] \in Seq(S)
  OBVIOUS
<1>1. CASE Len(seqs) = 0
  <2>1. FlattenSeq(seqs) = seqs /\ seqs = <<>>
    BY <1>1 DEF FlattenSeq
  <2>2. Places(seqs, 0, seqs, [i \in 1 .. 1 |-> 1])
    BY <1>1 DEF Places
  <2> QED BY <1>1, <2>1, <2>2
<1>2. CASE Len(seqs) > 0
  <2>1. PICK f : Concats(f, seqs, Len(seqs)) /\ FlattenSeq(seqs) = f[Len(seqs)]
    BY <1>2, FlattenIsConcats
  <2> QED BY <1>0, <1>2, <2>1, ConcatsPlaces
<1> QED BY <1>0, <1>1, <1>2

-----------------------------------------------------------------------------
(* Parts of sequences.                                                     *)

(* What a sequence is without its first k elements ...                      *)
LEMMA SuffixFacts ==
    ASSUME NEW S, NEW s \in Seq(S), NEW k \in 0 .. Len(s)
    PROVE  /\ SubSeq(s, k + 1, Len(s)) \in Seq(S)
           /\ Len(SubSeq(s, k + 1, Len(s))) = Len(s) - k
           /\ \A i \in 1 .. Len(s) - k : SubSeq(s, k + 1, Len(s))[i] = s[k + i]
<1>1. Len(s) \in Nat
  OBVIOUS
<1>2. k + 1 \in 1 .. Len(s) + 1 /\ Len(s) \in (k + 1) - 1 .. Len(s)
  BY <1>1
<1>3. /\ SubSeq(s, k + 1, Len(s)) \in Seq(S)
      /\ Len(SubSeq(s, k + 1, Len(s))) = Len(s) - (k + 1) + 1
      /\ \A i \in 1 .. Len(s) - (k + 1) + 1 : SubSeq(s, k + 1, Len(s))[i] = s[(k + 1) + i - 1]
  BY <1>2, SubSeqProperties
<1>4. Len(s) - (k + 1) + 1 = Len(s) - k /\ \A i \in 1 .. Len(s) - k : (k + 1) + i - 1 = k + i
  BY <1>1
<1> QED BY <1>3, <1>4

(* ... and what its first k elements are.                                   *)
LEMMA PrefixFacts ==
    ASSUME NEW S, NEW s \in Seq(S), NEW k \in 0 .. Len(s)
    PROVE  /\ SubSeq(s, 1, k) \in Seq(S)
           /\ Len(SubSeq(s, 1, k)) = k
           /\ \A i \in 1 .. k : SubSeq(s, 1, k)[i] = s[i]
<1>1. Len(s) \in Nat
  OBVIOUS
<1>2. 1 \in 1 .. Len(s) + 1 /\ k \in 1 - 1 .. Len(s)
  BY <1>1
<1>3. /\ SubSeq(s, 1, k) \in Seq(S)
      /\ Len(SubSeq(s, 1, k)) = k - 1 + 1
      /\ \A i \in 1 .. k - 1 + 1 : SubSeq(s, 1, k)[i] = s[1 + i - 1]
  BY <1>2, SubSeqProperties
<1> QED BY <1>1, <1>3

(* keep_from_preserving_tool_pairs finds a place that splits no pair.      *)
LEMMA KeepFromFacts ==
    ASSUME NEW h, NEW base \in Nat
    PROVE  KeepFrom(h, base) \in 0 .. base /\ ~ SplitsPair(h, KeepFrom(h, base))
<1> DEFINE K == {k \in 0 .. base : ~ SplitsPair(h, k)}
           U == {base - k : k \in K}
<1>1. 0 \in K
  BY DEF SplitsPair
<1>2. U \subseteq Nat /\ U # {}
  BY <1>1
<1>3. PICK u \in U : \A v \in U : u <= v
  <2> HIDE DEF U
  <2> QED BY <1>2, SmallestElement
<1>4. PICK x \in K : u = base - x
  BY <1>3
<1>5. ASSUME NEW y \in K PROVE x >= y
  <2>1. base - y \in U /\ y \in 0 .. base
    OBVIOUS
  <2>2. u <= base - y
    BY <1>3, <2>1
  <2>3. x \in 0 .. base
    OBVIOUS
  <2> QED BY <1>4, <2>1, <2>2, <2>3
<1>6. Max(K) \in K
  <2> HIDE DEF K
  <2> QED BY <1>4, <1>5 DEF Max
<1> QED BY <1>6 DEF KeepFrom

-----------------------------------------------------------------------------
(* Types.                                                                  *)

SpentOK ==
    spent \in [prompts : 0 .. MaxPrompts, replies : 0 .. MaxReplies, calls : 0 .. MaxCalls,
               notes : 0 .. MaxNotes, restarts : 0 .. MaxRestarts, undos : 0 .. MaxUndos]

Cuts == Nat \ {0, 1}
Disk == [history : Seq(Message), cut : Cuts, summary : BOOLEAN, item : BOOLEAN]

TypeInv ==
    /\ TypeOK /\ SpentOK /\ saved \in Disk
    /\ at = "tools" => history # <<>>

(* What Spend does to the bounds: each grows by what it is given, and none  *)
(* passes its limit.                                                        *)
LEMMA SpendFacts ==
    ASSUME SpentOK, NEW used, \A b \in DOMAIN used : used[b] \in Nat, Spend(used)
    PROVE  /\ SpentOK'
           /\ \A b \in {"prompts", "replies", "calls", "notes", "restarts", "undos"} :
                 spent'[b] = spent[b] + IF b \in DOMAIN used THEN used[b] ELSE 0
<1> DEFINE B == {"prompts", "replies", "calls", "notes", "restarts", "undos"}
           total == [b \in DOMAIN spent |-> spent[b] + IF b \in DOMAIN used THEN used[b] ELSE 0]
<1>1. DOMAIN spent = B
  BY DEF SpentOK
<1>2. spent' = total /\ \A b \in DOMAIN spent : total[b] <= Limit[b]
  BY DEF Spend
<1>3. \A b \in B : spent'[b] = spent[b] + IF b \in DOMAIN used THEN used[b] ELSE 0
  BY <1>1, <1>2
<1>4. \A b \in B : spent[b] \in Nat
  BY DEF SpentOK
<1>5. \A b \in B : spent'[b] \in Nat /\ spent'[b] <= Limit[b]
  BY <1>1, <1>2, <1>3, <1>4
<1>6. /\ Limit["prompts"] = MaxPrompts /\ Limit["replies"] = MaxReplies /\ Limit["calls"] = MaxCalls
      /\ Limit["notes"] = MaxNotes /\ Limit["restarts"] = MaxRestarts /\ Limit["undos"] = MaxUndos
  BY DEF Limit
<1>7. DOMAIN spent' = B /\ spent' = [b \in B |-> spent'[b]]
  BY <1>1, <1>2
<1>8. SpentOK'
  <2>1. \A b \in B : spent'[b] \in 0 .. Limit[b]
    <3>1. \A b \in B : Limit[b] \in Nat
      BY <1>6, ConversationBounds
    <3> QED BY <1>5, <3>1
  <2> QED BY <1>6, <1>7, <2>1 DEF SpentOK
<1> QED BY <1>3, <1>8

-----------------------------------------------------------------------------
(* Messages with something put after some of them.                         *)

Spaced(blocks, N, flat, start) ==
    /\ start \in [1 .. N + 1 -> Nat \ {0}]
    /\ start[1] = 1 /\ Len(flat) = start[N + 1] - 1
    /\ \A i \in 1 .. N :
         /\ start[i + 1] = start[i] + Len(blocks[i]) /\ start[i + 1] - 1 <= Len(flat)
         /\ flat[start[i]] = blocks[i][1]
         /\ Len(blocks[i]) = 2 => flat[start[i] + 1] = blocks[i][2]
    /\ \A p \in 1 .. Len(flat) : \E i \in 1 .. N :
         p = start[i] \/ (Len(blocks[i]) = 2 /\ p = start[i] + 1)
    /\ \A i, j \in 1 .. N + 1 : i <= j => start[i] <= start[j]

(* FlattenSeq of blocks of one or two elements.                             *)
LEMMA FlattenSpaced ==
    ASSUME NEW S, NEW N \in Nat, NEW blocks \in Seq(Seq(S)), Len(blocks) = N,
           \A i \in 1 .. N : Len(blocks[i]) \in {1, 2}
    PROVE  /\ FlattenSeq(blocks) \in Seq(S)
           /\ \E start : Spaced(blocks, N, FlattenSeq(blocks), start)
<1>1. FlattenSeq(blocks) \in Seq(S)
  BY FlattenPlaces
<1>2. PICK start, flat : flat = FlattenSeq(blocks) /\ Places(blocks, N, flat, start)
  BY FlattenPlaces
<1>3. \A i \in 1 .. N : Len(blocks[i]) \in {1, 2}
  OBVIOUS
<1>4. \A i \in 1 .. N + 1 : start[i] \in Nat \ {0}
  BY <1>2 DEF Places
<1>5. ASSUME NEW i \in 1 .. N
      PROVE  /\ start[i + 1] = start[i] + Len(blocks[i]) /\ start[i + 1] - 1 <= Len(flat)
             /\ flat[start[i]] = blocks[i][1]
             /\ Len(blocks[i]) = 2 => flat[start[i] + 1] = blocks[i][2]
  <2>1. /\ start[i + 1] = start[i] + Len(blocks[i])
        /\ \A k \in 1 .. Len(blocks[i]) : flat[start[i] + k - 1] = blocks[i][k]
    BY <1>2 DEF Places
  <2>2. start[i] \in Nat \ {0} /\ Len(blocks[i]) \in {1, 2}
    BY <1>3, <1>4
  <2>3. flat[start[i] + 1 - 1] = blocks[i][1] /\ start[i] + 1 - 1 = start[i]
    <3>1. 1 \in 1 .. Len(blocks[i]) /\ start[i] + 1 - 1 = start[i]
      <4>1. \A x \in Nat : x + 1 - 1 = x
        OBVIOUS
      <4>2. 1 \in 1 .. 1 /\ 1 \in 1 .. 2
        OBVIOUS
      <4>3. start[i] \in Nat
        BY <2>2
      <4>4. Len(blocks[i]) = 1 \/ Len(blocks[i]) = 2
        BY <2>2
      <4>5. 1 \in 1 .. Len(blocks[i])
        BY <4>2, <4>4
      <4> QED BY <4>1, <4>3, <4>5, Zenon
    <3> QED BY <2>1, <3>1, Zenon
  <2>4. Len(blocks[i]) = 2 => flat[start[i] + 2 - 1] = blocks[i][2] /\ start[i] + 2 - 1 = start[i] + 1
    BY <2>1, <2>2
  <2>5. start[i + 1] <= start[N + 1] /\ Len(flat) = start[N + 1] - 1
    BY <1>2 DEF Places
  <2>6. start[i + 1] \in Nat /\ start[N + 1] \in Nat
    BY <1>4
  <2>7. start[i + 1] - 1 <= Len(flat)
    BY <2>5, <2>6
  <2>8. flat[start[i]] = blocks[i][1] /\ (Len(blocks[i]) = 2 => flat[start[i] + 1] = blocks[i][2])
    BY <2>3, <2>4
  <2> QED BY <2>1, <2>7, <2>8
<1>6. ASSUME NEW p \in 1 .. Len(flat)
      PROVE  \E i \in 1 .. N : p = start[i] \/ (Len(blocks[i]) = 2 /\ p = start[i] + 1)
  <2>1. PICK i \in 1 .. N : start[i] <= p /\ p < start[i + 1]
    BY <1>2 DEF Places
  <2>2. Len(flat) \in Nat
    BY <1>1, <1>2
  <2>3. start[i] \in Nat /\ Len(blocks[i]) \in {1, 2} /\ start[i + 1] = start[i] + Len(blocks[i]) /\ p \in Nat
    BY <1>3, <1>4, <1>5, <2>2
  <2>4. p = start[i] \/ (Len(blocks[i]) = 2 /\ p = start[i] + 1)
    <3>1. PICK x, l : x = start[i] /\ l = Len(blocks[i])
      OBVIOUS
    <3>2. x \in Nat /\ p \in Nat /\ l \in {1, 2} /\ x <= p /\ p < x + l
      BY <2>1, <2>3, <3>1
    <3>3. p = x \/ (l = 2 /\ p = x + 1)
      BY <3>2
    <3> QED BY <3>1, <3>3
  <2> QED BY <2>4
<1>7. Spaced(blocks, N, flat, start)
  BY <1>2, <1>5, <1>6 DEF Places, Spaced
<1> QED BY <1>1, <1>2, <1>7

(* What the loop puts into the history are messages.                        *)
LEMMA MessageFacts ==
    /\ \A n \in 0 .. MaxPrompts : Prompt(n) \in Message
    /\ Note \in Message /\ Summary \in Message
    /\ \A c \in SUBSET CallId :
         /\ Reply(c) \in Message /\ Results(c) \in Message
         /\ Failed(c) \in Message /\ Closing(c) \in Message
<1>1. 0 \in 0 .. MaxPrompts
  BY ConversationBounds
<1> QED BY <1>1 DEF Message, Prompt, Note, Summary, Reply, Results, Failed, Closing

(* The message at each place, and what close_dangling_tool_calls puts      *)
(* after it.                                                               *)
Open(h, i) == h[i].calls \ AnsweredAfter(h, i)
Closings(h) == [i \in 1 .. Len(h) |->
                  IF Open(h, i) = {} THEN <<h[i]>> ELSE <<h[i], Closing(Open(h, i))>>]

(* close_dangling_tool_calls keeps every message, in order, with at most    *)
(* one more after each.                                                     *)
LEMMA CloseDanglingSpaced ==
    ASSUME NEW h \in Seq(Message)
    PROVE  /\ CloseDangling(h) \in Seq(Message)
           /\ \E start : Spaced(Closings(h), Len(h), CloseDangling(h), start)
<1>1. \A i \in 1 .. Len(h) : h[i] \in Message /\ Closing(Open(h, i)) \in Message
  <2>1. \A i \in 1 .. Len(h) : h[i] \in Message /\ Open(h, i) \in SUBSET CallId
    <3>1. \A i \in 1 .. Len(h) : h[i] \in Message
      OBVIOUS
    <3>2. \A i \in 1 .. Len(h) : h[i].calls \in SUBSET CallId
      BY <3>1 DEF Message
    <3> QED BY <3>1, <3>2 DEF Open
  <2> QED BY <2>1, MessageFacts
<1>2. Closings(h) \in Seq(Seq(Message)) /\ Len(Closings(h)) = Len(h)
  BY <1>1 DEF Closings
<1>3. \A i \in 1 .. Len(h) : Len(Closings(h)[i]) \in {1, 2}
  BY DEF Closings
<1>4. CloseDangling(h) = FlattenSeq(Closings(h))
  BY DEF CloseDangling, Closings, Open
<1>5. Len(h) \in Nat
  OBVIOUS
<1> HIDE DEF Closings
<1> QED BY <1>2, <1>3, <1>4, <1>5, FlattenSpaced

(* ... and what ensure_tool_results_follow_tool_use makes of it.           *)
Answers(s, i) == i > 1 /\ s[i - 1].calls # {} /\ IsUser(s[i])
Missing(s, i) == /\ s[i].calls # {}
                 /\ i = Len(s) \/ ~IsUser(s[i + 1])
                 /\ s[i].calls \cap AnsweredAfter(s, i) = {}
Fixed(s, i) == IF Answers(s, i) THEN [s[i] EXCEPT !.results = s[i - 1].calls] ELSE s[i]
Repairs(s) == [i \in 1 .. Len(s) |->
                 IF Missing(s, i) THEN <<Fixed(s, i), Closing(s[i].calls)>> ELSE <<Fixed(s, i)>>]

(* ensure_tool_results_follow_tool_use keeps every message too, with at     *)
(* most one more after each.                                                *)
LEMMA RepairSpaced ==
    ASSUME NEW s \in Seq(Message)
    PROVE  /\ Repair(s) \in Seq(Message)
           /\ \E start : Spaced(Repairs(s), Len(s), Repair(s), start)
<1>1. ASSUME NEW i \in 1 .. Len(s) PROVE Fixed(s, i) \in Message /\ Closing(s[i].calls) \in Message
  <2>1. s[i] \in Message /\ (i > 1 => s[i - 1] \in Message)
    OBVIOUS
  <2>2. s[i].calls \in SUBSET CallId /\ (i > 1 => s[i - 1].calls \in SUBSET CallId)
    BY <2>1 DEF Message
  <2>3. Fixed(s, i) \in Message
    BY <2>1, <2>2 DEF Fixed, Answers, Message
  <2> QED BY <2>2, <2>3, MessageFacts
<1>2. Repairs(s) \in Seq(Seq(Message)) /\ Len(Repairs(s)) = Len(s)
  BY <1>1 DEF Repairs
<1>3. \A i \in 1 .. Len(s) : Len(Repairs(s)[i]) \in {1, 2}
  BY DEF Repairs
<1>4. Repair(s) = FlattenSeq(Repairs(s))
  BY DEF Repair, Repairs, Fixed, Missing, Answers
<1>5. Len(s) \in Nat
  OBVIOUS
<1> HIDE DEF Repairs
<1> QED BY <1>2, <1>3, <1>4, <1>5, FlattenSpaced

-----------------------------------------------------------------------------
(* The hidden range.                                                       *)

(* The maximum of two numbers.                                              *)
LEMMA MaxOfTwo ==
    ASSUME NEW a \in Int, NEW b \in Int
    PROVE  Max({a, b}) \in {a, b} /\ Max({a, b}) >= a /\ Max({a, b}) >= b
<1>1. \E x \in {a, b} : \A y \in {a, b} : x >= y
  BY a >= b \/ b >= a
<1> QED BY <1>1 DEF Max

Keeps == {"half", "lastQuarter", "lastTwo"}

(* How much get_next_truncation_range removes, of at least four visible     *)
(* messages and of fewer.                                                   *)
LEMMA ToRemoveFacts ==
    ASSUME NEW n \in Nat, NEW keep \in Keeps
    PROVE  /\ ToRemove(n, keep) \in Nat
           /\ n >= 4 => ToRemove(n, keep) >= 2
<1>1. CASE keep = "half"
  <2>1. n \div 4 \in Nat /\ (n >= 4 => n \div 4 >= 1)
    OBVIOUS
  <2> QED BY <1>1, <2>1 DEF ToRemove
<1>2. CASE keep = "lastQuarter"
  <2>1. n * 3 \in Nat /\ (n >= 4 => n * 3 >= 12)
    OBVIOUS
  <2>2. (n * 3) \div 4 \in Nat /\ (n >= 4 => (n * 3) \div 4 >= 3)
    <3>1. \A x \in Nat : x \div 4 \in Nat /\ (x >= 12 => x \div 4 >= 3)
      OBVIOUS
    <3> QED BY <2>1, <3>1
  <2>3. ((n * 3) \div 4) \div 2 \in Nat /\ (n >= 4 => ((n * 3) \div 4) \div 2 >= 1)
    <3>1. \A x \in Nat : x \div 2 \in Nat /\ (x >= 3 => x \div 2 >= 1)
      OBVIOUS
    <3> QED BY <2>2, <3>1
  <2> QED BY <1>2, <2>3 DEF ToRemove
<1>3. CASE keep = "lastTwo"
  BY <1>3 DEF ToRemove
<1> QED BY <1>1, <1>2, <1>3 DEF Keeps

(* The cut never falls below 3, and moves when four messages are visible    *)
(* after it.                                                                *)
LEMMA NextCutFacts ==
    ASSUME NEW h \in Seq(Message), NEW from \in Cuts, NEW keep \in Keeps
    PROVE  /\ NextCut(h, from, keep) \in Cuts
           /\ Len(h) - from >= 4 => NextCut(h, from, keep) > from
<1> DEFINE visible == IF Len(h) > from THEN Len(h) - from ELSE 0
           remove  == ToRemove(visible, keep)
           end     == IF remove = 0 THEN Max({from, 3}) ELSE from + remove
           last    == IF end <= Len(h) /\ ~IsAssistant(h[end]) THEN end - 1 ELSE end
<1>1. Len(h) \in Nat /\ from \in Nat /\ from >= 2
  BY DEF Cuts
<1>2. visible \in Nat
  BY <1>1
<1>3. remove \in Nat /\ (visible >= 4 => remove >= 2)
  <2> HIDE DEF visible
  <2> QED BY <1>2, ToRemoveFacts
<1>4. Max({from, 3}) \in Nat
  <2>1. from \in Int /\ 3 \in Int
    BY <1>1
  <2>2. Max({from, 3}) \in {from, 3}
    BY <2>1, MaxOfTwo, Zenon
  <2> QED BY <1>1, <2>2
<1> HIDE DEF remove
<1>5. end \in Nat /\ (remove >= 2 => end >= from + 2)
  BY <1>1, <1>3, <1>4
<1> HIDE DEF end
<1>6. last \in Int /\ (remove >= 2 => last >= from + 1)
  BY <1>1, <1>5
<1>7. NextCut(h, from, keep) = Max({3, last})
  BY DEF NextCut, last, end, remove, visible
<1> HIDE DEF last
<1>8. Max({3, last}) \in Int /\ Max({3, last}) >= 3 /\ Max({3, last}) >= last
  <2>1. last \in Int /\ 3 \in Int
    BY <1>6
  <2>2. Max({3, last}) \in {3, last} /\ Max({3, last}) >= 3 /\ Max({3, last}) >= last
    BY <2>1, MaxOfTwo, Zenon
  <2> QED BY <2>1, <2>2
<1>9. Len(h) - from >= 4 => visible >= 4
  BY <1>1
<1> HIDE DEF visible
<1> QED BY <1>1, <1>3, <1>6, <1>7, <1>8, <1>9 DEF Cuts

-----------------------------------------------------------------------------
(* What the request shows of the history.                                  *)

(* What is after the k-th element, though the sequence may be shorter.      *)
LEMMA TailFacts ==
    ASSUME NEW S, NEW s \in Seq(S), NEW k \in Nat
    PROVE  /\ SubSeq(s, k + 1, Len(s)) \in Seq(S)
           /\ Len(SubSeq(s, k + 1, Len(s))) = IF k <= Len(s) THEN Len(s) - k ELSE 0
           /\ \A i \in 1 .. Len(SubSeq(s, k + 1, Len(s))) :
                SubSeq(s, k + 1, Len(s))[i] = s[k + i] /\ k + i \in 1 .. Len(s)
<1>1. Len(s) \in Nat
  OBVIOUS
<1>2. CASE k <= Len(s)
  <2>1. k \in 0 .. Len(s)
    BY <1>1, <1>2
  <2> QED BY <1>1, <1>2, <2>1, SuffixFacts
<1>3. CASE k > Len(s)
  <2>1. k + 1 > Len(s) /\ k + 1 \in Int /\ Len(s) \in Int
    BY <1>1, <1>3
  <2>2. SubSeq(s, k + 1, Len(s)) = <<>>
    BY <2>1, SubSeqEmpty
  <2>3. ~ (k <= Len(s)) /\ 1 .. 0 = {} /\ <<>> \in Seq(S) /\ Len(<<>>) = 0
    BY <1>1, <1>3
  <2> HIDE <1>3
  <2> QED BY <2>2, <2>3
<1> QED BY <1>1, <1>2, <1>3

(* The elements of a concatenation.                                         *)
LEMMA ConcatFacts ==
    ASSUME NEW S, NEW s \in Seq(S), NEW t \in Seq(S)
    PROVE  /\ s \o t \in Seq(S) /\ Len(s \o t) = Len(s) + Len(t)
           /\ Len(s) \in Nat /\ Len(t) \in Nat
           /\ \A p \in 1 .. Len(s) : (s \o t)[p] = s[p]
           /\ \A p \in Len(s) + 1 .. Len(s) + Len(t) : (s \o t)[p] = t[p - Len(s)] /\ p - Len(s) \in 1 .. Len(t)
<1>1. Len(s) \in Nat /\ Len(t) \in Nat
  OBVIOUS
<1>2. ASSUME NEW p \in Len(s) + 1 .. Len(s) + Len(t)
      PROVE  (s \o t)[p] = t[p - Len(s)] /\ p - Len(s) \in 1 .. Len(t)
  OBVIOUS
<1> QED BY <1>1, <1>2

(* The first two messages and what is after the cut ...                    *)
Kept(h, end) == SubSeq(h, 1, 2) \o SubSeq(h, end + 1, Len(h))
Pair(K) == Len(K) > 2 /\ K[2].calls \cap K[3].results # {}
After(K, summarised) == IF summarised /\ Pair(K) THEN 3 ELSE 2
WithSummary(K, summarised) ==
    IF summarised
      THEN SubSeq(K, 1, After(K, summarised)) \o <<Summary>> \o SubSeq(K, After(K, summarised) + 1, Len(K))
      ELSE K

(* Visible, in terms of these.                                              *)
LEMMA VisibleIs ==
    ASSUME NEW h, NEW end, NEW summarised
    PROVE  Visible(h, end, summarised)
             = LET A == WithSummary(Kept(h, end), summarised)
               IN IF end > 2
                    THEN StripResults(A, IF summarised THEN After(Kept(h, end), summarised) + 2 ELSE 3)
                    ELSE A
BY DEF Visible, WithSummary, Kept, Pair, After

(* Where the messages that stay in view come from.                          *)
LEMMA KeptFacts ==
    ASSUME NEW h \in Seq(Message), Len(h) >= 2, NEW end \in Cuts
    PROVE  /\ Kept(h, end) \in Seq(Message) /\ Len(Kept(h, end)) \in Nat /\ Len(Kept(h, end)) >= 2
           /\ Kept(h, end)[1] = h[1] /\ Kept(h, end)[2] = h[2]
           /\ \A i \in 3 .. Len(Kept(h, end)) :
                Kept(h, end)[i] = h[end + i - 2] /\ end + i - 2 \in 3 .. Len(h)
<1>1. Len(h) \in Nat /\ end \in Nat /\ end >= 2 /\ 2 \in 0 .. Len(h)
  BY DEF Cuts
<1> DEFINE a == SubSeq(h, 1, 2)
           b == SubSeq(h, end + 1, Len(h))
<1>2. a \in Seq(Message) /\ Len(a) = 2 /\ a[1] = h[1] /\ a[2] = h[2]
  <2>1. a \in Seq(Message) /\ Len(a) = 2 /\ \A i \in 1 .. 2 : a[i] = h[i]
    BY <1>1, PrefixFacts
  <2> QED BY <2>1
<1>3. b \in Seq(Message) /\ Len(b) \in Nat /\ \A i \in 1 .. Len(b) : b[i] = h[end + i] /\ end + i \in 1 .. Len(h)
  <2>1. b \in Seq(Message) /\ \A i \in 1 .. Len(b) : b[i] = h[end + i] /\ end + i \in 1 .. Len(h)
    BY <1>1, TailFacts
  <2> QED BY <2>1
<1>4. Kept(h, end) = a \o b
  BY DEF Kept
<1> HIDE DEF a, b
<1>c. /\ a \o b \in Seq(Message) /\ Len(a \o b) = Len(a) + Len(b)
      /\ \A p \in 1 .. Len(a) : (a \o b)[p] = a[p]
      /\ \A p \in Len(a) + 1 .. Len(a) + Len(b) : (a \o b)[p] = b[p - Len(a)] /\ p - Len(a) \in 1 .. Len(b)
  BY <1>2, <1>3, ConcatFacts, ZenonT(60)
<1> DEFINE K == a \o b
<1>5. K \in Seq(Message) /\ Len(K) = 2 + Len(b) /\ K[1] = a[1] /\ K[2] = a[2]
  <2>1. /\ K \in Seq(Message) /\ Len(K) = Len(a) + Len(b)
        /\ \A p \in 1 .. Len(a) : K[p] = a[p]
    BY <1>c
  <2> HIDE DEF K
  <2>2. 1 \in 1 .. Len(a) /\ 2 \in 1 .. Len(a)
    BY <1>2
  <2> QED BY <1>2, <2>1, <2>2
<1>6. \A i \in 3 .. Len(K) : K[i] = b[i - 2] /\ i - 2 \in 1 .. Len(b)
  <2>1. \A p \in Len(a) + 1 .. Len(a) + Len(b) : K[p] = b[p - Len(a)] /\ p - Len(a) \in 1 .. Len(b)
    BY <1>c
  <2> HIDE DEF K
  <2>2. \A i \in 3 .. Len(K) : i \in Len(a) + 1 .. Len(a) + Len(b)
    BY <1>2, <1>3, <1>5
  <2> QED BY <1>2, <2>1, <2>2
<1> HIDE DEF K
<1>7. ASSUME NEW i \in 3 .. Len(K) PROVE K[i] = h[end + i - 2] /\ end + i - 2 \in 3 .. Len(h)
  <2>1. K[i] = b[i - 2] /\ i - 2 \in 1 .. Len(b)
    BY <1>6
  <2>2. b[i - 2] = h[end + (i - 2)] /\ end + (i - 2) \in 1 .. Len(h)
    BY <1>3, <2>1
  <2>3. i \in Nat /\ i >= 3
    BY <1>3, <1>5
  <2>4. end + (i - 2) = end + i - 2 /\ end + i - 2 >= 3
    BY <1>1, <2>3
  <2> QED BY <1>1, <2>1, <2>2, <2>4
<1> QED BY <1>2, <1>3, <1>4, <1>5, <1>7 DEF K

(* The summary is put after the second message, or after the third.         *)
LEMMA SummaryFacts ==
    ASSUME NEW K \in Seq(Message), Len(K) >= 2
    PROVE  LET A == WithSummary(K, TRUE)  n == After(K, TRUE) IN
           /\ n \in {2, 3} /\ n <= Len(K)
           /\ A \in Seq(Message) /\ Len(A) = Len(K) + 1
           /\ \A i \in 1 .. n : A[i] = K[i]
           /\ A[n + 1] = Summary
           /\ \A i \in n + 2 .. Len(A) : A[i] = K[i - 1]
<1> DEFINE n == After(K, TRUE)
           a == SubSeq(K, 1, n)
           b == SubSeq(K, n + 1, Len(K))
           c == <<Summary>>
<1>1. Len(K) \in Nat /\ n \in {2, 3} /\ n <= Len(K)
  BY DEF After, Pair
<1> HIDE DEF n
<1>2. n \in 0 .. Len(K)
  BY <1>1
<1>3. a \in Seq(Message) /\ Len(a) = n /\ \A i \in 1 .. n : a[i] = K[i]
  BY <1>2, PrefixFacts
<1>4. b \in Seq(Message) /\ Len(b) = Len(K) - n /\ \A i \in 1 .. Len(K) - n : b[i] = K[n + i]
  BY <1>2, SuffixFacts
<1>5. c \in Seq(Message) /\ Len(c) = 1 /\ c[1] = Summary
  BY MessageFacts
<1>6. WithSummary(K, TRUE) = (a \o c) \o b
  BY DEF WithSummary, n
<1> HIDE DEF a, b, c
<1> DEFINE d == a \o c
<1>7. d \in Seq(Message) /\ Len(d) = n + 1 /\ (\A i \in 1 .. n : d[i] = K[i]) /\ d[n + 1] = Summary
  <2>1. /\ d \in Seq(Message) /\ Len(d) = Len(a) + Len(c)
        /\ \A p \in 1 .. Len(a) : d[p] = a[p]
        /\ \A p \in Len(a) + 1 .. Len(a) + Len(c) : d[p] = c[p - Len(a)]
    BY <1>3, <1>5, ConcatFacts
  <2> HIDE DEF d
  <2>2. n \in Nat /\ n + 1 \in Len(a) + 1 .. Len(a) + Len(c) /\ (n + 1) - Len(a) = 1
    BY <1>1, <1>3, <1>5
  <2>3. d[n + 1] = c[(n + 1) - Len(a)]
    BY <2>1, <2>2
  <2>4. d[n + 1] = Summary
    BY <1>5, <2>2, <2>3
  <2> QED BY <1>3, <1>5, <2>1, <2>4
<1> HIDE DEF d
<1> DEFINE A == d \o b
<1>8. A \in Seq(Message) /\ Len(A) = Len(K) + 1 /\ (\A i \in 1 .. n : A[i] = K[i]) /\ A[n + 1] = Summary
  BY <1>1, <1>4, <1>7
<1>9. \A i \in n + 2 .. Len(A) : A[i] = b[i - (n + 1)] /\ i - (n + 1) \in 1 .. Len(K) - n /\ n + (i - (n + 1)) = i - 1
  BY <1>1, <1>4, <1>7
<1> HIDE DEF A
<1>10. \A i \in n + 2 .. Len(A) : A[i] = K[i - 1]
  BY <1>4, <1>9
<1> QED BY <1>1, <1>6, <1>8, <1>10 DEF n, A, d

(* Only the results of one user message are taken off.                      *)
LEMMA StripFacts ==
    ASSUME NEW A \in Seq(Message), NEW i \in Nat \ {0}
    PROVE  LET V == StripResults(A, i) IN
           /\ V \in Seq(Message) /\ Len(V) = Len(A)
           /\ \A p \in 1 .. Len(A) :
                /\ V[p].kind = A[p].kind /\ V[p].calls = A[p].calls
                /\ V[p].results = IF p = i /\ IsUser(A[p]) THEN {} ELSE A[p].results
<1> DEFINE V == StripResults(A, i)
<1>0. Len(A) \in Nat /\ \A p \in 1 .. Len(A) : A[p] \in Message
  OBVIOUS
<1>1. CASE i <= Len(A) /\ IsUser(A[i])
  <2>1. V = [A EXCEPT ![i].results = {}]
    BY <1>1 DEF StripResults
  <2>2. i \in 1 .. Len(A)
    BY <1>0, <1>1
  <2>3. [A[i] EXCEPT !.results = {}] \in Message
    BY <1>0, <2>2 DEF Message
  <2>4. V \in Seq(Message) /\ Len(V) = Len(A)
    BY <2>1, <2>2, <2>3
  <2>5. V[i] = [A[i] EXCEPT !.results = {}] /\ \A p \in 1 .. Len(A) : p # i => V[p] = A[p]
    <3>2. DOMAIN A = 1 .. Len(A)
      OBVIOUS
    <3>3. PICK r : r = [A[i] EXCEPT !.results = {}]
      OBVIOUS
    <3>4. V = [A EXCEPT ![i] = r]
      BY <2>1, <3>3
    <3> HIDE DEF V
    <3>5. V[i] = r /\ \A p \in DOMAIN A : p # i => V[p] = A[p]
      BY <2>2, <3>2, <3>4
    <3> QED BY <3>2, <3>3, <3>5
  <2>6. V[i].kind = A[i].kind /\ V[i].calls = A[i].calls /\ V[i].results = {}
    BY <1>0, <2>2, <2>5 DEF Message
  <2> HIDE DEF V
  <2>7. ASSUME NEW p \in 1 .. Len(A)
        PROVE /\ V[p].kind = A[p].kind /\ V[p].calls = A[p].calls
              /\ V[p].results = IF p = i /\ IsUser(A[p]) THEN {} ELSE A[p].results
    BY <1>1, <2>5, <2>6
  <2> QED BY <2>4, <2>7 DEF V
<1>2. CASE ~ (i <= Len(A) /\ IsUser(A[i]))
  <2>1. V = A
    BY <1>2 DEF StripResults
  <2>2. \A p \in 1 .. Len(A) : ~ (p = i /\ IsUser(A[p]))
    BY <1>0, <1>2
  <2> QED BY <2>1, <2>2
<1> QED BY <1>1, <1>2

(* What is visible is a sequence of messages ...                            *)
LEMMA VisibleType ==
    ASSUME NEW h \in Seq(Message), Len(h) >= 2, NEW end \in Cuts, NEW summarised \in BOOLEAN
    PROVE  Visible(h, end, summarised) \in Seq(Message)
<1>1. Kept(h, end) \in Seq(Message) /\ Len(Kept(h, end)) >= 2
  BY KeptFacts
<1>2. PICK K, A : K = Kept(h, end) /\ A = WithSummary(K, summarised)
  OBVIOUS
<1>3. A \in Seq(Message)
  <2>1. summarised => A \in Seq(Message)
    BY <1>1, <1>2, SummaryFacts
  <2>2. ~ summarised => A = K
    BY <1>2 DEF WithSummary
  <2> QED BY <1>1, <1>2, <2>1, <2>2
<1>4. After(K, summarised) + 2 \in Nat \ {0} /\ 3 \in Nat \ {0}
  BY DEF After
<1>5. \A i \in Nat \ {0} : StripResults(A, i) \in Seq(Message)
  BY <1>3, StripFacts
<1> QED BY <1>2, <1>3, <1>4, <1>5, VisibleIs

(* ... and so is what the request is pruned from ...                        *)
LEMMA TruncatedType ==
    ASSUME NEW h \in Seq(Message), NEW end \in Cuts, NEW summarised \in BOOLEAN
    PROVE  Truncated(h, end, summarised) \in Seq(Message)
<1>1. CASE Len(h) <= 1 \/ (end = 2 /\ ~summarised)
  BY <1>1 DEF Truncated
<1>2. CASE ~ (Len(h) <= 1 \/ (end = 2 /\ ~summarised))
  <2>1. Len(h) >= 2
    BY <1>2
  <2>2. Visible(h, end, summarised) \in Seq(Message)
    BY <2>1, VisibleType
  <2>3. Truncated(h, end, summarised) = Repair(Visible(h, end, summarised))
    BY <1>2 DEF Truncated
  <2> QED BY <2>2, <2>3, RepairSpaced
<1> QED BY <1>1, <1>2

(* prune_conversation_history leaves the messages alone, or keeps the first *)
(* and a tail that splits no pair.                                          *)
LEMMA PruneFacts ==
    ASSUME NEW s \in Seq(Message)
    PROVE  \/ Prune(s) = s
           \/ \E from \in 0 .. Len(s) :
                /\ Len(s) >= 1 /\ Len(s) - from >= KeepMessages
                /\ ~ SplitsPair(s, from)
                /\ from = 0 => ~ IsUser(s[1])
                /\ Prune(s) \in Seq(Message) /\ Len(Prune(s)) = Len(s) - from + 1
                /\ Prune(s)[1] = s[1]
                /\ \A i \in 2 .. Len(Prune(s)) : Prune(s)[i] = s[from + i - 1] /\ from + i - 1 \in 1 .. Len(s)
<1>0. Len(s) \in Nat /\ KeepMessages \in Nat /\ KeepMessages >= 1 /\ PruneBuffer \in Nat
  BY ConversationBounds
<1>1. CASE Len(s) <= KeepMessages + PruneBuffer
  BY <1>1 DEF Prune
<1>2. CASE ~ (Len(s) <= KeepMessages + PruneBuffer)
  <2>1. Len(s) - KeepMessages \in Nat /\ Len(s) >= 1
    BY <1>0, <1>2
  <2>2. PICK from : from = KeepFrom(s, Len(s) - KeepMessages)
    OBVIOUS
  <2>3. from \in 0 .. Len(s) - KeepMessages /\ ~ SplitsPair(s, from)
    BY <2>1, <2>2, KeepFromFacts
  <2>4. from \in 0 .. Len(s) /\ Len(s) - from >= KeepMessages
    BY <1>0, <2>1, <2>3
  <2>5. CASE from = 0 /\ IsUser(s[1])
    BY <1>2, <2>2, <2>5 DEF Prune
  <2>6. CASE ~ (from = 0 /\ IsUser(s[1]))
    <3> DEFINE a == <<s[1]>>
               b == SubSeq(s, from + 1, Len(s))
    <3>1. Prune(s) = a \o b
      BY <1>2, <2>2, <2>6 DEF Prune
    <3>2. a \in Seq(Message) /\ Len(a) = 1 /\ a[1] = s[1]
      BY <2>1
    <3>3. b \in Seq(Message) /\ Len(b) = Len(s) - from /\ \A i \in 1 .. Len(s) - from : b[i] = s[from + i]
      BY <2>4, SuffixFacts
    <3> HIDE DEF a, b
    <3>4. PICK P : P = a \o b
      OBVIOUS
    <3>5. /\ P \in Seq(Message) /\ Len(P) = Len(a) + Len(b)
          /\ \A p \in 1 .. Len(a) : P[p] = a[p]
          /\ \A p \in Len(a) + 1 .. Len(a) + Len(b) : P[p] = b[p - Len(a)] /\ p - Len(a) \in 1 .. Len(b)
      <4>1. /\ a \o b \in Seq(Message) /\ Len(a \o b) = Len(a) + Len(b)
            /\ \A p \in 1 .. Len(a) : (a \o b)[p] = a[p]
            /\ \A p \in Len(a) + 1 .. Len(a) + Len(b) : (a \o b)[p] = b[p - Len(a)] /\ p - Len(a) \in 1 .. Len(b)
        BY <3>2, <3>3, ConcatFacts, ZenonT(60)
      <4> QED BY <3>4, <4>1, Zenon
    <3>6. Len(P) = Len(s) - from + 1 /\ P[1] = s[1]
      BY <1>0, <2>4, <3>2, <3>3, <3>5
    <3>7. ASSUME NEW i \in 2 .. Len(P) PROVE P[i] = s[from + i - 1] /\ from + i - 1 \in 1 .. Len(s)
      <4>1. i \in Len(a) + 1 .. Len(a) + Len(b)
        BY <3>2, <3>5
      <4>2. P[i] = b[i - 1] /\ i - 1 \in 1 .. Len(s) - from
        BY <3>2, <3>3, <3>5, <4>1
      <4>3. from + (i - 1) = from + i - 1 /\ from + i - 1 \in 1 .. Len(s)
        BY <1>0, <2>4, <4>1, <4>2
      <4> QED BY <3>3, <4>2, <4>3
    <3>8. from = 0 => ~ IsUser(s[1])
      BY <2>6
    <3> QED BY <2>1, <2>3, <2>4, <3>1, <3>4, <3>5, <3>6, <3>7, <3>8
  <2> QED BY <2>5, <2>6
<1> QED BY <1>1, <1>2

(* ... and the request.                                                     *)
LEMMA PruneType ==
    ASSUME NEW s \in Seq(Message) PROVE Prune(s) \in Seq(Message)
BY PruneFacts

(* emergency_truncate_request keeps a tail that splits no pair.             *)
LEMMA KeepTailFacts ==
    ASSUME TypeOK, NEW keep \in Nat
    PROVE  \E from \in 0 .. Len(history) :
             /\ ~ SplitsPair(history, from)
             /\ KeepTail(keep).history = SubSeq(history, from + 1, Len(history))
             /\ KeepTail(keep).cut \in Cuts
<1>1. history \in Seq(Message) /\ cut \in Cuts /\ Len(history) \in Nat
  BY DEF TypeOK, Cuts
<1> DEFINE base == IF Len(history) > keep THEN Len(history) - keep ELSE 0
           from == KeepFrom(history, base)
<1>2. base \in Nat /\ base <= Len(history)
  BY <1>1
<1> HIDE DEF base
<1>3. from \in 0 .. base /\ ~ SplitsPair(history, from)
  BY <1>2, KeepFromFacts
<1>4. KeepTail(keep) = [history |-> SubSeq(history, from + 1, Len(history)), cut |-> IF from > 0 THEN 2 ELSE cut]
  BY DEF KeepTail, from, base
<1> HIDE DEF from
<1>5. from \in 0 .. Len(history)
  BY <1>1, <1>2, <1>3
<1> QED BY <1>1, <1>3, <1>4, <1>5 DEF Cuts

(* What an emergency truncation leaves is a sequence of messages, and its   *)
(* cut a cut.                                                               *)
LEMMA KeepTailType ==
    ASSUME TypeOK, NEW keep \in Nat
    PROVE  KeepTail(keep).history \in Seq(Message) /\ KeepTail(keep).cut \in Cuts
<1>1. history \in Seq(Message)
  BY DEF TypeOK
<1> QED BY <1>1, KeepTailFacts, SuffixFacts

(* What saving makes of the disk.                                           *)
LEMMA DiskFacts ==
    ASSUME NEW disk \in Disk, cut' \in Cuts, history' \in Seq(Message), summary' \in BOOLEAN
    PROVE  /\ Recorded(disk) \in Disk /\ Written(disk) \in Disk /\ WrittenSummary(disk) \in Disk
           /\ \A yes \in BOOLEAN : ForceSave(disk, yes) \in Disk /\ Record(disk, yes) \in Disk
<1>1. Recorded(disk) \in Disk
  BY DEF Disk, Recorded
<1>2. Written(disk) \in Disk
  BY DEF Disk, Written
<1>3. WrittenSummary(disk) \in Disk
  BY DEF Disk, WrittenSummary
<1> QED BY <1>1, <1>2, <1>3 DEF ForceSave, Record

(* A save leaves a disk, and the debounce below its limit ...               *)
LEMMA SaveTurnType ==
    ASSUME TypeInv, NEW disk \in Disk, cut' \in Cuts, history' \in Seq(Message), summary' \in BOOLEAN,
           SaveTurn(disk)
    PROVE  saved' \in Disk /\ sinceSave' \in 0 .. SaveEvery - 1
<1>1. WrittenSummary(Written(disk)) \in Disk
  BY DiskFacts
<1>2. saved' \in Disk
  BY <1>1 DEF SaveTurn
<1>3. sinceSave' \in 0 .. SaveEvery - 1
  BY ConversationBounds DEF SaveTurn, TypeInv, TypeOK
<1> QED BY <1>2, <1>3

(* ... and so does the end of a turn.                                       *)
LEMMA EndTurnType ==
    ASSUME TypeInv, NEW how \in {"continue", "complete", "queued", "error"}, EndTurn(how),
           cut' \in Cuts, history' \in Seq(Message), summary' \in BOOLEAN
    PROVE  /\ at' \in {"idle", "loop", "next"}
           /\ saved' \in Disk /\ sinceSave' \in 0 .. SaveEvery - 1
<1>1. at' \in {"idle", "loop", "next"}
  BY DEF EndTurn
<1>2. saved \in Disk
  BY DEF TypeInv
<1> DEFINE d == ForceSave(saved, how \in {"complete", "queued"})
           e == Record(d, how \in {"complete", "error"})
<1>3. d \in Disk
  BY <1>2, DiskFacts DEF ForceSave
<1>4. e \in Disk
  <2> HIDE DEF d
  <2> QED BY <1>3, DiskFacts DEF Record
<1>5. SaveTurn(e)
  BY DEF EndTurn
<1> HIDE DEF e
<1>6. saved' \in Disk /\ sinceSave' \in 0 .. SaveEvery - 1
  BY <1>4, <1>5, SaveTurnType
<1> QED BY <1>1, <1>6

(* Messages after messages are messages.                                    *)
LEMMA ConcatType ==
    ASSUME NEW h \in Seq(Message), NEW a \in Seq(Message)
    PROVE  h \o a \in Seq(Message)
BY ConcatFacts

(* Types, as a step leaves them.                                            *)
Shape(spentOk) ==
    /\ at' \in {"idle", "loop", "request", "tools", "next"}
    /\ history' \in Seq(Message) /\ request' \in Seq(Message)
    /\ cut' \in Cuts /\ summary' \in BOOLEAN
    /\ sinceSave' \in 0 .. SaveEvery - 1
    /\ saved' \in Disk
    /\ nameless' \subseteq mixed' /\ mixed' \subseteq CallId
    /\ spentOk

(* The type invariant of the next state, from its parts.                    *)
LEMMA ShapeIsType ==
    ASSUME Shape(SpentOK'), at' = "tools" => history' # <<>> PROVE TypeInv'
<1>1. /\ saved'.history \in Seq(Message) /\ saved'.cut \in Cuts
      /\ saved'.summary \in BOOLEAN /\ saved'.item \in BOOLEAN
  BY DEF Shape, Disk
<1> QED BY <1>1 DEF Shape, TypeInv, TypeOK, Cuts

(* The calls of the batch are calls.                                        *)
LEMMA AnsweredType ==
    ASSUME TypeInv, history # <<>> PROVE Answered \in SUBSET CallId
<1>1. history \in Seq(Message) /\ Len(history) \in 1 .. Len(history)
  BY DEF TypeInv, TypeOK
<1>2. history[Len(history)] \in Message
  BY <1>1
<1>3. history[Len(history)].calls \in SUBSET CallId
  BY <1>2 DEF Message
<1> QED BY <1>3 DEF Answered

(* Every step keeps the types.                                              *)
LEMMA TypeStep == TypeInv /\ [Next]_vars => TypeInv'
<1> SUFFICES ASSUME TypeInv, [Next]_vars PROVE TypeInv'
  OBVIOUS
<1>0. /\ at \in {"idle", "loop", "request", "tools", "next"}
      /\ history \in Seq(Message) /\ request \in Seq(Message)
      /\ cut \in Cuts /\ summary \in BOOLEAN
      /\ sinceSave \in 0 .. SaveEvery - 1
      /\ saved \in Disk
      /\ nameless \subseteq mixed /\ mixed \subseteq CallId
      /\ SpentOK
      /\ at = "tools" => history # <<>>
  BY DEF TypeInv, TypeOK, Cuts
<1>e. <<>> \in Seq(Message) /\ 2 \in Cuts /\ 0 \in 0 .. SaveEvery - 1
  BY ConversationBounds DEF Cuts
<1>n. Note \in Message /\ Reply({}) \in Message
  BY MessageFacts
<1> SUFFICES Shape(SpentOK') /\ (at' = "tools" => history' # <<>>)
  BY ShapeIsType
<1>1. CASE BeginPrompt
  <2>1. Spend([prompts |-> 1])
    BY <1>1 DEF BeginPrompt
  <2>2. SpentOK' /\ spent'["prompts"] = spent["prompts"] + 1
    BY <1>0, <2>1, SpendFacts
  <2>3. spent.prompts + 1 \in 0 .. MaxPrompts
    BY <1>0, <2>2 DEF SpentOK
  <2>4. history' \in Seq(Message)
    <3>1. Prompt(spent.prompts + 1) \in Message
      BY <2>3, MessageFacts
    <3> QED BY <1>0, <1>1, <3>1 DEF BeginPrompt
  <2> QED BY <1>0, <1>1, <2>2, <2>4 DEF BeginPrompt, Shape
<1>2. ASSUME NEW level \in Levels, Prepare(level) PROVE Shape(SpentOK') /\ (at' = "tools" => history' # <<>>)
  <2>1. PICK noted \in BOOLEAN :
          /\ Spend([notes |-> IF noted THEN 1 ELSE 0])
          /\ history' = CloseDangling(IF noted THEN Append(history, Note) ELSE history)
    BY <1>2 DEF Prepare
  <2>2. SpentOK'
    BY <1>0, <2>1, SpendFacts
  <2>3. history' \in Seq(Message)
    <3>1. (IF noted THEN Append(history, Note) ELSE history) \in Seq(Message)
      BY <1>0, <1>n
    <3> QED BY <2>1, <3>1, CloseDanglingSpaced
  <2>4. cut' \in Cuts
    <3>1. NextCut(history', cut, "half") \in Cuts /\ NextCut(history', cut, "lastQuarter") \in Cuts
      BY <1>0, <2>3, NextCutFacts DEF Keeps
    <3> QED BY <1>0, <1>2, <3>1 DEF Prepare, Levels
  <2>5. request' \in Seq(Message)
    <3>1. Truncated(history', cut', summary) \in Seq(Message)
      BY <1>0, <2>3, <2>4, TruncatedType
    <3> QED BY <1>2, <3>1, PruneType DEF Prepare
  <2>6. saved' \in Disk
    BY <1>0, <1>2, <2>4 DEF Prepare, Disk
  <2> QED BY <1>0, <1>2, <2>2, <2>3, <2>4, <2>5, <2>6 DEF Prepare, Shape
<1>3. CASE EmergencyTruncate
  <2>1. PICK keep \in EmergencyTails :
          history' = KeepTail(keep).history /\ request' = KeepTail(keep).history /\ cut' = KeepTail(keep).cut
    BY <1>3 DEF EmergencyTruncate
  <2>2. keep \in Nat
    BY ConversationBounds DEF EmergencyTails
  <2>3. history' \in Seq(Message) /\ cut' \in Cuts
    BY <2>1, <2>2, KeepTailType DEF TypeInv
  <2> QED BY <1>0, <1>3, <2>1, <2>3 DEF EmergencyTruncate, Shape, SpentOK
<1>4. CASE EmergencyFails
  <2>1. KeepTail(2).history \in Seq(Message) /\ KeepTail(2).cut \in Cuts
    BY KeepTailType DEF TypeInv
  <2>2. PICK t, n : t = KeepTail(2).history /\ n = Len(t)
    OBVIOUS
  <2>3. history' = (IF n > 0 /\ IsUser(t[n]) THEN SubSeq(t, 1, n - 1) ELSE t) /\ cut' = KeepTail(2).cut
    BY <1>4, <2>2 DEF EmergencyFails
  <2>4. history' \in Seq(Message)
    <3>1. t \in Seq(Message) /\ n \in Nat
      BY <2>1, <2>2
    <3>2. n > 0 => n - 1 \in 0 .. Len(t)
      BY <2>2, <3>1
    <3>3. n > 0 => SubSeq(t, 1, n - 1) \in Seq(Message)
      BY <3>1, <3>2, PrefixFacts
    <3> QED BY <2>3, <3>1, <3>3
  <2>5. cut' \in Cuts /\ summary' \in BOOLEAN
    BY <1>0, <1>4, <2>1, <2>3 DEF EmergencyFails
  <2>6. saved' \in Disk
    BY <1>0, <1>4, <2>4, <2>5, DiskFacts DEF EmergencyFails
  <2> QED BY <1>0, <1>e, <1>4, <2>4, <2>5, <2>6 DEF EmergencyFails, Shape, SpentOK
<1>5. CASE ReplyText
  <2>1. PICK nudge \in BOOLEAN, how \in {"continue", "complete", "queued"} :
          /\ Spend([replies |-> 1, notes |-> IF nudge THEN 1 ELSE 0])
          /\ history' = history \o (IF nudge THEN <<Reply({}), Note>> ELSE <<Reply({})>>)
          /\ cut' = cut /\ summary' = summary
          /\ EndTurn(how)
    BY <1>5 DEF ReplyText
  <2>2. SpentOK'
    BY <1>0, <2>1, SpendFacts
  <2>3. history' \in Seq(Message)
    <3>1. (IF nudge THEN <<Reply({}), Note>> ELSE <<Reply({})>>) \in Seq(Message)
      BY <1>n
    <3> QED BY <1>0, <2>1, <3>1, ConcatType
  <2>4. /\ at' \in {"idle", "loop", "next"} /\ saved' \in Disk /\ sinceSave' \in 0 .. SaveEvery - 1
    BY <1>0, <2>1, <2>3, EndTurnType
  <2> QED BY <1>0, <1>e, <1>5, <2>1, <2>2, <2>3, <2>4 DEF ReplyText, Shape
<1>6. CASE ReplyEmpty
  <2>1. saved' \in Disk
    BY <1>0, <1>6, DiskFacts DEF ReplyEmpty
  <2> QED BY <1>0, <1>e, <1>6, <2>1 DEF ReplyEmpty, Shape, SpentOK
<1>7. CASE ReplyCalls
  <2> DEFINE first == spent.calls + 1
  <2>1. PICK n \in 1 .. 2, unnamed \in 0 .. 2 :
          /\ unnamed <= n
          /\ Spend([replies |-> 1, calls |-> n])
          /\ history' = Append(history, Reply(first .. spent.calls + n))
          /\ nameless' = nameless \cup (first .. spent.calls + unnamed)
          /\ mixed' = IF unnamed = 0 THEN mixed ELSE mixed \cup (first .. spent.calls + n)
    BY <1>7 DEF ReplyCalls
  <2>2. SpentOK' /\ spent'["calls"] = spent["calls"] + n
    BY <1>0, <2>1, SpendFacts
  <2>3. spent.calls \in Nat /\ spent.calls + n <= MaxCalls /\ n \in Nat /\ unnamed \in Nat /\ MaxCalls \in Nat
    <3>1. spent.calls \in 0 .. MaxCalls /\ spent'.calls \in 0 .. MaxCalls
      BY <1>0, <2>2 DEF SpentOK
    <3>2. spent'.calls = spent.calls + n /\ n \in Nat /\ unnamed \in Nat /\ MaxCalls \in Nat
      BY <2>2, ConversationBounds
    <3> QED BY <3>1, <3>2
  <2>4. first .. spent.calls + n \in SUBSET CallId
    BY <2>3 DEF CallId
  <2>5. history' \in Seq(Message) /\ history' # <<>>
    <3>1. Reply(first .. spent.calls + n) \in Message
      BY <2>4, MessageFacts
    <3> QED BY <1>0, <2>1, <3>1
  <2>6. nameless' \subseteq mixed' /\ mixed' \subseteq CallId
    <3>1. first .. spent.calls + unnamed \subseteq first .. spent.calls + n
      BY <2>1, <2>3
    <3>2. unnamed = 0 => first .. spent.calls + unnamed = {}
      BY <2>3
    <3> QED BY <1>0, <2>1, <2>4, <3>1, <3>2
  <2> QED BY <1>0, <1>e, <1>7, <2>2, <2>5, <2>6 DEF ReplyCalls, Shape
<1>8. CASE Condense
  <2>1. cut' \in Cuts
    BY <1>0, <1>8, NextCutFacts DEF Condense, Keeps
  <2>2. saved' \in Disk
    BY <1>0, <1>8 DEF Condense, Disk
  <2> QED BY <1>0, <1>8, <2>1, <2>2 DEF Condense, Shape, SpentOK
<1>9. CASE FinishTools
  <2>1. PICK warned \in BOOLEAN, how \in {"continue", "complete", "queued", "error"} :
          /\ Spend([notes |-> IF warned THEN 1 ELSE 0])
          /\ cut' = cut /\ summary' = summary
          /\ history' = history \o (IF Answered = {} THEN <<>> ELSE <<Results(Answered)>>)
                                \o (IF warned THEN <<Note>> ELSE <<>>)
          /\ EndTurn(how)
    BY <1>9 DEF FinishTools
  <2>2. SpentOK'
    <3>1. Spend([notes |-> IF warned THEN 1 ELSE 0])
      BY <2>1
    <3> QED BY <1>0, <3>1, SpendFacts
  <2>3. history' \in Seq(Message)
    <3>1. Results(Answered) \in Message
      BY <1>0, <1>9, AnsweredType, MessageFacts DEF FinishTools
    <3>2. PICK a, b : /\ a = (IF Answered = {} THEN <<>> ELSE <<Results(Answered)>>)
                      /\ b = (IF warned THEN <<Note>> ELSE <<>>)
      OBVIOUS
    <3>3. a \in Seq(Message) /\ b \in Seq(Message)
      BY <1>n, <3>1, <3>2
    <3>4. history' = (history \o a) \o b
      BY <2>1, <3>2
    <3>5. history \o a \in Seq(Message)
      BY <1>0, <3>3, ConcatType
    <3> QED BY <3>3, <3>4, <3>5, ConcatType
  <2>4. /\ at' \in {"idle", "loop", "next"} /\ saved' \in Disk /\ sinceSave' \in 0 .. SaveEvery - 1
    BY <1>0, <2>1, <2>3, EndTurnType
  <2> QED BY <1>0, <1>9, <2>1, <2>2, <2>3, <2>4 DEF FinishTools, Shape
<1>10. CASE ToolsFail
  <2>1. PICK warned \in BOOLEAN :
          /\ Spend([notes |-> IF warned THEN 1 ELSE 0])
          /\ history' = history \o (IF warned THEN <<Failed(Answered), Note>> ELSE <<Failed(Answered)>>)
    BY <1>10 DEF ToolsFail
  <2>2. SpentOK'
    <3>1. Spend([notes |-> IF warned THEN 1 ELSE 0])
      BY <2>1
    <3> QED BY <1>0, <3>1, SpendFacts
  <2>3. history' \in Seq(Message)
    <3>1. Failed(Answered) \in Message
      BY <1>0, <1>10, AnsweredType, MessageFacts DEF ToolsFail
    <3>2. (IF warned THEN <<Failed(Answered), Note>> ELSE <<Failed(Answered)>>) \in Seq(Message)
      BY <1>n, <3>1
    <3> QED BY <1>0, <2>1, <3>2, ConcatType
  <2>4. cut' \in Cuts /\ summary' \in BOOLEAN
    BY <1>0, <1>10 DEF ToolsFail
  <2>5. saved' \in Disk
    BY <1>0, <1>10, <2>3, <2>4, DiskFacts DEF ToolsFail
  <2> QED BY <1>0, <1>10, <2>2, <2>3, <2>4, <2>5 DEF ToolsFail, Shape
<1>11. CASE RequestFails
  <2>1. saved' \in Disk
    BY <1>0, <1>11, DiskFacts DEF RequestFails
  <2> QED BY <1>0, <1>e, <1>11, <2>1 DEF RequestFails, Shape, SpentOK
<1>12. CASE RequestCancelled
  <2>0. cut' \in Cuts /\ history' \in Seq(Message) /\ summary' \in BOOLEAN
    BY <1>0, <1>12 DEF RequestCancelled
  <2>1. WrittenSummary(Written(saved)) \in Disk
    BY <1>0, <2>0, DiskFacts
  <2>2. Recorded(WrittenSummary(Written(saved))) \in Disk
    BY <2>0, <2>1, DiskFacts
  <2> QED BY <1>0, <1>e, <1>12, <2>2 DEF RequestCancelled, Shape, SpentOK
<1>13. CASE Aborted
  BY <1>0, <1>e, <1>13 DEF Aborted, Shape, SpentOK
<1>14. CASE Undo
  <2>1. Spend([undos |-> 1])
    BY <1>14 DEF Undo
  <2>2. SpentOK'
    BY <1>0, <2>1, SpendFacts
  <2>3. history' \in Seq(Message)
    <3>1. history # <<>> /\ history' = (IF Front(history) # <<>> /\ IsUser(Last(Front(history)))
                                          THEN Front(Front(history)) ELSE Front(history))
      BY <1>14 DEF Undo
    <3>2. \A h \in Seq(Message) : h # <<>> => Front(h) \in Seq(Message)
      <4>1. ASSUME NEW h \in Seq(Message), h # <<>> PROVE Front(h) \in Seq(Message)
        <5>1. Len(h) - 1 \in 0 .. Len(h)
          BY <4>1
        <5> QED BY <5>1, PrefixFacts DEF Front
      <4> QED BY <4>1
    <3> QED BY <1>0, <3>1, <3>2
  <2> QED BY <1>0, <1>14, <2>2, <2>3 DEF Undo, Shape
<1>15. CASE ClearSummary
  <2>1. saved' \in Disk
    BY <1>0, <1>15 DEF ClearSummary, Disk
  <2> QED BY <1>0, <1>15, <2>1 DEF ClearSummary, Shape, SpentOK
<1>16. CASE Restart
  <2>1. Spend([restarts |-> 1])
    BY <1>16 DEF Restart
  <2>2. SpentOK'
    BY <1>0, <2>1, SpendFacts
  <2>3. saved.history \in Seq(Message) /\ Remapped(saved) \in Cuts /\ saved.summary \in BOOLEAN
    BY <1>0, <1>e DEF Disk, Remapped
  <2> QED BY <1>0, <1>e, <1>16, <2>2, <2>3 DEF Restart, Shape
<1>17. CASE UNCHANGED vars
  BY <1>0, <1>17 DEF vars, Shape, SpentOK
<1> QED BY <1>1, <1>2, <1>3, <1>4, <1>5, <1>6, <1>7, <1>8, <1>9, <1>10, <1>11, <1>12, <1>13, <1>14,
           <1>15, <1>16, <1>17 DEF Next

(* Types in the initial states.                                             *)
LEMMA InitTyped == Init => TypeInv
<1> SUFFICES ASSUME Init PROVE TypeInv
  OBVIOUS
<1>1. <<>> \in Seq(Message) /\ {} \subseteq CallId /\ 2 \in Cuts
  BY DEF Cuts
<1>2. 0 \in 0 .. SaveEvery - 1
  BY ConversationBounds
<1>3. SpentOK
  BY ConversationBounds DEF Init, SpentOK
<1>4. saved \in Disk
  BY <1>1 DEF Init, Disk
<1>5. TypeOK
  BY <1>1, <1>2 DEF Init, TypeOK, Cuts
<1> QED BY <1>3, <1>4, <1>5 DEF TypeInv, Init

(* Every variable has its type, whatever was truncated, saved, undone and   *)
(* lost: a cut is never below 2, and the debounce of                        *)
(* save_conversation_history stays below SaveEvery.                         *)
THEOREM TypeCorrect == Spec => []TypeOK
<1>1. Init => TypeInv
  BY InitTyped
<1>2. TypeInv /\ [Next]_vars => TypeInv'
  BY TypeStep
<1>3. TypeInv => TypeOK
  BY DEF TypeInv
<1> QED BY <1>1, <1>2, <1>3, PTL DEF Spec

(* Above the limit, hiding makes progress while four visible messages come  *)
(* after the cut (get_next_truncation_range).                               *)
THEOREM HidingProgresses == Spec => TruncationProgress
<1>1. ASSUME TypeInv, TypeInv', NEW level \in Levels \ {"low"}, Prepare(level), Len(history') - cut >= 4
      PROVE  cut' > cut
  <2>1. history' \in Seq(Message) /\ cut \in Cuts
    BY <1>1 DEF TypeInv, TypeOK, Cuts
  <2>2. PICK keep \in Keeps : cut' = NextCut(history', cut, keep)
    BY <1>1 DEF Prepare, Levels, Keeps
  <2> QED BY <1>1, <2>1, <2>2, NextCutFacts
<1>2. TypeInv /\ TypeInv' /\ [Next]_vars
        => [\A level \in Levels \ {"low"} : Prepare(level) /\ Len(history') - cut >= 4 => cut' > cut]_vars
  BY <1>1
<1>3. Spec => []TypeInv
  <2>1. Init => TypeInv
    BY InitTyped
  <2> QED BY <2>1, TypeStep, PTL DEF Spec
<1> QED BY <1>2, <1>3, PTL DEF Spec, TruncationProgress

-----------------------------------------------------------------------------
(* What a crash would lose.                                                *)

Outcomes(h) == {m \in Elements(h) : m.kind = "results"}
Lost == Outcomes(history) \ Elements(saved.history)

(* Turns that are not on disk are counted.                                  *)
LossInv == IsFiniteSet(Lost) /\ Cardinality(Lost) <= sinceSave

(* A step brings no outcome, or writes all, or brings one and counts it.    *)
BringsNone == /\ Outcomes(history') \subseteq Outcomes(history)
              /\ saved'.history = saved.history /\ sinceSave' >= sinceSave
WritesAll == Outcomes(history') \subseteq Elements(saved'.history)
BringsOne == /\ \E m : Outcomes(history') \subseteq Outcomes(history) \cup {m}
             /\ saved'.history = saved.history /\ sinceSave' = sinceSave + 1

(* A step of one of these kinds keeps the count of turns that are not on    *)
(* disk.                                                                    *)
LEMMA LossBound ==
    ASSUME LossInv, TypeInv, TypeInv', BringsNone \/ WritesAll \/ BringsOne
    PROVE  LossInv'
<1>1. sinceSave \in Nat /\ sinceSave' \in Nat
  BY DEF TypeInv, TypeOK
<1>2. Cardinality(Lost) \in Nat
  BY FS_CardinalityType DEF LossInv
<1>3. CASE BringsNone
  <2>1. Lost' \subseteq Lost
    BY <1>3 DEF BringsNone, Lost, Outcomes
  <2>2. IsFiniteSet(Lost') /\ Cardinality(Lost') <= Cardinality(Lost)
    BY <2>1, FS_Subset DEF LossInv
  <2>3. Cardinality(Lost') \in Nat
    BY <2>2, FS_CardinalityType
  <2> QED BY <1>1, <1>2, <1>3, <2>2, <2>3 DEF LossInv, BringsNone
<1>4. CASE WritesAll
  <2>1. Lost' = {}
    BY <1>4 DEF WritesAll, Lost, Outcomes
  <2> QED BY <1>1, <2>1, FS_EmptySet DEF LossInv
<1>5. CASE BringsOne
  <2>1. PICK m : Outcomes(history') \subseteq Outcomes(history) \cup {m}
    BY <1>5 DEF BringsOne
  <2>2. Lost' \subseteq Lost \cup {m}
    BY <1>5, <2>1 DEF BringsOne, Lost, Outcomes
  <2>3. IsFiniteSet(Lost \cup {m}) /\ Cardinality(Lost \cup {m}) <= Cardinality(Lost) + 1
    BY <1>2, FS_AddElement DEF LossInv
  <2>4. IsFiniteSet(Lost') /\ Cardinality(Lost') <= Cardinality(Lost \cup {m})
    BY <2>2, <2>3, FS_Subset
  <2>5. Cardinality(Lost') \in Nat /\ Cardinality(Lost \cup {m}) \in Nat
    BY <2>3, <2>4, FS_CardinalityType
  <2> QED BY <1>1, <1>2, <1>5, <2>3, <2>4, <2>5 DEF LossInv, BringsOne
<1> QED BY <1>3, <1>4, <1>5

(* A part of a history holds no more outcomes.                              *)
LEMMA PartOutcomes ==
    ASSUME NEW s, NEW t, \A i \in 1 .. Len(t) : \E j \in 1 .. Len(s) : t[i] = s[j]
    PROVE  Outcomes(t) \subseteq Outcomes(s) /\ Elements(t) \subseteq Elements(s)
BY DEF Outcomes, Elements

(* Only results are outcomes.                                               *)
LEMMA AddedOutcomes ==
    ASSUME NEW h \in Seq(Message), NEW a \in Seq(Message)
    PROVE  Outcomes(h \o a) \subseteq Outcomes(h) \cup Outcomes(a)
<1> SUFFICES ASSUME NEW m \in Outcomes(h \o a) PROVE m \in Outcomes(h) \cup Outcomes(a)
  OBVIOUS
<1>1. PICK p \in 1 .. Len(h \o a) : m = (h \o a)[p] /\ m.kind = "results"
  BY DEF Outcomes, Elements
<1>2. PICK u : u = h \o a
  OBVIOUS
<1>3. /\ Len(u) = Len(h) + Len(a) /\ Len(h) \in Nat /\ Len(a) \in Nat
      /\ \A q \in 1 .. Len(h) : u[q] = h[q]
      /\ \A q \in Len(h) + 1 .. Len(h) + Len(a) : u[q] = a[q - Len(h)] /\ q - Len(h) \in 1 .. Len(a)
  BY <1>2, ConcatFacts
<1>4. p \in 1 .. Len(u) /\ m = u[p]
  BY <1>1, <1>2
<1>5. CASE p \in 1 .. Len(h)
  BY <1>1, <1>3, <1>4, <1>5 DEF Outcomes, Elements
<1>6. CASE p \in Len(h) + 1 .. Len(h) + Len(a)
  BY <1>1, <1>3, <1>4, <1>6 DEF Outcomes, Elements
<1> QED BY <1>3, <1>4, <1>5, <1>6

(* Closing dangling calls brings no outcome of a tool.                      *)
LEMMA ClosingOutcomes ==
    ASSUME NEW h \in Seq(Message) PROVE Outcomes(CloseDangling(h)) \subseteq Outcomes(h)
<1> SUFFICES ASSUME NEW m \in Outcomes(CloseDangling(h)) PROVE m \in Outcomes(h)
  OBVIOUS
<1>1. PICK start : Spaced(Closings(h), Len(h), CloseDangling(h), start)
  BY CloseDanglingSpaced
<1>2. PICK p \in 1 .. Len(CloseDangling(h)) : m = CloseDangling(h)[p] /\ m.kind = "results"
  BY DEF Outcomes, Elements
<1>3. PICK i \in 1 .. Len(h) : p = start[i] \/ (Len(Closings(h)[i]) = 2 /\ p = start[i] + 1)
  BY <1>1, <1>2 DEF Spaced
<1>4. /\ CloseDangling(h)[start[i]] = Closings(h)[i][1]
      /\ Len(Closings(h)[i]) = 2 => CloseDangling(h)[start[i] + 1] = Closings(h)[i][2]
  BY <1>1 DEF Spaced
<1>5. Closings(h)[i][1] = h[i] /\ (Len(Closings(h)[i]) = 2 => Closings(h)[i][2] = Closing(Open(h, i)))
  BY DEF Closings
<1>6. \A c : Closing(c).kind # "results"
  BY DEF Closing
<1>7. m = h[i]
  BY <1>2, <1>3, <1>4, <1>5, <1>6
<1> QED BY <1>2, <1>7 DEF Outcomes, Elements

(* An emergency truncation brings none.                                     *)
LEMMA TailOutcomes ==
    ASSUME TypeOK, NEW keep \in Nat
    PROVE  Outcomes(KeepTail(keep).history) \subseteq Outcomes(history)
<1>1. history \in Seq(Message) /\ Len(history) \in Nat
  BY DEF TypeOK
<1>2. PICK from \in 0 .. Len(history) : KeepTail(keep).history = SubSeq(history, from + 1, Len(history))
  BY KeepTailFacts
<1>3. PICK t : t = SubSeq(history, from + 1, Len(history))
  OBVIOUS
<1>4. Len(t) = Len(history) - from /\ \A i \in 1 .. Len(history) - from : t[i] = history[from + i]
  BY <1>1, <1>3, SuffixFacts
<1>5. \A i \in 1 .. Len(t) : from + i \in 1 .. Len(history)
  BY <1>1, <1>4
<1>6. \A i \in 1 .. Len(t) : \E j \in 1 .. Len(history) : t[i] = history[j]
  BY <1>4, <1>5
<1>7. Outcomes(t) \subseteq Outcomes(history)
  BY <1>6, PartOutcomes
<1> QED BY <1>2, <1>3, <1>7

(* Taking off the last message brings none.                                 *)
LEMMA FrontOutcomes ==
    ASSUME NEW s \in Seq(Message), s # <<>>
    PROVE  Front(s) \in Seq(Message) /\ Outcomes(Front(s)) \subseteq Outcomes(s)
<1>1. Len(s) \in Nat /\ Len(s) - 1 \in 0 .. Len(s)
  OBVIOUS
<1>2. PICK t : t = SubSeq(s, 1, Len(s) - 1)
  OBVIOUS
<1>3. t \in Seq(Message) /\ Len(t) = Len(s) - 1 /\ \A i \in 1 .. Len(s) - 1 : t[i] = s[i]
  BY <1>1, <1>2, PrefixFacts
<1>4. \A i \in 1 .. Len(t) : i \in 1 .. Len(s) /\ t[i] = s[i]
  BY <1>1, <1>3
<1>5. Outcomes(t) \subseteq Outcomes(s)
  BY <1>4, PartOutcomes
<1> QED BY <1>2, <1>3, <1>5 DEF Front

(* A written history has all outcomes of the one in memory.                 *)
LEMMA WrittenAll ==
    ASSUME NEW disk, disk \in Disk, history' \in Seq(Message)
    PROVE  Outcomes(history') \subseteq Elements(Written(disk).history)
<1>1. history' = <<>> => Outcomes(history') = {}
  BY DEF Outcomes, Elements
<1>2. history' # <<>> => Written(disk).history = history'
  BY DEF Written, Disk
<1> QED BY <1>1, <1>2 DEF Outcomes

(* Recording a range or a summary leaves the history on disk as it is.      *)
LEMMA OtherFields ==
    ASSUME NEW disk \in Disk, cut' \in Cuts
    PROVE  Recorded(disk).history = disk.history /\ WrittenSummary(disk).history = disk.history
BY DEF Recorded, WrittenSummary, Disk

(* The end of a turn writes the history, or counts the turn.                *)
LEMMA SaveTurnLoss ==
    ASSUME TypeInv, NEW how \in {"continue", "complete", "queued", "error"}, EndTurn(how),
           cut' \in Cuts, history' \in Seq(Message), summary' \in BOOLEAN
    PROVE  WritesAll \/ (saved'.history = saved.history /\ sinceSave' = sinceSave + 1)
<1> DEFINE d == ForceSave(saved, how \in {"complete", "queued"})
           e == Record(d, how \in {"complete", "error"})
<1>1. saved \in Disk
  BY DEF TypeInv
<1>2. d \in Disk /\ (d = saved \/ Outcomes(history') \subseteq Elements(d.history))
  BY <1>1, DiskFacts, WrittenAll DEF ForceSave
<1> HIDE DEF d
<1>3. e \in Disk /\ e.history = d.history
  BY <1>2, DiskFacts, OtherFields DEF Record
<1>4. SaveTurn(e)
  BY DEF EndTurn, d
<1> HIDE DEF e
<1>5. CASE sinceSave + 1 >= SaveEvery
  <2>1. saved' = WrittenSummary(Written(e))
    BY <1>4, <1>5 DEF SaveTurn
  <2>2. Written(e) \in Disk /\ saved'.history = Written(e).history
    BY <1>3, <2>1, DiskFacts, OtherFields
  <2>3. WritesAll
    BY <1>3, <2>2, WrittenAll DEF WritesAll
  <2> QED BY <2>3
<1>6. CASE ~ (sinceSave + 1 >= SaveEvery)
  <2>1. saved' = e /\ sinceSave' = sinceSave + 1
    BY <1>4, <1>6 DEF SaveTurn
  <2> QED BY <1>2, <1>3, <2>1 DEF WritesAll
<1> QED BY <1>5, <1>6

(* Only a message of results is an outcome.                                 *)
LEMMA SingleOutcomes ==
    ASSUME NEW m \in Message
    PROVE  /\ <<m>> \in Seq(Message) /\ Outcomes(<<m>>) \subseteq {m}
           /\ m.kind # "results" => Outcomes(<<m>>) = {}
BY DEF Outcomes, Elements

(* Two messages that are none hold none.                                    *)
LEMMA PairOutcomes ==
    ASSUME NEW m \in Message, NEW x \in Message, m.kind # "results", x.kind # "results"
    PROVE  <<m, x>> \in Seq(Message) /\ Outcomes(<<m, x>>) = {}
<1>1. \A i \in 1 .. Len(<<m, x>>) : <<m, x>>[i].kind # "results"
  OBVIOUS
<1> QED BY <1>1 DEF Outcomes, Elements

(* No message holds none.                                                   *)
LEMMA EmptyOutcomes == <<>> \in Seq(Message) /\ Outcomes(<<>>) = {}
BY DEF Outcomes, Elements

(* Appending a message that is no outcome brings none.                      *)
LEMMA AppendOutcomes ==
    ASSUME NEW h \in Seq(Message), NEW m \in Message, m.kind # "results"
    PROVE  Outcomes(Append(h, m)) \subseteq Outcomes(h)
<1>1. PICK a : a = <<m>>
  OBVIOUS
<1>2. a \in Seq(Message) /\ Outcomes(a) = {}
  BY <1>1, SingleOutcomes
<1>3. Append(h, m) = h \o a
  BY <1>1
<1> QED BY <1>2, <1>3, AddedOutcomes

(* Every step keeps the count, one action at a time.                        *)
LEMMA LossStep == LossInv /\ TypeInv /\ TypeInv' /\ [Next]_vars => LossInv'
<1> SUFFICES ASSUME LossInv, TypeInv, TypeInv', [Next]_vars PROVE BringsNone \/ WritesAll \/ BringsOne
  BY LossBound
<1>0. /\ history \in Seq(Message) /\ history' \in Seq(Message)
      /\ saved \in Disk /\ saved' \in Disk
      /\ cut' \in Cuts /\ summary' \in BOOLEAN
      /\ sinceSave \in Nat /\ sinceSave' \in Nat
      /\ at = "tools" => history # <<>>
  BY DEF TypeInv, TypeOK, Cuts
<1>n. /\ Note \in Message /\ Note.kind # "results"
      /\ \A c \in SUBSET CallId : /\ Reply(c) \in Message /\ Reply(c).kind # "results"
                                 /\ Failed(c) \in Message /\ Failed(c).kind # "results"
                                 /\ Results(c) \in Message
  BY MessageFacts DEF Note, Reply, Failed, Results
<1>1. CASE BeginPrompt
  <2>1. history' = Append(history, Prompt(spent.prompts + 1))
    BY <1>1 DEF BeginPrompt
  <2>2. Prompt(spent.prompts + 1) \in Message /\ Prompt(spent.prompts + 1).kind # "results"
    <3>1. Spend([prompts |-> 1]) /\ SpentOK
      BY <1>1 DEF BeginPrompt, TypeInv
    <3>2. SpentOK' /\ spent'["prompts"] = spent["prompts"] + 1
      BY <3>1, SpendFacts
    <3>3. spent.prompts + 1 \in 0 .. MaxPrompts
      BY <3>1, <3>2 DEF SpentOK
    <3> QED BY <3>3, MessageFacts DEF Prompt
  <2> QED BY <1>0, <1>1, AppendOutcomes, <2>1, <2>2 DEF BeginPrompt, BringsNone
<1>2. ASSUME NEW level \in Levels, Prepare(level) PROVE BringsNone
  <2>1. PICK noted \in BOOLEAN : history' = CloseDangling(IF noted THEN Append(history, Note) ELSE history)
    BY <1>2 DEF Prepare
  <2>2. PICK h : h = (IF noted THEN Append(history, Note) ELSE history)
    OBVIOUS
  <2>3. h \in Seq(Message) /\ Outcomes(h) \subseteq Outcomes(history)
    BY <1>0, <1>n, AppendOutcomes, <2>2
  <2>4. Outcomes(CloseDangling(h)) \subseteq Outcomes(h)
    BY <2>3, ClosingOutcomes
  <2>5. saved'.history = saved.history
    BY <1>0, <1>2 DEF Prepare, Disk
  <2> QED BY <1>0, <1>2, <2>1, <2>2, <2>3, <2>4, <2>5 DEF Prepare, BringsNone
<1>3. CASE EmergencyTruncate
  <2>1. PICK keep \in EmergencyTails : history' = KeepTail(keep).history
    BY <1>3 DEF EmergencyTruncate
  <2>2. keep \in Nat
    BY ConversationBounds DEF EmergencyTails
  <2>3. Outcomes(KeepTail(keep).history) \subseteq Outcomes(history)
    BY <2>2, TailOutcomes DEF TypeInv
  <2> QED BY <1>0, <1>3, <2>1, <2>3 DEF EmergencyTruncate, BringsNone
<1>4. CASE EmergencyFails
  <2>1. PICK t : t = KeepTail(2).history
    OBVIOUS
  <2>2. t \in Seq(Message) /\ Outcomes(t) \subseteq Outcomes(history)
    BY <2>1, KeepTailType, TailOutcomes DEF TypeInv
  <2>3. history' = t \/ (t # <<>> /\ history' = Front(t))
    BY <1>4, <2>1, <2>2 DEF EmergencyFails, Front
  <2>4. Outcomes(history') \subseteq Outcomes(history)
    BY <2>2, <2>3, FrontOutcomes
  <2>5. saved'.history = saved.history
    BY <1>0, <1>4, OtherFields DEF EmergencyFails
  <2> QED BY <1>0, <1>4, <2>4, <2>5 DEF EmergencyFails, BringsNone
<1>5. CASE ReplyText
  <2>1. PICK nudge \in BOOLEAN, how \in {"continue", "complete", "queued"} :
          /\ history' = history \o (IF nudge THEN <<Reply({}), Note>> ELSE <<Reply({})>>)
          /\ EndTurn(how)
    BY <1>5 DEF ReplyText
  <2>2. PICK a : a = (IF nudge THEN <<Reply({}), Note>> ELSE <<Reply({})>>)
    OBVIOUS
  <2>r. Reply({}) \in Message /\ Reply({}).kind # "results"
    BY <1>n
  <2>3. a \in Seq(Message) /\ Outcomes(a) = {}
    <3>1. CASE nudge
      BY <1>n, <2>r, <2>2, <3>1, PairOutcomes
    <3>2. CASE ~nudge
      BY <2>r, <2>2, <3>2, SingleOutcomes
    <3> QED BY <3>1, <3>2
  <2>4. Outcomes(history') \subseteq Outcomes(history)
    BY <1>0, <2>1, <2>2, <2>3, AddedOutcomes
  <2>5. WritesAll \/ (saved'.history = saved.history /\ sinceSave' = sinceSave + 1)
    BY <1>0, <2>1, SaveTurnLoss
  <2> QED BY <1>0, <2>4, <2>5 DEF BringsNone
<1>6. CASE ReplyEmpty
  <2>1. saved'.history = saved.history
    BY <1>0, <1>6, OtherFields DEF ReplyEmpty
  <2> QED BY <1>0, <1>6, <2>1 DEF ReplyEmpty, BringsNone
<1>7. CASE ReplyCalls
  <2>1. PICK n \in 1 .. 2 : history' = Append(history, Reply(spent.calls + 1 .. spent.calls + n))
                            /\ Spend([replies |-> 1, calls |-> n])
    BY <1>7 DEF ReplyCalls
  <2>2. PICK c : c = spent.calls + 1 .. spent.calls + n
    OBVIOUS
  <2>3. Reply(c) \in Message /\ Reply(c).kind # "results"
    <3>1. SpentOK' /\ spent'["calls"] = spent["calls"] + n
      BY <2>1, SpendFacts DEF TypeInv
    <3>2. spent.calls \in 0 .. MaxCalls /\ spent'.calls \in 0 .. MaxCalls
      BY <3>1 DEF SpentOK, TypeInv
    <3>3. c \in SUBSET CallId
      <4>1. spent'.calls = spent.calls + n /\ MaxCalls \in Nat
        BY <3>1, ConversationBounds
      <4> QED BY <2>2, <3>2, <4>1 DEF CallId
    <3> QED BY <1>n, <3>3
  <2> QED BY <1>0, <1>7, AppendOutcomes, <2>1, <2>2, <2>3 DEF ReplyCalls, BringsNone
<1>8. CASE Condense
  BY <1>0, <1>8 DEF Condense, BringsNone, Disk
<1>9. CASE FinishTools
  <2>1. PICK warned \in BOOLEAN, how \in {"continue", "complete", "queued", "error"} :
          /\ history' = history \o (IF Answered = {} THEN <<>> ELSE <<Results(Answered)>>)
                                \o (IF warned THEN <<Note>> ELSE <<>>)
          /\ EndTurn(how)
    BY <1>9 DEF FinishTools
  <2>2. PICK a, b : /\ a = (IF Answered = {} THEN <<>> ELSE <<Results(Answered)>>)
                    /\ b = (IF warned THEN <<Note>> ELSE <<>>)
    OBVIOUS
  <2>3. Results(Answered) \in Message
    BY <1>0, <1>9, <1>n, AnsweredType DEF FinishTools
  <2>4. a \in Seq(Message) /\ Outcomes(a) \subseteq {Results(Answered)}
    <3>1. CASE Answered = {}
      BY <2>2, <3>1, EmptyOutcomes
    <3>2. CASE Answered # {}
      BY <2>2, <2>3, <3>2, SingleOutcomes
    <3> QED BY <3>1, <3>2
  <2>5. b \in Seq(Message) /\ Outcomes(b) = {}
    <3>1. CASE warned
      BY <1>n, <2>2, <3>1, SingleOutcomes
    <3>2. CASE ~warned
      BY <2>2, <3>2, EmptyOutcomes
    <3> QED BY <3>1, <3>2
  <2>6. PICK u : u = history \o a
    OBVIOUS
  <2>7. u \in Seq(Message) /\ Outcomes(u) \subseteq Outcomes(history) \cup Outcomes(a)
    BY <1>0, <2>4, <2>6, AddedOutcomes, ConcatType
  <2>8. history' = u \o b
    BY <2>1, <2>2, <2>6
  <2>9. Outcomes(history') \subseteq Outcomes(history) \cup {Results(Answered)}
    BY <2>4, <2>5, <2>7, <2>8, AddedOutcomes
  <2>10. WritesAll \/ (saved'.history = saved.history /\ sinceSave' = sinceSave + 1)
    BY <1>0, <2>1, SaveTurnLoss
  <2> QED BY <2>9, <2>10 DEF BringsOne
<1>10. CASE ToolsFail
  <2>1. PICK warned \in BOOLEAN :
          history' = history \o (IF warned THEN <<Failed(Answered), Note>> ELSE <<Failed(Answered)>>)
    BY <1>10 DEF ToolsFail
  <2>2. PICK a : a = (IF warned THEN <<Failed(Answered), Note>> ELSE <<Failed(Answered)>>)
    OBVIOUS
  <2>3. Failed(Answered) \in Message /\ Failed(Answered).kind # "results"
    BY <1>0, <1>10, <1>n, AnsweredType DEF ToolsFail
  <2>4. a \in Seq(Message) /\ Outcomes(a) = {}
    <3>1. CASE warned
      BY <1>n, <2>2, <2>3, <3>1, PairOutcomes
    <3>2. CASE ~warned
      BY <2>2, <2>3, <3>2, SingleOutcomes
    <3> QED BY <3>1, <3>2
  <2>5. Outcomes(history') \subseteq Outcomes(history)
    BY <1>0, <2>1, <2>2, <2>4, AddedOutcomes
  <2>6. saved'.history = saved.history
    BY <1>0, <1>10, OtherFields DEF ToolsFail
  <2>7. sinceSave' = sinceSave
    BY <1>10 DEF ToolsFail
  <2> QED BY <1>0, <2>5, <2>6, <2>7 DEF BringsNone
<1>11. CASE RequestFails
  <2>1. saved'.history = saved.history
    BY <1>0, <1>11, OtherFields DEF RequestFails
  <2> QED BY <1>0, <1>11, <2>1 DEF RequestFails, BringsNone
<1>12. CASE RequestCancelled
  <2>1. Written(saved) \in Disk /\ Outcomes(history') \subseteq Elements(Written(saved).history)
    BY <1>0, DiskFacts, WrittenAll
  <2>2. WrittenSummary(Written(saved)) \in Disk
        /\ WrittenSummary(Written(saved)).history = Written(saved).history
    BY <1>0, <2>1, DiskFacts, OtherFields
  <2>3. saved'.history = Written(saved).history
    BY <1>0, <1>12, <2>2, OtherFields DEF RequestCancelled
  <2> QED BY <2>1, <2>3 DEF WritesAll
<1>13. CASE Aborted
  BY <1>0, <1>13 DEF Aborted, BringsNone
<1>14. CASE Undo
  <2>1. history # <<>> /\ (history' = Front(history)
                            \/ (Front(history) # <<>> /\ history' = Front(Front(history))))
    BY <1>14 DEF Undo
  <2>2. Front(history) \in Seq(Message) /\ Outcomes(Front(history)) \subseteq Outcomes(history)
    BY <1>0, <2>1, FrontOutcomes
  <2>3. Outcomes(history') \subseteq Outcomes(history)
    BY <2>1, <2>2, FrontOutcomes
  <2> QED BY <1>0, <1>14, <2>3 DEF Undo, BringsNone
<1>15. CASE ClearSummary
  BY <1>0, <1>15 DEF ClearSummary, BringsNone, Disk
<1>16. CASE Restart
  BY <1>0, <1>16 DEF Restart, WritesAll, Outcomes
<1>17. CASE UNCHANGED vars
  BY <1>0, <1>17 DEF vars, BringsNone
<1> QED BY <1>1, <1>2, <1>3, <1>4, <1>5, <1>6, <1>7, <1>8, <1>9, <1>10, <1>11, <1>12, <1>13, <1>14,
           <1>15, <1>16, <1>17 DEF Next

(* A crash loses less than SaveEvery turns that ended by themselves and did *)
(* not fail (save_conversation_history).                                    *)
THEOREM LittleIsLost == Spec => []CrashLosesLittle
<1>1. Init => TypeInv
  BY InitTyped
<1>2. Init => LossInv
  <2> SUFFICES ASSUME Init PROVE LossInv
    OBVIOUS
  <2>1. Lost = {}
    BY DEF Init, Lost, Outcomes, Elements
  <2> QED BY <2>1, FS_EmptySet DEF LossInv, Init
<1>3. LossInv /\ TypeInv => CrashLosesLittle
  <2> SUFFICES ASSUME LossInv, TypeInv PROVE CrashLosesLittle
    OBVIOUS
  <2>1. Cardinality(Lost) \in Nat /\ sinceSave \in 0 .. SaveEvery - 1 /\ SaveEvery \in Nat
    BY FS_CardinalityType, ConversationBounds DEF LossInv, TypeInv, TypeOK
  <2>2. Cardinality(Lost) < SaveEvery
    BY <2>1 DEF LossInv
  <2> QED BY <2>2 DEF CrashLosesLittle, Lost, Outcomes
<1> QED BY <1>1, <1>2, <1>3, TypeStep, LossStep, PTL DEF Spec

------------------------------------------------------------------------------
(* What makes the calls and results of a history fit together, for the      *)
(* calls that have a name (m: the others).                                  *)
Roles(s) ==
    \A i \in 1 .. Len(s) : /\ s[i].calls # {} => IsAssistant(s[i])
                           /\ s[i].results # {} => IsUser(s[i])
Distinct(s) ==
    \A i, j \in 1 .. Len(s) : \A c \in s[i].calls : c \in s[j].calls => i = j
Adjacent(s, m) ==
    \A j \in 1 .. Len(s) : \A c \in s[j].results \ m : j > 1 /\ c \in s[j - 1].calls
Complete(s, m) ==
    \A j \in 1 .. Len(s) : \A c \in s[j].results \ m : s[j - 1].calls \subseteq s[j].results
Uniform(s, m) ==
    \A i \in 1 .. Len(s) : \A c \in s[i].calls \ m : s[i].calls \cap m = {}
UniformResults(s, m) ==
    \A i \in 1 .. Len(s) : \A c \in s[i].results \ m : s[i].results \cap m = {}
Below(s, n) ==
    \A i \in 1 .. Len(s) : s[i].calls \subseteq 1 .. n /\ s[i].results \subseteq 1 .. n
Closed(s, m) ==
    \A i \in 1 .. Len(s) : \A c \in s[i].calls \ m : i < Len(s) /\ s[i].calls \subseteq s[i + 1].results

Linked(s, m) == Roles(s) /\ Distinct(s) /\ Adjacent(s, m) /\ Uniform(s, m)
Sound(s, m, n) == Linked(s, m) /\ Complete(s, m) /\ UniformResults(s, m) /\ Below(s, n)

(* CallsPaired, of any messages.                                            *)
Paired(r, m) ==
    /\ \A i \in 1 .. Len(r) :
         r[i].calls # {} /\ r[i].calls \cap m = {}
           => \/ i < Len(r) /\ r[i].calls \subseteq r[i + 1].results
              \/ i = 1 /\ Len(r) > KeepMessages
    /\ \A j \in 1 .. Len(r) : \A c \in r[j].results \ m :
         /\ j > 1 /\ c \in r[j - 1].calls
         /\ \A k \in 1 .. Len(r) : c \in r[k].results => k = j

(* Linked and closed messages are as a request must be.                     *)
LEMMA LinkedPaired ==
    ASSUME NEW s \in Seq(Message), NEW m, Linked(s, m), Closed(s, m)
    PROVE  Paired(s, m)
<1>0. Len(s) \in Nat
  OBVIOUS
<1>1. ASSUME NEW i \in 1 .. Len(s), s[i].calls # {}, s[i].calls \cap m = {}
      PROVE  i < Len(s) /\ s[i].calls \subseteq s[i + 1].results
  <2>1. PICK c : c \in s[i].calls \ m
    BY <1>1
  <2> QED BY <2>1 DEF Closed
<1>2. ASSUME NEW j \in 1 .. Len(s), NEW c \in s[j].results \ m
      PROVE  /\ j > 1 /\ c \in s[j - 1].calls
             /\ \A k \in 1 .. Len(s) : c \in s[k].results => k = j
  <2>1. j > 1 /\ c \in s[j - 1].calls
    BY DEF Linked, Adjacent
  <2>2. ASSUME NEW k \in 1 .. Len(s), c \in s[k].results PROVE k = j
    <3>1. k > 1 /\ c \in s[k - 1].calls
      BY <2>2 DEF Linked, Adjacent
    <3>2. j - 1 \in 1 .. Len(s) /\ k - 1 \in 1 .. Len(s)
      BY <1>0, <2>1, <3>1
    <3>3. j - 1 = k - 1
      BY <2>1, <3>1, <3>2 DEF Linked, Distinct
    <3> QED BY <3>3
  <2> QED BY <2>1, <2>2
<1> QED BY <1>1, <1>2 DEF Paired

(* A part that begins between two pairs fits together too ...               *)
LEMMA PartSound ==
    ASSUME NEW s \in Seq(Message), NEW t \in Seq(Message), NEW m, NEW n, NEW from \in Nat,
           \A i \in 1 .. Len(t) : from + i \in 1 .. Len(s) /\ t[i] = s[from + i],
           from > 0 => ~ SplitsPair(s, from), Sound(s, m, n)
    PROVE  Sound(t, m, n)
<1>0. Len(s) \in Nat /\ Len(t) \in Nat
  OBVIOUS
<1>1. Roles(t) /\ Uniform(t, m) /\ UniformResults(t, m) /\ Below(t, n)
  BY DEF Sound, Linked, Roles, Uniform, UniformResults, Below
<1>2. Distinct(t)
  <2> SUFFICES ASSUME NEW i \in 1 .. Len(t), NEW j \in 1 .. Len(t), NEW c \in t[i].calls, c \in t[j].calls
               PROVE  i = j
    BY DEF Distinct
  <2>1. from + i = from + j
    BY DEF Sound, Linked, Distinct
  <2> QED BY <2>1
<1>3. ASSUME NEW j \in 1 .. Len(t), NEW c \in t[j].results \ m
      PROVE  j > 1 /\ t[j - 1] = s[(from + j) - 1] /\ c \in t[j - 1].calls
  <2>1. from + j \in 1 .. Len(s) /\ c \in s[from + j].results \ m
    OBVIOUS
  <2>2. from + j > 1 /\ c \in s[(from + j) - 1].calls
    BY <2>1 DEF Sound, Linked, Adjacent
  <2>3. j > 1
    <3> SUFFICES ASSUME j = 1 PROVE FALSE
      BY <1>0
    <3>1. from > 0 /\ from \in 1 .. from /\ from + 1 \in from + 1 .. Len(s)
      BY <1>0, <2>1, <2>2
    <3>2. c \in s[from].calls \cap s[from + 1].results
      BY <2>1, <2>2
    <3> QED BY <3>1, <3>2 DEF SplitsPair
  <2>4. j - 1 \in 1 .. Len(t) /\ from + (j - 1) = (from + j) - 1
    BY <1>0, <2>3
  <2> QED BY <2>2, <2>3, <2>4
<1>4. Adjacent(t, m)
  BY <1>3 DEF Adjacent
<1>5. Complete(t, m)
  <2> SUFFICES ASSUME NEW j \in 1 .. Len(t), NEW c \in t[j].results \ m
               PROVE  t[j - 1].calls \subseteq t[j].results
    BY DEF Complete
  <2>1. from + j \in 1 .. Len(s) /\ t[j] = s[from + j]
    OBVIOUS
  <2> QED BY <1>3, <2>1 DEF Sound, Complete
<1> QED BY <1>1, <1>2, <1>4, <1>5 DEF Sound, Linked

(* ... and is closed, if it is everything that follows.                     *)
LEMMA PartClosed ==
    ASSUME NEW s \in Seq(Message), NEW t \in Seq(Message), NEW m, NEW from \in 0 .. Len(s),
           Len(t) = Len(s) - from, \A i \in 1 .. Len(t) : t[i] = s[from + i], Closed(s, m)
    PROVE  Closed(t, m)
<1> SUFFICES ASSUME NEW i \in 1 .. Len(t), NEW c \in t[i].calls \ m
             PROVE  i < Len(t) /\ t[i].calls \subseteq t[i + 1].results
  BY DEF Closed
<1>0. Len(s) \in Nat /\ Len(t) \in Nat
  OBVIOUS
<1>1. from + i \in 1 .. Len(s) /\ t[i] = s[from + i]
  BY <1>0
<1>2. from + i < Len(s) /\ s[from + i].calls \subseteq s[(from + i) + 1].results
  BY <1>1 DEF Closed
<1>3. i < Len(t) /\ i + 1 \in 1 .. Len(t) /\ from + (i + 1) = (from + i) + 1
  BY <1>0, <1>2
<1>4. t[i + 1] = s[(from + i) + 1]
  BY <1>3
<1> QED BY <1>1, <1>2, <1>3, <1>4

(* A message that answers the last one, or nothing, may follow.             *)
LEMMA AppendSound ==
    ASSUME NEW s \in Seq(Message), NEW x \in Message, NEW m, NEW n, Sound(s, m, n),
           x.calls # {} => IsAssistant(x), x.results # {} => IsUser(x),
           \A i \in 1 .. Len(s) : s[i].calls \cap x.calls = {},
           \A c \in x.results \ m : /\ s # <<>> /\ c \in s[Len(s)].calls
                                    /\ s[Len(s)].calls \subseteq x.results
                                    /\ x.results \cap m = {},
           \A c \in x.calls \ m : x.calls \cap m = {},
           x.calls \subseteq 1 .. n, x.results \subseteq 1 .. n
    PROVE  Append(s, x) \in Seq(Message) /\ Sound(Append(s, x), m, n)
<1>0. Len(s) \in Nat /\ s # <<>> => Len(s) > 0
  OBVIOUS
<1>1. PICK t : t = Append(s, x)
  OBVIOUS
<1>2. t \in Seq(Message) /\ Len(t) = Len(s) + 1 /\ t[Len(s) + 1] = x /\ \A i \in 1 .. Len(s) : t[i] = s[i]
  BY <1>1
<1>3. \A i \in 1 .. Len(t) : i \in 1 .. Len(s) \/ i = Len(s) + 1
  BY <1>0, <1>2
<1>4. Roles(t)
  BY <1>2, <1>3 DEF Sound, Linked, Roles
<1>5. Uniform(t, m) /\ UniformResults(t, m)
  BY <1>2, <1>3 DEF Sound, Linked, Uniform, UniformResults
<1>6. Below(t, n)
  BY <1>2, <1>3 DEF Sound, Below
<1>7. Distinct(t)
  BY <1>2, <1>3 DEF Sound, Linked, Distinct
<1>8. ASSUME NEW j \in 1 .. Len(t), NEW c \in t[j].results \ m
      PROVE  j > 1 /\ c \in t[j - 1].calls /\ t[j - 1].calls \subseteq t[j].results
  <2>1. CASE j \in 1 .. Len(s)
    <3>1. c \in s[j].results \ m
      BY <1>2, <2>1
    <3>2. j > 1 /\ c \in s[j - 1].calls /\ s[j - 1].calls \subseteq s[j].results
      BY <2>1, <3>1 DEF Sound, Linked, Adjacent, Complete
    <3>3. j - 1 \in 1 .. Len(s)
      BY <1>0, <2>1, <3>2
    <3> QED BY <1>2, <2>1, <3>2, <3>3
  <2>2. CASE j = Len(s) + 1
    <3>1. c \in x.results \ m
      BY <1>2, <2>2
    <3>2. Len(s) > 0 /\ c \in s[Len(s)].calls /\ s[Len(s)].calls \subseteq x.results
      BY <1>0, <3>1
    <3>3. j - 1 = Len(s) /\ Len(s) \in 1 .. Len(s) /\ j > 1
      BY <1>0, <2>2, <3>2
    <3> QED BY <1>2, <2>2, <3>2, <3>3
  <2> QED BY <1>3, <2>1, <2>2
<1>9. Adjacent(t, m) /\ Complete(t, m)
  BY <1>8 DEF Adjacent, Complete
<1> QED BY <1>1, <1>2, <1>4, <1>5, <1>6, <1>7, <1>9 DEF Sound, Linked

(* Calls that are not in it yet change nothing.                             *)
LEMMA GrowSound ==
    ASSUME NEW s \in Seq(Message), NEW m, NEW n \in Nat, NEW k \in Nat, n <= k, NEW fresh,
           fresh \subseteq n + 1 .. k, Sound(s, m, n)
    PROVE  Sound(s, m \cup fresh, k)
<1>1. \A i \in 1 .. Len(s) : s[i].calls \subseteq 1 .. n /\ s[i].results \subseteq 1 .. n
  BY DEF Sound, Below
<1>2. 1 .. n \subseteq 1 .. k /\ (1 .. n) \cap fresh = {}
  OBVIOUS
<1>3. Below(s, k)
  BY <1>1, <1>2 DEF Below
<1>4. \A i \in 1 .. Len(s) : s[i].calls \cap fresh = {} /\ s[i].results \cap fresh = {}
  BY <1>1, <1>2
<1>5. Uniform(s, m \cup fresh) /\ UniformResults(s, m \cup fresh)
  BY <1>4 DEF Sound, Linked, Uniform, UniformResults
<1>6. Adjacent(s, m \cup fresh) /\ Complete(s, m \cup fresh)
  BY DEF Sound, Linked, Adjacent, Complete
<1> QED BY <1>3, <1>5, <1>6 DEF Sound, Linked

(* A result of a call that has a name follows it, and the calls of that     *)
(* message have no others.                                                  *)
LEMMA AnswerFollows ==
    ASSUME NEW s \in Seq(Message), NEW m, Linked(s, m),
           NEW i \in 1 .. Len(s), NEW c \in s[i].calls \ m, NEW d \in s[i].calls, d \in AnsweredAfter(s, i)
    PROVE  i + 1 \in 1 .. Len(s) /\ d \in s[i + 1].results \ m
<1>0. Len(s) \in Nat
  OBVIOUS
<1>1. d \notin m
  BY DEF Linked, Uniform
<1>2. PICK k \in i + 1 .. Len(s) : d \in s[k].results
  BY DEF AnsweredAfter
<1>3. k \in 1 .. Len(s) /\ k - 1 \in 1 .. Len(s)
  BY <1>0
<1>4. d \in s[k - 1].calls
  BY <1>1, <1>2, <1>3 DEF Linked, Adjacent
<1>5. k - 1 = i
  BY <1>3, <1>4 DEF Linked, Distinct
<1>6. k = i + 1
  BY <1>0, <1>5
<1> QED BY <1>1, <1>2, <1>3, <1>6

(* close_dangling_tool_calls leaves every call answered by the next message.*)
LEMMA ClosingSound ==
    ASSUME NEW h \in Seq(Message), NEW m, NEW n, Sound(h, m, n)
    PROVE  Sound(CloseDangling(h), m, n) /\ Closed(CloseDangling(h), m)
<1> DEFINE N == Len(h)
<1>0. N \in Nat /\ \A i \in 1 .. N : h[i] \in Message
  OBVIOUS
<1>1. PICK start, t : t = CloseDangling(h) /\ Spaced(Closings(h), N, t, start)
  BY CloseDanglingSpaced
<1>2. t \in Seq(Message) /\ Len(t) \in Nat
  <2>1. t \in Seq(Message)
    BY <1>1, CloseDanglingSpaced
  <2> QED BY <2>1
<1>3. \A i \in 1 .. N + 1 : start[i] \in Nat \ {0}
  BY <1>1 DEF Spaced
<1>4. ASSUME NEW i \in 1 .. N
      PROVE  /\ start[i] \in 1 .. Len(t) /\ t[start[i]] = h[i]
             /\ Open(h, i) = {} => start[i + 1] = start[i] + 1
             /\ Open(h, i) # {} => /\ start[i + 1] = start[i] + 2 /\ start[i] + 1 \in 1 .. Len(t)
                                   /\ t[start[i] + 1] = Closing(Open(h, i))
  <2>1. /\ start[i + 1] = start[i] + Len(Closings(h)[i]) /\ start[i + 1] - 1 <= Len(t)
        /\ t[start[i]] = Closings(h)[i][1]
        /\ Len(Closings(h)[i]) = 2 => t[start[i] + 1] = Closings(h)[i][2]
    BY <1>1 DEF Spaced
  <2>2. start[i] \in Nat \ {0} /\ start[i + 1] \in Nat
    BY <1>0, <1>3
  <2>3. CASE Open(h, i) = {}
    <3>1. Len(Closings(h)[i]) = 1 /\ Closings(h)[i][1] = h[i]
      BY <1>0, <2>3 DEF Closings
    <3> QED BY <1>2, <2>1, <2>2, <2>3, <3>1
  <2>4. CASE Open(h, i) # {}
    <3>1. Len(Closings(h)[i]) = 2 /\ Closings(h)[i][1] = h[i] /\ Closings(h)[i][2] = Closing(Open(h, i))
      BY <1>0, <2>4 DEF Closings
    <3>2. t[start[i]] = h[i] /\ t[start[i] + 1] = Closing(Open(h, i)) /\ start[i + 1] = start[i] + 2
      BY <2>1, <3>1
    <3>3. start[i] \in 1 .. Len(t) /\ start[i] + 1 \in 1 .. Len(t)
      <4>1. start[i] + 2 - 1 <= Len(t)
        BY <2>1, <2>2, <3>2
      <4> QED BY <1>2, <2>2, <4>1, BothWithin, Zenon
    <3> QED BY <2>4, <3>2, <3>3
  <2> QED BY <2>3, <2>4
<1>5. \A p \in 1 .. Len(t) : \E i \in 1 .. N :
         p = start[i] \/ (Open(h, i) # {} /\ p = start[i] + 1)
  <2>1. \A i \in 1 .. N : Len(Closings(h)[i]) = 2 => Open(h, i) # {}
    BY <1>0 DEF Closings
  <2>2. \A p \in 1 .. Len(t) : \E i \in 1 .. N :
          p = start[i] \/ (Len(Closings(h)[i]) = 2 /\ p = start[i] + 1)
    BY <1>1 DEF Spaced
  <2> QED BY <2>1, <2>2
<1>6. \A i \in 1 .. N : /\ Closing(Open(h, i)).calls = {} /\ Closing(Open(h, i)).results = Open(h, i)
                        /\ IsUser(Closing(Open(h, i)))
  BY DEF Closing, IsUser, IsAssistant
<1>7. \A i \in 1 .. N : Open(h, i) \subseteq h[i].calls
  BY DEF Open
(* Of the calls of one message all are open, or none is.                    *)
<1>8. ASSUME NEW i \in 1 .. N, NEW c \in h[i].calls \ m, NEW d \in h[i].calls, d \in AnsweredAfter(h, i)
      PROVE  i + 1 \in 1 .. N /\ h[i].calls \subseteq h[i + 1].results /\ Open(h, i) = {}
  <2>1. i + 1 \in 1 .. N /\ d \in h[i + 1].results \ m
    BY <1>8, AnswerFollows DEF Sound
  <2>2. (i + 1) - 1 = i
    BY <1>0
  <2>3. h[i].calls \subseteq h[i + 1].results
    BY <2>1, <2>2 DEF Sound, Complete
  <2>4. i + 1 \in i + 1 .. N
    BY <1>0, <2>1
  <2>5. h[i].calls \subseteq AnsweredAfter(h, i)
    BY <2>3, <2>4 DEF AnsweredAfter
  <2> QED BY <2>1, <2>3, <2>5 DEF Open
<1>9. ASSUME NEW i \in 1 .. N, NEW c \in h[i].calls \ m, Open(h, i) # {}
      PROVE  Open(h, i) = h[i].calls
  BY <1>7, <1>8, <1>9 DEF Open
<1>10. ASSUME NEW j \in 1 .. N, NEW c \in h[j].results \ m
       PROVE  /\ j > 1 /\ c \in h[j - 1].calls /\ h[j - 1].calls \subseteq h[j].results
              /\ start[j] > 1 /\ t[start[j] - 1] = h[j - 1]
  <2>1. j > 1 /\ c \in h[j - 1].calls /\ h[j - 1].calls \subseteq h[j].results
    BY DEF Sound, Linked, Adjacent, Complete
  <2>2. j - 1 \in 1 .. N /\ (j - 1) + 1 = j /\ j \in (j - 1) + 1 .. N
    BY <1>0, <2>1
  <2>3. c \in AnsweredAfter(h, j - 1)
    BY <2>2 DEF AnsweredAfter
  <2>4. Open(h, j - 1) = {}
    BY <1>8, <2>1, <2>2, <2>3
  <2>5. start[j] = start[j - 1] + 1 /\ t[start[j - 1]] = h[j - 1] /\ start[j - 1] \in 1 .. Len(t)
    BY <1>4, <2>2, <2>4
  <2>6. start[j] - 1 = start[j - 1] /\ start[j] > 1
    BY <1>2, <2>5
  <2> QED BY <2>1, <2>5, <2>6
<1>11. \A i \in 1 .. N : h[i].calls \subseteq 1 .. n /\ h[i].results \subseteq 1 .. n
  BY DEF Sound, Below
<1>12. \A i \in 1 .. N : /\ h[i].calls # {} => IsAssistant(h[i])
                         /\ h[i].results # {} => IsUser(h[i])
  BY DEF Sound, Linked, Roles
<1>13. \A i \in 1 .. N : \A c \in h[i].calls \ m : h[i].calls \cap m = {}
  BY DEF Sound, Linked, Uniform
<1>14. \A i \in 1 .. N : \A c \in h[i].results \ m : h[i].results \cap m = {}
  BY DEF Sound, UniformResults
<1>15. \A i, j \in 1 .. N : \A c \in h[i].calls : c \in h[j].calls => i = j
  BY DEF Sound, Linked, Distinct
<1> HIDE DEF N
<1>c. ASSUME NEW p \in 1 .. Len(t), t[p].calls # {}
      PROVE  \E i \in 1 .. N : p = start[i] /\ t[p] = h[i]
  <2>1. PICK i \in 1 .. N : p = start[i] \/ (Open(h, i) # {} /\ p = start[i] + 1)
    BY <1>5
  <2>2. CASE Open(h, i) # {} /\ p = start[i] + 1
    BY <1>4, <1>6, <1>c, <2>2
  <2> QED BY <1>4, <2>1, <2>2
<1>16. Roles(t)
  <2> SUFFICES ASSUME NEW p \in 1 .. Len(t)
               PROVE  /\ t[p].calls # {} => IsAssistant(t[p])
                      /\ t[p].results # {} => IsUser(t[p])
    BY DEF Roles
  <2>1. PICK i \in 1 .. N : p = start[i] \/ (Open(h, i) # {} /\ p = start[i] + 1)
    BY <1>5
  <2>2. CASE p = start[i]
    BY <1>4, <1>12, <2>2
  <2>3. CASE Open(h, i) # {} /\ p = start[i] + 1
    BY <1>4, <1>6, <2>3
  <2> QED BY <2>1, <2>2, <2>3
<1>17. Distinct(t)
  <2> SUFFICES ASSUME NEW p \in 1 .. Len(t), NEW q \in 1 .. Len(t), NEW c \in t[p].calls, c \in t[q].calls
               PROVE  p = q
    BY DEF Distinct
  <2>1. PICK i \in 1 .. N : p = start[i] /\ t[p] = h[i]
    BY <1>c
  <2>2. PICK j \in 1 .. N : q = start[j] /\ t[q] = h[j]
    BY <1>c
  <2> QED BY <1>15, <2>1, <2>2
<1>18. Uniform(t, m)
  <2> SUFFICES ASSUME NEW p \in 1 .. Len(t), NEW c \in t[p].calls \ m PROVE t[p].calls \cap m = {}
    BY DEF Uniform
  <2>1. PICK i \in 1 .. N : t[p] = h[i]
    BY <1>c
  <2> QED BY <1>13, <2>1
<1>19. UniformResults(t, m)
  <2> SUFFICES ASSUME NEW p \in 1 .. Len(t), NEW c \in t[p].results \ m PROVE t[p].results \cap m = {}
    BY DEF UniformResults
  <2>1. PICK i \in 1 .. N : p = start[i] \/ (Open(h, i) # {} /\ p = start[i] + 1)
    BY <1>5
  <2>2. CASE p = start[i]
    BY <1>4, <1>14, <2>2
  <2>3. CASE Open(h, i) # {} /\ p = start[i] + 1
    <3>1. t[p].results = Open(h, i)
      BY <1>4, <1>6, <2>3
    <3> QED BY <1>7, <1>13, <3>1
  <2> QED BY <2>1, <2>2, <2>3
<1>20. Below(t, n)
  <2> SUFFICES ASSUME NEW p \in 1 .. Len(t) PROVE t[p].calls \subseteq 1 .. n /\ t[p].results \subseteq 1 .. n
    BY DEF Below
  <2>1. PICK i \in 1 .. N : p = start[i] \/ (Open(h, i) # {} /\ p = start[i] + 1)
    BY <1>5
  <2>2. CASE p = start[i]
    BY <1>4, <1>11, <2>2
  <2>3. CASE Open(h, i) # {} /\ p = start[i] + 1
    <3>1. t[p].results = Open(h, i) /\ t[p].calls = {}
      BY <1>4, <1>6, <2>3
    <3> QED BY <1>7, <1>11, <3>1
  <2> QED BY <2>1, <2>2, <2>3
<1>21. ASSUME NEW p \in 1 .. Len(t), NEW c \in t[p].results \ m
       PROVE  p > 1 /\ c \in t[p - 1].calls /\ t[p - 1].calls \subseteq t[p].results
  <2>1. PICK i \in 1 .. N : p = start[i] \/ (Open(h, i) # {} /\ p = start[i] + 1)
    BY <1>5
  <2>2. CASE p = start[i]
    <3>1. c \in h[i].results \ m /\ t[p] = h[i]
      BY <1>4, <2>2
    <3> QED BY <1>10, <2>2, <3>1
  <2>3. CASE Open(h, i) # {} /\ p = start[i] + 1
    <3>1. t[p].results = Open(h, i) /\ t[start[i]] = h[i] /\ start[i] \in 1 .. Len(t)
      BY <1>4, <1>6, <2>3
    <3>2. p > 1 /\ p - 1 = start[i]
      BY <1>2, <2>3, <3>1
    <3>3. c \in h[i].calls \ m
      BY <1>7, <3>1
    <3> QED BY <1>9, <2>3, <3>1, <3>2, <3>3
  <2> QED BY <2>1, <2>2, <2>3
<1>22. Adjacent(t, m) /\ Complete(t, m)
  BY <1>21 DEF Adjacent, Complete
<1>23. Closed(t, m)
  <2> SUFFICES ASSUME NEW p \in 1 .. Len(t), NEW c \in t[p].calls \ m
               PROVE  p < Len(t) /\ t[p].calls \subseteq t[p + 1].results
    BY DEF Closed
  <2>1. PICK i \in 1 .. N : p = start[i] /\ t[p] = h[i]
    BY <1>c
  <2>2. CASE Open(h, i) # {}
    <3>1. p + 1 \in 1 .. Len(t) /\ t[p + 1].results = Open(h, i) /\ Open(h, i) = h[i].calls
      BY <1>4, <1>6, <1>9, <2>1, <2>2
    <3> QED BY <1>2, <2>1, <3>1
  <2>3. CASE Open(h, i) = {}
    <3>1. c \in AnsweredAfter(h, i)
      BY <2>1, <2>3 DEF Open
    <3>2. i + 1 \in 1 .. N /\ h[i].calls \subseteq h[i + 1].results
      BY <1>8, <2>1, <3>1
    <3>3. start[i + 1] = p + 1 /\ p + 1 \in 1 .. Len(t) /\ t[p + 1] = h[i + 1]
      BY <1>4, <2>1, <2>3, <3>2
    <3> QED BY <1>2, <2>1, <3>2, <3>3
  <2> QED BY <2>2, <2>3
<1> QED BY <1>1, <1>16, <1>17, <1>18, <1>19, <1>20, <1>22, <1>23 DEF Sound, Linked

(* ensure_tool_results_follow_tool_use closes what is linked.               *)
LEMMA RepairClosed ==
    ASSUME NEW s \in Seq(Message), NEW m, Linked(s, m)
    PROVE  Linked(Repair(s), m) /\ Closed(Repair(s), m)
<1> DEFINE N == Len(s)
<1>0. N \in Nat /\ \A i \in 1 .. N : s[i] \in Message
  OBVIOUS
<1>1. PICK start, t : t = Repair(s) /\ Spaced(Repairs(s), N, t, start)
  BY RepairSpaced
<1>2. Len(t) \in Nat
  <2>1. t \in Seq(Message)
    BY <1>1, RepairSpaced
  <2> QED BY <2>1
<1>3. \A i \in 1 .. N + 1 : start[i] \in Nat \ {0}
  BY <1>1 DEF Spaced
<1>4. ASSUME NEW i \in 1 .. N
      PROVE  /\ start[i] \in 1 .. Len(t) /\ t[start[i]] = Fixed(s, i)
             /\ ~ Missing(s, i) => start[i + 1] = start[i] + 1
             /\ Missing(s, i) => /\ start[i + 1] = start[i] + 2 /\ start[i] + 1 \in 1 .. Len(t)
                                 /\ t[start[i] + 1] = Closing(s[i].calls)
  <2>1. /\ start[i + 1] = start[i] + Len(Repairs(s)[i]) /\ start[i + 1] - 1 <= Len(t)
        /\ t[start[i]] = Repairs(s)[i][1]
        /\ Len(Repairs(s)[i]) = 2 => t[start[i] + 1] = Repairs(s)[i][2]
    BY <1>1 DEF Spaced
  <2>2. start[i] \in Nat \ {0} /\ start[i + 1] \in Nat
    BY <1>0, <1>3
  <2>3. CASE ~ Missing(s, i)
    <3>1. Len(Repairs(s)[i]) = 1 /\ Repairs(s)[i][1] = Fixed(s, i)
      BY <1>0, <2>3 DEF Repairs
    <3> QED BY <1>2, <2>1, <2>2, <2>3, <3>1
  <2>4. CASE Missing(s, i)
    <3>1. Len(Repairs(s)[i]) = 2 /\ Repairs(s)[i][1] = Fixed(s, i) /\ Repairs(s)[i][2] = Closing(s[i].calls)
      BY <1>0, <2>4 DEF Repairs
    <3>2. t[start[i]] = Fixed(s, i) /\ t[start[i] + 1] = Closing(s[i].calls) /\ start[i + 1] = start[i] + 2
      BY <2>1, <3>1
    <3>3. start[i] \in 1 .. Len(t) /\ start[i] + 1 \in 1 .. Len(t)
      <4>1. start[i] + 2 - 1 <= Len(t)
        BY <2>1, <2>2, <3>2
      <4> QED BY <1>2, <2>2, <4>1, BothWithin, Zenon
    <3> QED BY <2>4, <3>2, <3>3
  <2> QED BY <2>3, <2>4
<1>5. \A p \in 1 .. Len(t) : \E i \in 1 .. N :
         p = start[i] \/ (Missing(s, i) /\ p = start[i] + 1)
  <2>1. \A i \in 1 .. N : Len(Repairs(s)[i]) = 2 => Missing(s, i)
    BY <1>0 DEF Repairs
  <2>2. \A p \in 1 .. Len(t) : \E i \in 1 .. N :
          p = start[i] \/ (Len(Repairs(s)[i]) = 2 /\ p = start[i] + 1)
    BY <1>1 DEF Spaced
  <2> QED BY <2>1, <2>2
<1>6. \A i \in 1 .. N : /\ Closing(s[i].calls).calls = {} /\ Closing(s[i].calls).results = s[i].calls
                        /\ IsUser(Closing(s[i].calls))
  BY DEF Closing, IsUser, IsAssistant
<1>7. ASSUME NEW i \in 1 .. N
      PROVE  /\ Fixed(s, i).calls = s[i].calls /\ Fixed(s, i).kind = s[i].kind
             /\ Fixed(s, i).results = IF Answers(s, i) THEN s[i - 1].calls ELSE s[i].results
  BY <1>0 DEF Fixed, Message
<1>8. \A i \in 1 .. N : /\ IsUser(Fixed(s, i)) = IsUser(s[i]) /\ IsAssistant(Fixed(s, i)) = IsAssistant(s[i])
  BY <1>7 DEF IsUser, IsAssistant
<1>9. \A i \in 1 .. N : /\ s[i].calls # {} => IsAssistant(s[i])
                        /\ s[i].results # {} => IsUser(s[i])
  BY DEF Linked, Roles
<1>10. \A i \in 1 .. N : \A c \in s[i].calls \ m : s[i].calls \cap m = {}
  BY DEF Linked, Uniform
<1>11. \A i, j \in 1 .. N : \A c \in s[i].calls : c \in s[j].calls => i = j
  BY DEF Linked, Distinct
(* A result that has a name is that of a message that answers.              *)
<1>12. ASSUME NEW j \in 1 .. N, NEW c \in Fixed(s, j).results \ m
       PROVE  Answers(s, j) /\ j > 1 /\ c \in s[j - 1].calls
  <2>1. CASE Answers(s, j)
    BY <1>7, <2>1 DEF Answers
  <2>2. CASE ~ Answers(s, j)
    <3>1. c \in s[j].results \ m
      BY <1>7, <2>2
    <3>2. j > 1 /\ c \in s[j - 1].calls
      BY <3>1 DEF Linked, Adjacent
    <3>3. IsUser(s[j])
      BY <1>9, <3>1
    <3> QED BY <2>2, <3>2, <3>3 DEF Answers
  <2> QED BY <2>1, <2>2
<1>13. ASSUME NEW j \in 1 .. N, Answers(s, j)
       PROVE  start[j] > 1 /\ t[start[j] - 1] = Fixed(s, j - 1) /\ j - 1 \in 1 .. N
  <2>1. j > 1 /\ IsUser(s[j])
    BY <1>13 DEF Answers
  <2>2. j - 1 \in 1 .. N /\ (j - 1) + 1 = j /\ j - 1 # N
    BY <1>0, <2>1
  <2>3. ~ Missing(s, j - 1)
    BY <2>1, <2>2 DEF Missing
  <2>4. start[j] = start[j - 1] + 1 /\ t[start[j - 1]] = Fixed(s, j - 1) /\ start[j - 1] \in 1 .. Len(t)
    BY <1>4, <2>2, <2>3
  <2>5. start[j] - 1 = start[j - 1] /\ start[j] > 1
    BY <1>2, <2>4
  <2> QED BY <2>2, <2>4, <2>5
(* An unanswered call: the next message is the user's, or it is missing.    *)
<1>14. ASSUME NEW i \in 1 .. N, NEW c \in s[i].calls \ m
       PROVE  Missing(s, i) \/ (i + 1 \in 1 .. N /\ Answers(s, i + 1))
  <2>1. CASE i # N /\ IsUser(s[i + 1])
    <3>1. i + 1 \in 1 .. N /\ (i + 1) - 1 = i /\ i + 1 > 1
      BY <1>0, <2>1
    <3> QED BY <2>1, <3>1 DEF Answers
  <2>2. CASE i = N \/ ~ IsUser(s[i + 1])
    <3> SUFFICES ASSUME NEW d \in s[i].calls, d \in AnsweredAfter(s, i) PROVE FALSE
      BY <2>2 DEF Missing
    <3>1. i + 1 \in 1 .. N /\ d \in s[i + 1].results
      BY AnswerFollows
    <3>2. IsUser(s[i + 1]) /\ i # N
      BY <1>0, <1>9, <3>1
    <3> QED BY <2>2, <3>2
  <2> QED BY <2>1, <2>2
<1> HIDE DEF N
<1>c. ASSUME NEW p \in 1 .. Len(t), t[p].calls # {}
      PROVE  \E i \in 1 .. N : p = start[i] /\ t[p] = Fixed(s, i) /\ t[p].calls = s[i].calls
  <2>1. PICK i \in 1 .. N : p = start[i] \/ (Missing(s, i) /\ p = start[i] + 1)
    BY <1>5
  <2>2. CASE Missing(s, i) /\ p = start[i] + 1
    BY <1>4, <1>6, <1>c, <2>2
  <2> QED BY <1>4, <1>7, <2>1, <2>2
<1>15. Roles(t)
  <2> SUFFICES ASSUME NEW p \in 1 .. Len(t)
               PROVE  /\ t[p].calls # {} => IsAssistant(t[p])
                      /\ t[p].results # {} => IsUser(t[p])
    BY DEF Roles
  <2>1. PICK i \in 1 .. N : p = start[i] \/ (Missing(s, i) /\ p = start[i] + 1)
    BY <1>5
  <2>2. CASE p = start[i]
    <3>1. Fixed(s, i).results # {} => IsUser(s[i])
      BY <1>7, <1>9 DEF Answers
    <3> QED BY <1>4, <1>7, <1>8, <1>9, <2>2, <3>1
  <2>3. CASE Missing(s, i) /\ p = start[i] + 1
    BY <1>4, <1>6, <2>3
  <2> QED BY <2>1, <2>2, <2>3
<1>16. Distinct(t)
  <2> SUFFICES ASSUME NEW p \in 1 .. Len(t), NEW q \in 1 .. Len(t), NEW c \in t[p].calls, c \in t[q].calls
               PROVE  p = q
    BY DEF Distinct
  <2>1. PICK i \in 1 .. N : p = start[i] /\ t[p].calls = s[i].calls
    BY <1>c
  <2>2. PICK j \in 1 .. N : q = start[j] /\ t[q].calls = s[j].calls
    BY <1>c
  <2> QED BY <1>11, <2>1, <2>2
<1>17. Uniform(t, m)
  <2> SUFFICES ASSUME NEW p \in 1 .. Len(t), NEW c \in t[p].calls \ m PROVE t[p].calls \cap m = {}
    BY DEF Uniform
  <2>1. PICK i \in 1 .. N : t[p].calls = s[i].calls
    BY <1>c
  <2> QED BY <1>10, <2>1
<1>18. Adjacent(t, m)
  <2> SUFFICES ASSUME NEW p \in 1 .. Len(t), NEW c \in t[p].results \ m
               PROVE  p > 1 /\ c \in t[p - 1].calls
    BY DEF Adjacent
  <2>1. PICK i \in 1 .. N : p = start[i] \/ (Missing(s, i) /\ p = start[i] + 1)
    BY <1>5
  <2>2. CASE p = start[i]
    <3>1. Answers(s, i) /\ c \in s[i - 1].calls
      BY <1>4, <1>12, <2>2
    <3> QED BY <1>7, <1>13, <2>2, <3>1
  <2>3. CASE Missing(s, i) /\ p = start[i] + 1
    <3>1. t[p].results = s[i].calls /\ t[start[i]].calls = s[i].calls /\ start[i] \in 1 .. Len(t)
      BY <1>4, <1>6, <1>7, <2>3
    <3>2. p > 1 /\ p - 1 = start[i]
      BY <1>2, <2>3, <3>1
    <3> QED BY <3>1, <3>2
  <2> QED BY <2>1, <2>2, <2>3
<1>19. Closed(t, m)
  <2> SUFFICES ASSUME NEW p \in 1 .. Len(t), NEW c \in t[p].calls \ m
               PROVE  p < Len(t) /\ t[p].calls \subseteq t[p + 1].results
    BY DEF Closed
  <2>1. PICK i \in 1 .. N : p = start[i] /\ t[p].calls = s[i].calls
    BY <1>c
  <2>2. CASE Missing(s, i)
    <3>1. p + 1 \in 1 .. Len(t) /\ t[p + 1].results = s[i].calls
      BY <1>4, <1>6, <2>1, <2>2
    <3> QED BY <1>2, <2>1, <3>1
  <2>3. CASE ~ Missing(s, i)
    <3>1. i + 1 \in 1 .. N /\ Answers(s, i + 1)
      BY <1>14, <2>1, <2>3
    <3>2. start[i + 1] = p + 1 /\ p + 1 \in 1 .. Len(t) /\ t[p + 1] = Fixed(s, i + 1)
      BY <1>4, <2>1, <2>3, <3>1
    <3>3. (i + 1) - 1 = i
      BY <1>0
    <3>4. Fixed(s, i + 1).results = s[i].calls
      BY <1>7, <3>1, <3>3
    <3> QED BY <1>2, <2>1, <3>2, <3>4
  <2> QED BY <2>2, <2>3
<1> QED BY <1>1, <1>15, <1>16, <1>17, <1>18, <1>19 DEF Linked

(* prune_conversation_history keeps calls and results of a request matched. *)
LEMMA PrunePaired ==
    ASSUME NEW s \in Seq(Message), NEW m, Linked(s, m), Closed(s, m)
    PROVE  Paired(Prune(s), m)
<1>0. Len(s) \in Nat /\ KeepMessages \in Nat
  BY ConversationBounds
<1>1. CASE Prune(s) = s
  BY <1>1, LinkedPaired
<1>2. ASSUME NEW from \in 0 .. Len(s), NEW r,
             Len(s) >= 1, Len(s) - from >= KeepMessages, ~ SplitsPair(s, from),
             Len(r) = Len(s) - from + 1, r[1] = s[1],
             \A i \in 2 .. Len(r) : r[i] = s[from + i - 1] /\ from + i - 1 \in 1 .. Len(s)
      PROVE  Paired(r, m)
  <2>0. Len(r) \in Nat /\ Len(r) > KeepMessages
    BY <1>0, <1>2
  <2>1. s[1].results \ m = {}
    <3> SUFFICES ASSUME NEW c \in s[1].results \ m PROVE FALSE
      OBVIOUS
    <3>1. 1 \in 1 .. Len(s) /\ ~ (1 > 1)
      BY <1>0, <1>2
    <3> QED BY <3>1 DEF Linked, Adjacent
  <2>2. ASSUME NEW i \in 1 .. Len(r), r[i].calls # {}, r[i].calls \cap m = {}
        PROVE  \/ i < Len(r) /\ r[i].calls \subseteq r[i + 1].results
               \/ i = 1 /\ Len(r) > KeepMessages
    <3>1. CASE i = 1
      BY <2>0, <3>1
    <3>2. CASE i # 1
      <4>1. i \in 2 .. Len(r)
        BY <2>0, <3>2
      <4>2. PICK q \in 1 .. Len(s) : q = from + i - 1 /\ r[i] = s[q]
        BY <1>2, <4>1
      <4>3. PICK c : c \in s[q].calls \ m
        BY <2>2, <4>2
      <4>4. q < Len(s) /\ s[q].calls \subseteq s[q + 1].results
        BY <4>3 DEF Closed
      <4>5. i < Len(r) /\ i + 1 \in 2 .. Len(r) /\ from + (i + 1) - 1 = q + 1
        BY <1>0, <1>2, <2>0, <4>1, <4>2, <4>4
      <4>6. r[i + 1] = s[q + 1]
        BY <1>2, <4>5
      <4> QED BY <4>2, <4>4, <4>5, <4>6
    <3> QED BY <3>1, <3>2
  <2>3. ASSUME NEW j \in 1 .. Len(r), NEW c \in r[j].results \ m
        PROVE  /\ j > 1 /\ c \in r[j - 1].calls
               /\ from + j - 1 \in 1 .. Len(s) /\ from + j - 1 > 1 /\ c \in s[from + j - 1 - 1].calls
    <3>1. j # 1
      BY <1>2, <2>1, <2>3
    <3>2. j \in 2 .. Len(r)
      BY <2>0, <3>1
    <3>3. PICK q \in 1 .. Len(s) : q = from + j - 1 /\ r[j] = s[q]
      BY <1>2, <3>2
    <3>4. q > 1 /\ c \in s[q - 1].calls
      BY <3>3 DEF Linked, Adjacent
    <3>5. CASE j = 2
      <4>1. q = from + 1 /\ q - 1 = from /\ from > 0
        BY <1>0, <3>3, <3>4, <3>5
      <4>2. from \in 1 .. from /\ q \in from + 1 .. Len(s)
        BY <1>0, <4>1
      <4>3. c \in s[from].calls \cap s[q].results
        BY <3>3, <3>4, <4>1
      <4>4. SplitsPair(s, from)
        BY <4>2, <4>3 DEF SplitsPair
      <4> QED BY <1>2, <4>4
    <3>6. CASE j # 2
      <4>1. j - 1 \in 2 .. Len(r) /\ from + (j - 1) - 1 = q - 1 /\ j > 1
        BY <1>0, <2>0, <3>2, <3>3, <3>6
      <4>2. r[j - 1] = s[q - 1]
        BY <1>2, <4>1
      <4> QED BY <3>3, <3>4, <4>1, <4>2
    <3> QED BY <3>5, <3>6
  <2>4. ASSUME NEW j \in 1 .. Len(r), NEW c \in r[j].results \ m, NEW k \in 1 .. Len(r), c \in r[k].results
        PROVE  k = j
    <3>1. PICK q \in 1 .. Len(s) : q = from + j - 1 /\ q > 1 /\ c \in s[q - 1].calls
      BY <2>3
    <3>2. PICK u \in 1 .. Len(s) : u = from + k - 1 /\ u > 1 /\ c \in s[u - 1].calls
      BY <2>3, <2>4
    <3>3. q - 1 \in 1 .. Len(s) /\ u - 1 \in 1 .. Len(s)
      BY <1>0, <3>1, <3>2
    <3>4. q - 1 = u - 1
      BY <3>1, <3>2, <3>3 DEF Linked, Distinct
    <3> QED BY <1>0, <2>0, <3>1, <3>2, <3>4
  <2> QED BY <2>2, <2>3, <2>4 DEF Paired
<1>3. CASE Prune(s) # s
  <2>1. PICK from \in 0 .. Len(s) :
          /\ Len(s) >= 1 /\ Len(s) - from >= KeepMessages
          /\ ~ SplitsPair(s, from)
          /\ Len(Prune(s)) = Len(s) - from + 1
          /\ Prune(s)[1] = s[1]
          /\ \A i \in 2 .. Len(Prune(s)) : Prune(s)[i] = s[from + i - 1] /\ from + i - 1 \in 1 .. Len(s)
    BY <1>3, PruneFacts
  <2>2. PICK r : r = Prune(s)
    OBVIOUS
  <2>3. Paired(r, m)
    BY <1>2, <2>1, <2>2
  <2> QED BY <2>2, <2>3
<1> QED BY <1>1, <1>3

(* The messages that stay in view, in their old places.                     *)
From(i, end) == IF i <= 2 THEN i ELSE end + i - 2

(* Of what stays, only the first message after the hidden ones may have     *)
(* results whose calls are gone, and then the second makes none of these.   *)
LEMMA KeptLinked ==
    ASSUME NEW h \in Seq(Message), Len(h) >= 2, NEW end \in Cuts, NEW m, NEW n, Sound(h, m, n),
           NEW K, K = Kept(h, end)
    PROVE  /\ Roles(K) /\ Distinct(K) /\ Uniform(K, m)
           /\ \A j \in 1 .. Len(K) : \A c \in K[j].results \ m :
                (j = 3 => end = 2) => j > 1 /\ c \in K[j - 1].calls
           /\ end > 2 /\ Pair(K) => K[3].results \subseteq m
<1>1. /\ K \in Seq(Message) /\ Len(K) \in Nat /\ Len(K) >= 2
      /\ K[1] = h[1] /\ K[2] = h[2]
      /\ \A i \in 3 .. Len(K) : K[i] = h[end + i - 2] /\ end + i - 2 \in 3 .. Len(h)
  BY KeptFacts
<1>2. end \in Nat /\ end >= 2 /\ Len(h) \in Nat
  BY DEF Cuts
<1>3. ASSUME NEW i \in 1 .. Len(K)
      PROVE  From(i, end) \in 1 .. Len(h) /\ K[i] = h[From(i, end)] /\ (i > 2 => From(i, end) > end)
  <2>1. CASE i = 1 \/ i = 2
    BY <1>1, <1>2, <2>1 DEF From
  <2>2. CASE i \in 3 .. Len(K)
    BY <1>1, <1>2, <2>2 DEF From
  <2> QED BY <1>1, <2>1, <2>2
<1>4. \A i, j \in 1 .. Len(K) : From(i, end) = From(j, end) => i = j
  BY <1>1, <1>2 DEF From
<1>5. Roles(K)
  BY <1>3 DEF Sound, Linked, Roles
<1>6. Uniform(K, m)
  BY <1>3 DEF Sound, Linked, Uniform
<1>7. Distinct(K)
  <2> SUFFICES ASSUME NEW i \in 1 .. Len(K), NEW j \in 1 .. Len(K), NEW c \in K[i].calls, c \in K[j].calls
               PROVE  i = j
    BY DEF Distinct
  <2>1. From(i, end) = From(j, end)
    BY <1>3 DEF Sound, Linked, Distinct
  <2> QED BY <1>4, <2>1
<1>8. ASSUME NEW j \in 1 .. Len(K), NEW c \in K[j].results \ m
      PROVE  From(j, end) > 1 /\ c \in h[From(j, end) - 1].calls
  BY <1>3 DEF Sound, Linked, Adjacent
<1>9. ASSUME NEW j \in 1 .. Len(K), NEW c \in K[j].results \ m, j = 3 => end = 2
      PROVE  j > 1 /\ c \in K[j - 1].calls
  <2>1. j # 1
    BY <1>8, <1>9 DEF From
  <2>2. j - 1 \in 1 .. Len(K) /\ From(j - 1, end) = From(j, end) - 1
    BY <1>1, <1>2, <1>9, <2>1 DEF From
  <2>3. K[j - 1] = h[From(j, end) - 1]
    BY <1>3, <2>2
  <2> QED BY <1>1, <1>8, <2>1, <2>3
<1>10. ASSUME end > 2, Pair(K) PROVE K[3].results \subseteq m
  <2>1. 2 \in 1 .. Len(K) /\ 3 \in 1 .. Len(K) /\ \E d \in K[2].calls : d \in K[3].results
    BY <1>1, <1>10 DEF Pair
  <2>2. PICK d \in K[2].calls : d \in K[3].results
    BY <2>1
  <2>3. From(3, end) = end + 1 /\ From(2, end) = 2
    BY <1>2 DEF From
  <2>4. K[3] = h[end + 1] /\ end + 1 \in 1 .. Len(h)
    BY <1>3, <2>1, <2>3
  <2>5. d \in m
    <3> SUFFICES ASSUME d \notin m PROVE FALSE
      OBVIOUS
    <3>1. d \in h[(end + 1) - 1].calls
      BY <1>8, <2>1, <2>2, <2>3
    <3>2. end \in 1 .. Len(h) /\ 2 \in 1 .. Len(h) /\ (end + 1) - 1 = end
      BY <1>2, <2>4
    <3>3. end = 2
      BY <1>1, <2>2, <3>1, <3>2 DEF Sound, Linked, Distinct
    <3> QED BY <1>10, <3>3
  <2> SUFFICES ASSUME NEW c \in K[3].results, c \notin m PROVE FALSE
    OBVIOUS
  <2>6. h[end + 1].results \cap m = {}
    BY <2>4 DEF Sound, UniformResults
  <2> QED BY <2>2, <2>4, <2>5, <2>6
<1> QED BY <1>5, <1>6, <1>7, <1>9, <1>10

(* With the summary put between, and the results after it taken off, what   *)
(* stays in view fits together (apply_context_history_updates).             *)
LEMMA VisibleLinked ==
    ASSUME NEW h \in Seq(Message), Len(h) >= 2, NEW end \in Cuts, NEW m, NEW n, Sound(h, m, n),
           NEW summarised \in BOOLEAN
    PROVE  Linked(Visible(h, end, summarised), m)
<1>1. PICK K : K = Kept(h, end)
  OBVIOUS
<1>2. K \in Seq(Message) /\ Len(K) \in Nat /\ Len(K) >= 2
  BY <1>1, KeptFacts
<1>3. /\ Roles(K) /\ Distinct(K) /\ Uniform(K, m)
      /\ \A j \in 1 .. Len(K) : \A c \in K[j].results \ m :
           (j = 3 => end = 2) => j > 1 /\ c \in K[j - 1].calls
      /\ end > 2 /\ Pair(K) => K[3].results \subseteq m
  BY <1>1, KeptLinked
<1>4. end \in Nat /\ end >= 2
  BY DEF Cuts
<1>5. CASE ~summarised
  <2>1. Visible(h, end, summarised) = IF end > 2 THEN StripResults(K, 3) ELSE K
    BY <1>1, <1>5, VisibleIs DEF WithSummary
  <2>2. CASE end = 2
    BY <1>3, <2>1, <2>2 DEF Linked, Adjacent
  <2>3. CASE end > 2
    <3>1. PICK V : V = StripResults(K, 3)
      OBVIOUS
    <3>2. /\ V \in Seq(Message) /\ Len(V) = Len(K)
          /\ \A p \in 1 .. Len(K) :
               /\ V[p].kind = K[p].kind /\ V[p].calls = K[p].calls
               /\ V[p].results = IF p = 3 /\ IsUser(K[p]) THEN {} ELSE K[p].results
      BY <1>2, <3>1, StripFacts
    <3>3. \A p \in 1 .. Len(K) : V[p].results \subseteq K[p].results
      BY <3>2
    <3>4. Roles(V)
      BY <1>3, <3>2, <3>3 DEF Roles, IsUser, IsAssistant
    <3>5. Distinct(V) /\ Uniform(V, m)
      BY <1>3, <3>2 DEF Distinct, Uniform
    <3>6. ASSUME NEW j \in 1 .. Len(V), NEW c \in V[j].results \ m PROVE j > 1 /\ c \in V[j - 1].calls
      <4>1. c \in K[j].results \ m /\ j # 3
        <5>1. c \in K[j].results \ m
          BY <3>2, <3>3
        <5>2. IsUser(K[j])
          BY <1>3, <3>2, <5>1 DEF Roles
        <5> QED BY <3>2, <5>1, <5>2
      <4>2. j > 1 /\ c \in K[j - 1].calls
        BY <1>3, <3>2, <4>1
      <4>3. j - 1 \in 1 .. Len(K)
        BY <1>2, <3>2, <4>2
      <4> QED BY <3>2, <4>2, <4>3
    <3> QED BY <2>1, <2>3, <3>1, <3>4, <3>5, <3>6 DEF Linked, Adjacent
  <2> QED BY <1>4, <2>2, <2>3
<1>6. CASE summarised
  <2>1. PICK A, k : A = WithSummary(K, TRUE) /\ k = After(K, TRUE)
    OBVIOUS
  <2>2. /\ k \in {2, 3} /\ k <= Len(K)
        /\ A \in Seq(Message) /\ Len(A) = Len(K) + 1
        /\ \A i \in 1 .. k : A[i] = K[i]
        /\ A[k + 1] = Summary
        /\ \A i \in k + 2 .. Len(A) : A[i] = K[i - 1]
    BY <1>2, <2>1, SummaryFacts
  <2>3. PICK V : V = IF end > 2 THEN StripResults(A, k + 2) ELSE A
    OBVIOUS
  <2>4. Visible(h, end, summarised) = V
    BY <1>1, <1>6, <2>1, <2>3, VisibleIs
  <2>5. /\ Len(V) = Len(A)
        /\ \A p \in 1 .. Len(A) :
             /\ V[p].kind = A[p].kind /\ V[p].calls = A[p].calls
             /\ V[p].results = IF end > 2 /\ p = k + 2 /\ IsUser(A[p]) THEN {} ELSE A[p].results
    <3>1. CASE end > 2
      <4>1. k + 2 \in Nat \ {0}
        BY <2>2
      <4>2. V = StripResults(A, k + 2)
        BY <2>3, <3>1
      <4> QED BY <2>2, <3>1, <4>1, <4>2, StripFacts
    <3>2. CASE ~ (end > 2)
      BY <2>3, <3>2
    <3> QED BY <3>1, <3>2
  <2>6. Summary.calls = {} /\ Summary.results = {}
    BY DEF Summary
  <2>7. ASSUME NEW p \in 1 .. Len(V)
        PROVE  \/ p = k + 1 /\ V[p].calls = {} /\ V[p].results = {}
               \/ /\ p \in 1 .. k /\ p \in 1 .. Len(K)
                  /\ V[p].kind = K[p].kind /\ V[p].calls = K[p].calls /\ V[p].results = K[p].results
               \/ /\ p \in k + 2 .. Len(V) /\ p - 1 \in 1 .. Len(K) /\ p - 1 >= k + 1
                  /\ V[p].kind = K[p - 1].kind /\ V[p].calls = K[p - 1].calls
                  /\ V[p].results = IF end > 2 /\ p = k + 2 /\ IsUser(K[p - 1]) THEN {} ELSE K[p - 1].results
    <3>1. CASE p = k + 1
      <4>1. V[p].calls = A[p].calls /\ V[p].results = A[p].results /\ A[p] = Summary
        BY <2>2, <2>5, <3>1
      <4> QED BY <2>6, <3>1, <4>1
    <3>2. CASE p \in 1 .. k
      <4>1. p # k + 2 /\ A[p] = K[p] /\ p \in 1 .. Len(K)
        BY <1>2, <2>2, <3>2
      <4> QED BY <2>5, <3>2, <4>1
    <3>3. CASE p \in k + 2 .. Len(V)
      <4>1. A[p] = K[p - 1] /\ p - 1 \in 1 .. Len(K) /\ p - 1 >= k + 1
        BY <1>2, <2>2, <2>5, <3>3
      <4> QED BY <2>5, <3>3, <4>1
    <3> QED BY <1>2, <2>2, <2>5, <3>1, <3>2, <3>3
  <2>8. Roles(V)
    <3> SUFFICES ASSUME NEW p \in 1 .. Len(V)
                 PROVE  /\ V[p].calls # {} => IsAssistant(V[p])
                        /\ V[p].results # {} => IsUser(V[p])
      BY DEF Roles
    <3>1. CASE p = k + 1 /\ V[p].calls = {} /\ V[p].results = {}
      BY <3>1
    <3>2. ASSUME NEW q \in 1 .. Len(K), V[p].kind = K[q].kind, V[p].calls = K[q].calls,
                 V[p].results \subseteq K[q].results
          PROVE  /\ V[p].calls # {} => IsAssistant(V[p])
                 /\ V[p].results # {} => IsUser(V[p])
      BY <1>3, <3>2 DEF Roles, IsUser, IsAssistant
    <3> QED BY <2>7, <3>1, <3>2
  <2>9. ASSUME NEW p \in 1 .. Len(V), V[p].calls # {}
        PROVE  \/ p \in 1 .. k /\ p \in 1 .. Len(K) /\ V[p].calls = K[p].calls
               \/ p \in k + 2 .. Len(V) /\ p - 1 \in 1 .. Len(K) /\ V[p].calls = K[p - 1].calls
    BY <2>7, <2>9
  <2>10. Uniform(V, m)
    <3> SUFFICES ASSUME NEW p \in 1 .. Len(V), NEW c \in V[p].calls \ m PROVE V[p].calls \cap m = {}
      BY DEF Uniform
    <3>1. PICK q \in 1 .. Len(K) : V[p].calls = K[q].calls
      BY <2>9
    <3> QED BY <1>3, <3>1 DEF Uniform
  <2>11. Distinct(V)
    <3> SUFFICES ASSUME NEW p \in 1 .. Len(V), NEW q \in 1 .. Len(V), NEW c \in V[p].calls, c \in V[q].calls
                 PROVE  p = q
      BY DEF Distinct
    <3>1. PICK x \in 1 .. Len(K) : c \in K[x].calls /\ ((p \in 1 .. k /\ x = p) \/ (p \in k + 2 .. Len(V) /\ x = p - 1))
      BY <2>9
    <3>2. PICK y \in 1 .. Len(K) : c \in K[y].calls /\ ((q \in 1 .. k /\ y = q) \/ (q \in k + 2 .. Len(V) /\ y = q - 1))
      BY <2>9
    <3>3. x = y
      BY <1>3, <3>1, <3>2 DEF Distinct
    <3> QED BY <1>2, <2>2, <2>5, <3>1, <3>2, <3>3
  <2>12. ASSUME NEW j \in 1 .. Len(V), NEW c \in V[j].results \ m PROVE j > 1 /\ c \in V[j - 1].calls
    <3>1. CASE j \in 1 .. k /\ j \in 1 .. Len(K) /\ V[j].results = K[j].results
      <4>1. j = 3 => end = 2
        <5> SUFFICES ASSUME j = 3, end # 2 PROVE FALSE
          OBVIOUS
        <5>1. k = 3 /\ Pair(K)
          BY <2>1, <2>2, <3>1 DEF After
        <5>2. K[3].results \subseteq m
          BY <1>3, <1>4, <5>1
        <5> QED BY <3>1, <5>2
      <4>2. j > 1 /\ c \in K[j - 1].calls
        BY <1>3, <3>1, <4>1
      <4>3. j - 1 \in 1 .. k /\ j - 1 \in 1 .. Len(V) /\ j - 1 # k + 1
        BY <1>2, <2>2, <2>5, <3>1, <4>2
      <4>4. V[j - 1].calls = K[j - 1].calls
        <5>1. ~ (j - 1 \in k + 2 .. Len(V))
          BY <2>2, <4>3
        <5> QED BY <2>7, <4>3, <5>1
      <4> QED BY <4>2, <4>4
    <3>2. CASE /\ j \in k + 2 .. Len(V) /\ j - 1 \in 1 .. Len(K) /\ j - 1 >= k + 1
               /\ V[j].results = IF end > 2 /\ j = k + 2 /\ IsUser(K[j - 1]) THEN {} ELSE K[j - 1].results
      <4>1. c \in K[j - 1].results \ m
        BY <3>2
      <4>2. IsUser(K[j - 1])
        BY <1>3, <3>2, <4>1 DEF Roles
      <4>3. j = k + 2 => end = 2
        BY <1>4, <3>2, <4>1, <4>2
      <4>4. (j - 1 = 3 => end = 2)
        BY <2>2, <3>2, <4>3
      <4>5. j - 1 > 1 /\ c \in K[(j - 1) - 1].calls
        BY <1>3, <3>2, <4>1, <4>4
      <4>6. j # k + 2
        <5> SUFFICES ASSUME j = k + 2 PROVE FALSE
          OBVIOUS
        <5>1. CASE k = 2
          <6>1. j - 1 = 3 /\ (j - 1) - 1 = 2 /\ Len(K) > 2
            BY <1>2, <3>2, <5>1
          <6>2. Pair(K)
            BY <4>1, <4>5, <6>1 DEF Pair
          <6> QED BY <2>1, <5>1, <6>2 DEF After
        <5>2. CASE k = 3
          <6>1. Pair(K) /\ (j - 1) - 1 = 3 /\ 3 \in 1 .. Len(K)
            BY <1>2, <2>1, <2>2, <5>2 DEF After
          <6>2. IsUser(K[3]) /\ IsAssistant(K[3])
            BY <1>3, <4>5, <6>1 DEF Roles, Pair
          <6> QED BY <6>2 DEF IsUser
        <5> QED BY <2>2, <5>1, <5>2
      <4>7. j - 1 \in k + 2 .. Len(V) /\ j - 1 \in 1 .. Len(V) /\ j - 1 # k + 1 /\ ~ (j - 1 \in 1 .. k) /\ j > 1
        BY <1>2, <2>2, <2>5, <3>2, <4>6
      <4>8. V[j - 1].calls = K[(j - 1) - 1].calls
        BY <2>7, <4>7
      <4> QED BY <4>5, <4>7, <4>8
    <3> QED BY <2>7, <3>1, <3>2
  <2> QED BY <2>4, <2>8, <2>10, <2>11, <2>12 DEF Linked, Adjacent
<1> QED BY <1>5, <1>6

(* The request: what is left of a sound history whose calls are closed.     *)
LEMMA RequestPaired ==
    ASSUME NEW h \in Seq(Message), NEW end \in Cuts, NEW m, NEW n, Sound(h, m, n), Closed(h, m),
           NEW summarised \in BOOLEAN
    PROVE  Paired(Prune(Truncated(h, end, summarised)), m)
<1>1. CASE Len(h) <= 1 \/ (end = 2 /\ ~summarised)
  <2>1. Truncated(h, end, summarised) = h
    BY <1>1 DEF Truncated
  <2> QED BY <2>1, PrunePaired DEF Sound
<1>2. CASE ~ (Len(h) <= 1 \/ (end = 2 /\ ~summarised))
  <2>1. Len(h) >= 2
    BY <1>2
  <2>2. Truncated(h, end, summarised) = Repair(Visible(h, end, summarised))
    BY <1>2 DEF Truncated
  <2>3. PICK v : v = Visible(h, end, summarised)
    OBVIOUS
  <2>4. v \in Seq(Message) /\ Linked(v, m)
    BY <2>1, <2>3, VisibleType, VisibleLinked
  <2>5. Repair(v) \in Seq(Message) /\ Linked(Repair(v), m) /\ Closed(Repair(v), m)
    BY <2>4, RepairSpaced, RepairClosed
  <2> QED BY <2>2, <2>3, <2>5, PrunePaired
<1> QED BY <1>1, <1>2

(* The inductive invariant behind CallsPaired.                              *)
PairInv ==
    /\ Sound(history, mixed, spent.calls)
    /\ Sound(saved.history, mixed, spent.calls)
    /\ mixed \subseteq 1 .. spent.calls
    /\ at = "request" => Closed(history, mixed)
    /\ Paired(request, mixed)

(* A text of the user or of the loop may follow anything.                   *)
LEMMA AppendText ==
    ASSUME NEW s \in Seq(Message), NEW x \in Message, NEW m, NEW n, Sound(s, m, n),
           x.calls = {}, x.results = {}
    PROVE  Append(s, x) \in Seq(Message) /\ Sound(Append(s, x), m, n)
BY AppendSound

(* The results of the calls with a name follow the message that makes them. *)
LEMMA AppendAnswer ==
    ASSUME NEW s \in Seq(Message), s # <<>>, NEW x \in Message, NEW m, NEW n, Sound(s, m, n), NEW unnamed,
           unnamed \subseteq m, x.calls = {}, x.results = s[Len(s)].calls \ unnamed, IsUser(x)
    PROVE  Append(s, x) \in Seq(Message) /\ Sound(Append(s, x), m, n)
<1>1. Len(s) \in 1 .. Len(s)
  OBVIOUS
<1>2. s[Len(s)].calls \subseteq 1 .. n
  BY <1>1 DEF Sound, Below
<1>3. ASSUME NEW c \in x.results \ m
      PROVE  c \in s[Len(s)].calls /\ s[Len(s)].calls \subseteq x.results /\ x.results \cap m = {}
  <2>1. s[Len(s)].calls \cap m = {}
    BY <1>1, <1>3 DEF Sound, Linked, Uniform
  <2> QED BY <1>3, <2>1
<1>4. x.results \subseteq 1 .. n
  BY <1>2
<1>5. \A c \in x.results \ m : /\ s # <<>> /\ c \in s[Len(s)].calls
                               /\ s[Len(s)].calls \subseteq x.results
                               /\ x.results \cap m = {}
  BY <1>3
<1> QED BY <1>4, <1>5, AppendSound

(* Appending one message, two or none.                                      *)
LEMMA AppendTwo ==
    ASSUME NEW h \in Seq(Message), NEW a \in Message, NEW b \in Message
    PROVE  /\ h \o <<>> = h /\ h \o <<a>> = Append(h, a)
           /\ h \o <<a, b>> = Append(Append(h, a), b)
OBVIOUS

(* An empty request has nothing to match.                                   *)
LEMMA NothingPaired == ASSUME NEW m PROVE Paired(<<>>, m)
BY DEF Paired

(* What the loop appends, as messages.                                      *)
LEMMA MessageKinds ==
    /\ Note.calls = {} /\ Note.results = {}
    /\ \A n : Prompt(n).calls = {} /\ Prompt(n).results = {}
    /\ \A c : /\ Reply(c).calls = c /\ Reply(c).results = {} /\ IsAssistant(Reply(c))
              /\ Results(c).calls = {} /\ Results(c).results = c /\ IsUser(Results(c))
              /\ Failed(c).calls = {} /\ Failed(c).results = c /\ IsUser(Failed(c))
BY DEF Note, Prompt, Reply, Results, Failed, IsUser, IsAssistant

(* The history on disk is the one of before or the one of memory.           *)
LEMMA EndTurnSaves ==
    ASSUME TypeInv, NEW how \in {"continue", "complete", "queued", "error"}, EndTurn(how),
           cut' \in Cuts, history' \in Seq(Message), summary' \in BOOLEAN
    PROVE  at' # "request" /\ (saved'.history = saved.history \/ saved'.history = history')
<1> DEFINE d == ForceSave(saved, how \in {"complete", "queued"})
           e == Record(d, how \in {"complete", "error"})
           Either(x) == x.history = saved.history \/ x.history = history'
<1>1. saved \in Disk
  BY DEF TypeInv
<1>2. \A x \in Disk : Either(x) => Either(Written(x)) /\ Either(Recorded(x)) /\ Either(WrittenSummary(x))
  BY OtherFields DEF Written, Disk
<1>3. d \in Disk /\ Either(d)
  BY <1>1, <1>2, DiskFacts DEF ForceSave
<1> HIDE DEF d
<1>4. e \in Disk /\ Either(e)
  BY <1>2, <1>3, DiskFacts DEF Record
<1> HIDE DEF e
<1>5. Written(e) \in Disk /\ Either(WrittenSummary(Written(e)))
  BY <1>2, <1>4, DiskFacts
<1>6. SaveTurn(e) /\ at' # "request"
  BY DEF EndTurn, e, d
<1>7. saved' = e \/ saved' = WrittenSummary(Written(e))
  BY <1>6 DEF SaveTurn
<1> QED BY <1>4, <1>5, <1>6, <1>7

(* A step that takes no new call.                                           *)
LEMMA PairKept ==
    ASSUME PairInv, mixed' = mixed, spent'.calls = spent.calls,
           Sound(history', mixed, spent.calls),
           saved'.history = saved.history \/ saved'.history = history',
           at' = "request" => Closed(history', mixed),
           Paired(request', mixed)
    PROVE  PairInv'
BY DEF PairInv

(* Every step keeps calls and results together, one action at a time.       *)
LEMMA PairStep == PairInv /\ TypeInv /\ TypeInv' /\ [Next]_vars => PairInv'
<1> SUFFICES ASSUME PairInv, TypeInv, TypeInv', [Next]_vars PROVE PairInv'
  OBVIOUS
<1>0. /\ history \in Seq(Message) /\ history' \in Seq(Message)
      /\ saved \in Disk /\ saved' \in Disk /\ saved.history \in Seq(Message)
      /\ cut \in Cuts /\ cut' \in Cuts /\ summary \in BOOLEAN /\ summary' \in BOOLEAN
      /\ nameless \subseteq mixed /\ mixed \subseteq CallId
      /\ SpentOK /\ SpentOK'
      /\ at = "tools" => history # <<>>
  BY DEF TypeInv, TypeOK, Cuts, Disk
<1>s. /\ Sound(history, mixed, spent.calls) /\ Sound(saved.history, mixed, spent.calls)
      /\ Paired(request, mixed)
  BY DEF PairInv
<1>n. /\ Note \in Message
      /\ \A c \in SUBSET CallId : Reply(c) \in Message /\ Results(c) \in Message /\ Failed(c) \in Message
  BY MessageFacts
<1>e. Paired(<<>>, mixed)
  BY NothingPaired
<1>k. spent.calls \in Nat /\ spent'.calls \in Nat
  <2>1. spent.calls \in 0 .. MaxCalls /\ spent'.calls \in 0 .. MaxCalls /\ MaxCalls \in Nat
    BY <1>0, ConversationBounds DEF SpentOK
  <2> QED BY <2>1
<1>u. ASSUME NEW used, Spend(used), \A b \in DOMAIN used : used[b] \in Nat, "calls" \notin DOMAIN used
      PROVE  spent'.calls = spent.calls
  <2>1. spent'["calls"] = spent["calls"] + 0
    BY <1>0, <1>u, SpendFacts
  <2> QED BY <1>k, <2>1
<1>w. ASSUME NEW y \in BOOLEAN
      PROVE  LET used == [notes |-> IF y THEN 1 ELSE 0] IN
             (\A b \in DOMAIN used : used[b] \in Nat) /\ "calls" \notin DOMAIN used
  OBVIOUS
(* A tail of the history that splits no pair.                               *)
<1>t. ASSUME NEW keep \in Nat
      PROVE  /\ KeepTail(keep).history \in Seq(Message)
             /\ Sound(KeepTail(keep).history, mixed, spent.calls)
             /\ Closed(history, mixed) => Closed(KeepTail(keep).history, mixed)
  <2>1. PICK from \in 0 .. Len(history) :
          /\ ~ SplitsPair(history, from)
          /\ KeepTail(keep).history = SubSeq(history, from + 1, Len(history))
    BY <1>t, KeepTailFacts DEF TypeInv
  <2>2. PICK t : t = SubSeq(history, from + 1, Len(history))
    OBVIOUS
  <2>3. t \in Seq(Message) /\ Len(t) = Len(history) - from /\ \A i \in 1 .. Len(history) - from : t[i] = history[from + i]
    BY <1>0, <2>2, SuffixFacts
  <2>4. \A i \in 1 .. Len(t) : from + i \in 1 .. Len(history) /\ t[i] = history[from + i]
    <3>1. Len(history) \in Nat /\ from \in Nat /\ from <= Len(history)
      BY <1>0
    <3> QED BY <2>3, <3>1
  <2>5. Sound(t, mixed, spent.calls)
    <3>1. from \in Nat /\ Sound(history, mixed, spent.calls) /\ history \in Seq(Message)
      BY <1>0, <1>s
    <3> QED BY <2>1, <2>3, <2>4, <3>1, PartSound
  <2>6. Closed(history, mixed) => Closed(t, mixed)
    BY <1>0, <2>3, <2>4, PartClosed
  <2> QED BY <2>1, <2>2, <2>3, <2>5, <2>6
<1>f. ASSUME NEW s \in Seq(Message), s # <<>>, Sound(s, mixed, spent.calls)
      PROVE  Front(s) \in Seq(Message) /\ Sound(Front(s), mixed, spent.calls)
  <2>1. Len(s) \in Nat /\ Len(s) - 1 \in 0 .. Len(s)
    BY <1>f
  <2>2. PICK t : t = SubSeq(s, 1, Len(s) - 1)
    OBVIOUS
  <2>3. t \in Seq(Message) /\ Len(t) = Len(s) - 1 /\ \A i \in 1 .. Len(s) - 1 : t[i] = s[i]
    BY <2>1, <2>2, PrefixFacts
  <2>4. \A i \in 1 .. Len(t) : 0 + i \in 1 .. Len(s) /\ t[i] = s[0 + i]
    BY <2>1, <2>3
  <2>5. Sound(t, mixed, spent.calls)
    BY <1>f, <2>3, <2>4, PartSound
  <2> QED BY <2>2, <2>3, <2>5 DEF Front
<1>1. CASE BeginPrompt
  <2>1. /\ Spend([prompts |-> 1]) /\ history' = Append(history, Prompt(spent.prompts + 1))
        /\ saved' = saved /\ request' = request /\ mixed' = mixed /\ at' = "loop"
    BY <1>1 DEF BeginPrompt
  <2>2. Prompt(spent.prompts + 1) \in Message
    <3>1. spent'["prompts"] = spent["prompts"] + 1
      BY <1>0, <2>1, SpendFacts
    <3>2. spent.prompts + 1 \in 0 .. MaxPrompts
      BY <1>0, <3>1 DEF SpentOK
    <3> QED BY <3>2, MessageFacts DEF Prompt
  <2>3. Sound(history', mixed, spent.calls)
    BY <1>0, <1>s, <2>1, <2>2, AppendText, MessageKinds
  <2>4. spent'.calls = spent.calls
    BY <1>u, <2>1
  <2> QED BY <1>s, <2>1, <2>3, <2>4, PairKept
<1>2. ASSUME NEW level \in Levels, Prepare(level) PROVE PairInv'
  <2>1. PICK noted \in BOOLEAN :
          /\ Spend([notes |-> IF noted THEN 1 ELSE 0])
          /\ history' = CloseDangling(IF noted THEN Append(history, Note) ELSE history)
    BY <1>2 DEF Prepare
  <2>2. PICK h : h = (IF noted THEN Append(history, Note) ELSE history)
    OBVIOUS
  <2>3. h \in Seq(Message) /\ Sound(h, mixed, spent.calls)
    <3>1. CASE noted
      BY <1>0, <1>n, <1>s, <2>2, <3>1, AppendText, MessageKinds
    <3>2. CASE ~noted
      BY <1>0, <1>s, <2>2, <3>2
    <3> QED BY <3>1, <3>2
  <2>4. Sound(history', mixed, spent.calls) /\ Closed(history', mixed)
    BY <2>1, <2>2, <2>3, ClosingSound
  <2>5. /\ request' = Prune(Truncated(history', cut', summary)) /\ mixed' = mixed
        /\ saved'.history = saved.history
    BY <1>0, <1>2 DEF Prepare, Disk
  <2>6. Paired(request', mixed)
    BY <1>0, <2>4, <2>5, RequestPaired
  <2>7. spent'.calls = spent.calls
    BY <1>u, <1>w, <2>1
  <2> QED BY <2>4, <2>5, <2>6, <2>7, PairKept
<1>3. CASE EmergencyTruncate
  <2>1. PICK keep \in EmergencyTails : history' = KeepTail(keep).history /\ request' = KeepTail(keep).history
    BY <1>3 DEF EmergencyTruncate
  <2>2. keep \in Nat
    BY ConversationBounds DEF EmergencyTails
  <2>3. at = "request" /\ Closed(history, mixed) /\ saved' = saved /\ mixed' = mixed /\ spent' = spent
    BY <1>3 DEF EmergencyTruncate, PairInv
  <2>4. Sound(history', mixed, spent.calls) /\ Closed(history', mixed)
    BY <1>t, <2>1, <2>2, <2>3
  <2>5. Paired(request', mixed)
    BY <1>0, <2>1, <2>4, LinkedPaired DEF Sound
  <2> QED BY <2>3, <2>4, <2>5, PairKept
<1>4. CASE EmergencyFails
  <2>1. PICK t : t = KeepTail(2).history
    OBVIOUS
  <2>2. t \in Seq(Message) /\ Sound(t, mixed, spent.calls)
    BY <1>t, <2>1
  <2>3. history' = t \/ (t # <<>> /\ history' = Front(t))
    BY <1>4, <2>1, <2>2 DEF EmergencyFails, Front
  <2>4. Sound(history', mixed, spent.calls)
    BY <1>f, <2>2, <2>3
  <2>5. /\ saved'.history = saved.history /\ mixed' = mixed /\ spent' = spent
        /\ at' = "idle" /\ request' = <<>>
    BY <1>0, <1>4, OtherFields DEF EmergencyFails
  <2> QED BY <1>e, <2>4, <2>5, PairKept
<1>5. CASE ReplyText
  <2>1. PICK nudge \in BOOLEAN, how \in {"continue", "complete", "queued"} :
          /\ Spend([replies |-> 1, notes |-> IF nudge THEN 1 ELSE 0])
          /\ history' = history \o (IF nudge THEN <<Reply({}), Note>> ELSE <<Reply({})>>)
          /\ EndTurn(how)
    BY <1>5 DEF ReplyText
  <2>2. request' = <<>> /\ mixed' = mixed
    BY <1>5 DEF ReplyText
  <2>3. PICK x : x = Reply({})
    OBVIOUS
  <2>4. x \in Message /\ x.calls = {} /\ x.results = {}
    BY <1>n, <2>3, MessageKinds
  <2>5. Append(history, x) \in Seq(Message) /\ Sound(Append(history, x), mixed, spent.calls)
    BY <1>0, <1>s, <2>4, AppendText
  <2>6. Sound(history', mixed, spent.calls)
    <3>1. CASE nudge
      <4>1. history' = Append(Append(history, x), Note)
        BY <1>0, <1>n, <2>1, <2>3, <2>4, <3>1, AppendTwo
      <4> QED BY <1>n, <2>5, <4>1, AppendText, MessageKinds
    <3>2. CASE ~nudge
      BY <1>0, <1>n, <2>1, <2>3, <2>4, <2>5, <3>2, AppendTwo
    <3> QED BY <3>1, <3>2
  <2>7. spent'.calls = spent.calls
    BY <1>u, <2>1
  <2>8. at' # "request" /\ (saved'.history = saved.history \/ saved'.history = history')
    BY <1>0, <2>1, EndTurnSaves
  <2> QED BY <1>e, <2>2, <2>6, <2>7, <2>8, PairKept
<1>6. CASE ReplyEmpty
  <2>1. /\ saved'.history = saved.history /\ mixed' = mixed /\ spent' = spent /\ history' = history
        /\ at' # "request" /\ request' = <<>>
    BY <1>0, <1>6, OtherFields DEF ReplyEmpty
  <2> QED BY <1>e, <1>s, <2>1, PairKept
<1>7. CASE ReplyCalls
  <2>1. PICK k \in 1 .. 2, unnamed \in 0 .. 2 :
          /\ unnamed <= k
          /\ Spend([replies |-> 1, calls |-> k])
          /\ history' = Append(history, Reply(spent.calls + 1 .. spent.calls + k))
          /\ mixed' = IF unnamed = 0 THEN mixed ELSE mixed \cup (spent.calls + 1 .. spent.calls + k)
    BY <1>7 DEF ReplyCalls
  <2>2. PICK fresh : fresh = spent.calls + 1 .. spent.calls + k
    OBVIOUS
  <2>3. at' = "tools" /\ request' = <<>> /\ saved' = saved
    BY <1>7 DEF ReplyCalls
  <2>4. spent'.calls = spent.calls + k
    <3> DEFINE used == [replies |-> 1, calls |-> k]
    <3>1. spent'["calls"] = spent["calls"] + k
      <4>1. \A b \in DOMAIN used : used[b] \in Nat
        OBVIOUS
      <4>2. "calls" \in DOMAIN used /\ used["calls"] = k /\ Spend(used)
        BY <2>1
      <4> HIDE DEF used
      <4>3. spent'["calls"] = spent["calls"] + used["calls"]
        BY <1>0, <4>1, <4>2, SpendFacts
      <4> QED BY <4>2, <4>3
    <3> QED BY <3>1
  <2>5. fresh \in SUBSET CallId /\ fresh \subseteq 1 .. spent'.calls
    <3>1. spent'.calls \in 0 .. MaxCalls /\ MaxCalls \in Nat
      BY <1>0, ConversationBounds DEF SpentOK
    <3> QED BY <1>k, <2>2, <2>4, <3>1 DEF CallId
  <2>6. PICK more : more \subseteq fresh /\ mixed' = mixed \cup more /\ (more = {} \/ more = fresh)
    BY <2>1, <2>2
  <2>7. spent.calls <= spent'.calls /\ more \subseteq spent.calls + 1 .. spent'.calls
    BY <1>k, <2>2, <2>4, <2>6
  <2>8. Sound(history, mixed', spent'.calls) /\ Sound(saved.history, mixed', spent'.calls)
    BY <1>0, <1>k, <1>s, <2>6, <2>7, GrowSound
  <2>9. PICK x : x = Reply(fresh)
    OBVIOUS
  <2>10. x \in Message /\ x.calls = fresh /\ x.results = {} /\ IsAssistant(x)
    BY <1>n, <2>5, <2>9, MessageKinds
  <2>11. \A i \in 1 .. Len(history) : history[i].calls \cap x.calls = {}
    <3>1. \A i \in 1 .. Len(history) : history[i].calls \subseteq 1 .. spent.calls
      BY <1>s DEF Sound, Below
    <3>2. (1 .. spent.calls) \cap fresh = {}
      BY <1>k, <2>2
    <3> QED BY <2>10, <3>1, <3>2
  <2>12. \A c \in x.calls \ mixed' : x.calls \cap mixed' = {}
    <3>1. mixed \cap fresh = {}
      BY <1>k, <2>2 DEF PairInv
    <3> QED BY <2>6, <2>10, <3>1
  <2>13. history' = Append(history, x)
    BY <2>1, <2>2, <2>9
  <2>14. Sound(history', mixed', spent'.calls)
    BY <1>0, <2>5, <2>8, <2>10, <2>11, <2>12, <2>13, AppendSound
  <2>15. mixed' \subseteq 1 .. spent'.calls
    <3>1. mixed \subseteq 1 .. spent.calls /\ 1 .. spent.calls \subseteq 1 .. spent'.calls
      BY <1>k, <2>7 DEF PairInv
    <3> QED BY <2>5, <2>6, <3>1
  <2>16. Paired(request', mixed')
    BY <2>3, NothingPaired
  <2> QED BY <2>3, <2>8, <2>14, <2>15, <2>16 DEF PairInv
<1>8. CASE Condense
  <2>1. /\ saved'.history = saved.history /\ mixed' = mixed /\ spent' = spent /\ history' = history
        /\ at' # "request" /\ request' = request
    BY <1>0, <1>8 DEF Condense, Disk
  <2> QED BY <1>s, <2>1, PairKept
<1>9. CASE FinishTools
  <2>1. PICK warned \in BOOLEAN, how \in {"continue", "complete", "queued", "error"} :
          /\ Spend([notes |-> IF warned THEN 1 ELSE 0])
          /\ history' = history \o (IF Answered = {} THEN <<>> ELSE <<Results(Answered)>>)
                                \o (IF warned THEN <<Note>> ELSE <<>>)
          /\ EndTurn(how)
    BY <1>9 DEF FinishTools
  <2>2. at = "tools" /\ request' = request /\ mixed' = mixed /\ history # <<>>
    BY <1>0, <1>9 DEF FinishTools
  <2>3. PICK x : x = Results(Answered)
    OBVIOUS
  <2>4. x \in Message /\ x.calls = {} /\ x.results = history[Len(history)].calls \ nameless /\ IsUser(x)
    BY <1>n, <2>2, <2>3, AnsweredType, MessageKinds DEF Answered
  <2>5. PICK u : u = history \o (IF Answered = {} THEN <<>> ELSE <<x>>)
    OBVIOUS
  <2>6. u \in Seq(Message) /\ Sound(u, mixed, spent.calls)
    <3>1. CASE Answered = {}
      BY <1>0, <1>s, <2>4, <2>5, <3>1, AppendTwo
    <3>2. CASE Answered # {}
      <4>1. u = Append(history, x)
        BY <1>0, <2>4, <2>5, <3>2, AppendTwo
      <4> QED BY <1>0, <1>s, <2>2, <2>4, <4>1, AppendAnswer
    <3> QED BY <3>1, <3>2
  <2>7. history' = u \o (IF warned THEN <<Note>> ELSE <<>>)
    BY <2>1, <2>3, <2>5
  <2>8. Sound(history', mixed, spent.calls)
    <3>1. CASE warned
      <4>1. history' = Append(u, Note)
        BY <1>n, <2>6, <2>7, <3>1, AppendTwo
      <4> QED BY <1>n, <2>6, <4>1, AppendText, MessageKinds
    <3>2. CASE ~warned
      BY <1>n, <2>6, <2>7, <3>2, AppendTwo
    <3> QED BY <3>1, <3>2
  <2>9. spent'.calls = spent.calls
    BY <1>u, <1>w, <2>1
  <2>10. at' # "request" /\ (saved'.history = saved.history \/ saved'.history = history')
    BY <1>0, <2>1, EndTurnSaves
  <2> QED BY <1>s, <2>2, <2>8, <2>9, <2>10, PairKept
<1>10. CASE ToolsFail
  <2>1. PICK warned \in BOOLEAN :
          /\ Spend([notes |-> IF warned THEN 1 ELSE 0])
          /\ history' = history \o (IF warned THEN <<Failed(Answered), Note>> ELSE <<Failed(Answered)>>)
    BY <1>10 DEF ToolsFail
  <2>2. /\ at = "tools" /\ request' = request /\ mixed' = mixed /\ history # <<>> /\ at' # "request"
        /\ saved'.history = saved.history
    BY <1>0, <1>10, OtherFields DEF ToolsFail
  <2>3. PICK x : x = Failed(Answered)
    OBVIOUS
  <2>4. x \in Message /\ x.calls = {} /\ x.results = history[Len(history)].calls \ nameless /\ IsUser(x)
    BY <1>n, <2>2, <2>3, AnsweredType, MessageKinds DEF Answered
  <2>5. Append(history, x) \in Seq(Message) /\ Sound(Append(history, x), mixed, spent.calls)
    BY <1>0, <1>s, <2>2, <2>4, AppendAnswer
  <2>6. Sound(history', mixed, spent.calls)
    <3>1. CASE warned
      <4>1. history' = Append(Append(history, x), Note)
        BY <1>0, <1>n, <2>1, <2>3, <2>4, <3>1, AppendTwo
      <4> QED BY <1>n, <2>5, <4>1, AppendText, MessageKinds
    <3>2. CASE ~warned
      BY <1>0, <1>n, <2>1, <2>3, <2>4, <2>5, <3>2, AppendTwo
    <3> QED BY <3>1, <3>2
  <2>7. spent'.calls = spent.calls
    BY <1>u, <1>w, <2>1
  <2> QED BY <1>s, <2>2, <2>6, <2>7, PairKept
<1>11. CASE RequestFails
  <2>1. /\ saved'.history = saved.history /\ mixed' = mixed /\ spent' = spent /\ history' = history
        /\ at' # "request" /\ request' = <<>>
    BY <1>0, <1>11, OtherFields DEF RequestFails
  <2> QED BY <1>e, <1>s, <2>1, PairKept
<1>12. CASE RequestCancelled
  <2>1. /\ mixed' = mixed /\ spent' = spent /\ history' = history
        /\ at' # "request" /\ request' = <<>>
        /\ saved' = Recorded(WrittenSummary(Written(saved)))
    BY <1>12 DEF RequestCancelled
  <2>2. Written(saved) \in Disk /\ (Written(saved).history = saved.history \/ Written(saved).history = history')
    BY <1>0, DiskFacts DEF Written, Disk
  <2>3. WrittenSummary(Written(saved)) \in Disk
        /\ WrittenSummary(Written(saved)).history = Written(saved).history
    BY <1>0, <2>2, DiskFacts, OtherFields
  <2>4. saved'.history = saved.history \/ saved'.history = history'
    BY <1>0, <2>1, <2>2, <2>3, OtherFields
  <2> QED BY <1>e, <1>s, <2>1, <2>4, PairKept
<1>13. CASE Aborted
  <2>1. /\ saved' = saved /\ mixed' = mixed /\ spent' = spent /\ history' = history
        /\ at' # "request" /\ request' = <<>>
    BY <1>13 DEF Aborted
  <2> QED BY <1>e, <1>s, <2>1, PairKept
<1>14. CASE Undo
  <2>1. /\ at' = "idle" /\ saved' = saved /\ mixed' = mixed /\ request' = request
        /\ Spend([undos |-> 1]) /\ history # <<>>
        /\ history' = Front(history) \/ (Front(history) # <<>> /\ history' = Front(Front(history)))
    BY <1>14 DEF Undo
  <2>2. Front(history) \in Seq(Message) /\ Sound(Front(history), mixed, spent.calls)
    BY <1>0, <1>f, <1>s, <2>1
  <2>3. Sound(history', mixed, spent.calls)
    BY <1>f, <2>1, <2>2
  <2>4. spent'.calls = spent.calls
    BY <1>u, <2>1
  <2> QED BY <1>s, <2>1, <2>3, <2>4, PairKept
<1>15. CASE ClearSummary
  <2>1. /\ saved'.history = saved.history /\ mixed' = mixed /\ spent' = spent /\ history' = history
        /\ at' = at /\ at = "idle" /\ request' = request
    BY <1>0, <1>15 DEF ClearSummary, Disk
  <2> QED BY <1>s, <2>1, PairKept
<1>16. CASE Restart
  <2>1. /\ Spend([restarts |-> 1]) /\ history' = saved.history /\ saved' = saved
        /\ mixed' = mixed /\ at' = "idle" /\ request' = <<>>
    BY <1>16 DEF Restart
  <2>2. spent'.calls = spent.calls
    BY <1>u, <2>1
  <2> QED BY <1>e, <1>s, <2>1, <2>2, PairKept
<1>17. CASE UNCHANGED vars
  BY <1>17 DEF vars, PairInv
<1> QED BY <1>1, <1>2, <1>3, <1>4, <1>5, <1>6, <1>7, <1>8, <1>9, <1>10, <1>11, <1>12, <1>13, <1>14,
           <1>15, <1>16, <1>17 DEF Next

(* Calls and results of every request match, one for one, whatever was      *)
(* truncated, pruned, interrupted, undone or lost in a crash                *)
(* (close_dangling_tool_calls, ensure_tool_results_follow_tool_use,         *)
(* keep_from_preserving_tool_pairs, prune_conversation_history).            *)
THEOREM RequestsPaired == Spec => []CallsPaired
<1>1. Init => TypeInv
  BY InitTyped
<1>2. Init => PairInv
  <2> SUFFICES ASSUME Init PROVE PairInv
    OBVIOUS
  <2>1. \A m, n : Sound(<<>>, m, n) /\ Closed(<<>>, m)
    BY DEF Sound, Linked, Roles, Distinct, Adjacent, Complete, Uniform, UniformResults, Below, Closed
  <2> QED BY <2>1, NothingPaired DEF PairInv, Init
<1>3. PairInv => CallsPaired
  BY DEF PairInv, Paired, CallsPaired, CallsAnswered, ResultsHaveCalls
<1> QED BY <1>1, <1>2, <1>3, TypeStep, PairStep, PTL DEF Spec
==============================================================================
