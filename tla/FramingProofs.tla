---------------------------- MODULE FramingProofs ----------------------------
(***************************************************************************)
(* Every message the panel sends is decoded as it was sent, for every set of  *)
(* bytes, of keys and of messages, and in whatever chunks TCP delivers.       *)
(*                                                                          *)
(* The loops of the code are recursive functions, and the proofs are by       *)
(* induction over their steps (Induction, from the well-foundedness of <).    *)
(* A frame ends at its last byte and at no other (FrameEnd), so split_messages *)
(* finds the frames in their stream (SplitFrames); decode_message gives back   *)
(* what encode_command was given (DecodeFrame).                              *)
(***************************************************************************)
EXTENDS Framing, SequenceTheorems, WellFoundedInduction, TLAPS

(* Induction over the numbers of a set. *)
LEMMA Induction ==
    ASSUME NEW T, 0 \in T, \A n \in Nat : n \in T => n + 1 \in T
    PROVE  \A n \in Nat : n \in T
<1> DEFINE U == Nat \ T
           Less == {p \in Nat \X Nat : p[1] < p[2]}
<1> SUFFICES ASSUME U # {} PROVE FALSE
    OBVIOUS
<1>1. OpToRel(<, Nat) = Less
    BY Zenon DEF OpToRel
<1>2. IsWellFoundedOn(Less, Nat)
    BY NatLessThanWellFounded, <1>1, Zenon
<1>3. PICK x \in U : \A y \in U : ~(<<y, x>> \in Less)
    <2> U \subseteq Nat
        OBVIOUS
    <2> HIDE DEF U, Less
    <2> QED BY <1>2, WFMin
<1>4. x # 0 /\ x - 1 \in Nat
    OBVIOUS
<1>5. x - 1 \in U
    BY <1>4
<1>6. <<x - 1, x>> \in Less
    BY <1>4
<1> QED
    BY <1>3, <1>5, <1>6

(* Up to a bound: induction over the positions of a sequence. *)
LEMMA BoundedInduction ==
    ASSUME NEW N \in Nat, NEW T, 0 \in T, \A n \in 0..(N - 1) : n \in T => n + 1 \in T
    PROVE  \A n \in 0..N : n \in T
<1> DEFINE U == {n \in Nat : n <= N => n \in T}
<1>1. 0 \in U /\ \A n \in Nat : n \in U => n + 1 \in U
    OBVIOUS
<1>2. \A n \in Nat : n \in U
    <2> HIDE DEF U
    <2> QED BY <1>1, Induction
<1> QED
    BY <1>2

LEMMA BytesAssoc == \A u, v, x \in Seq(Bytes) : (u \o v) \o x = u \o (v \o x)
BY SMTT(60)

-----------------------------------------------------------------------------
(* FlattenSeq: its recursion is well defined, and it turns Append and \o of    *)
(* sequences of sequences into \o.                                          *)
LEMMA FlattenSteps ==
    ASSUME NEW T, NEW s \in Seq(Seq(T)), Len(s) # 0
    PROVE  \E f \in [1..Len(s) -> Seq(T)] :
              /\ f[1] = s[1]
              /\ \A i \in 2..Len(s) : f[i] = f[i - 1] \o s[i]
              /\ FlattenSeq(s) = f[Len(s)]
<1> DEFINE Step(f, i) == IF i = 1 THEN s[i] ELSE f[i - 1] \o s[i]
           Steps(f, n) == \A i \in 1..n : f[i] = Step(f, i)
           Good == {n \in Nat : n = 0 \/ \E f \in [1..n -> Seq(T)] : Steps(f, n)}
<1>1. 0 \in Good
    OBVIOUS
<1>2. ASSUME NEW n \in 0..(Len(s) - 1), n \in Good
      PROVE  n + 1 \in Good
    <2>1. CASE n = 0
        <3> DEFINE f == [i \in 1..1 |-> s[i]]
        <3>1. f \in [1..1 -> Seq(T)] /\ Steps(f, 1)
            OBVIOUS
        <3>2. n + 1 = 1 /\ n + 1 \in Nat
            BY <2>1
        <3> HIDE DEF f, Steps
        <3> QED BY <3>1, <3>2, Zenon
    <2>2. CASE n # 0
        <3>1. PICK f \in [1..n -> Seq(T)] : Steps(f, n)
            BY <1>2, <2>2
        <3> DEFINE g == [i \in 1..(n + 1) |-> IF i = n + 1 THEN f[n] \o s[n + 1] ELSE f[i]]
        <3>2. s[n + 1] \in Seq(T) /\ f[n] \in Seq(T) /\ f[n] \o s[n + 1] \in Seq(T)
            BY <2>2
        <3>3. g \in [1..(n + 1) -> Seq(T)]
            BY <3>2
        <3>4. ASSUME NEW i \in 1..(n + 1) PROVE g[i] = Step(g, i)
            <4>1. CASE i = n + 1
                <5>1. i # 1 /\ i - 1 = n /\ n \in 1..(n + 1) /\ n # n + 1
                    BY <2>2, <4>1
                <5>2. g[i] = f[n] \o s[n + 1] /\ g[n] = f[n]
                    BY <4>1, <5>1, Zenon
                <5> HIDE DEF g
                <5> QED BY <4>1, <5>1, <5>2, Zenon
            <4>2. CASE i # n + 1
                <5>1. i \in 1..n /\ g[i] = f[i] /\ (i # 1 => i - 1 \in 1..n /\ g[i - 1] = f[i - 1])
                    BY <4>2
                <5> QED BY <3>1, <5>1
            <4> QED BY <4>1, <4>2
        <3>5. n + 1 \in Nat
            OBVIOUS
        <3> HIDE DEF g, Step
        <3> QED BY <3>3, <3>4, <3>5, Zenon
    <2> QED BY <2>1, <2>2
<1>3. Len(s) \in Good
    <2> HIDE DEF Good
    <2>1. Len(s) \in Nat
        OBVIOUS
    <2>2. \A n \in 0..Len(s) : n \in Good
        BY <1>1, <1>2, <2>1, BoundedInduction, Zenon
    <2> QED BY <2>1, <2>2
<1>4. PICK f \in [1..Len(s) -> Seq(T)] : Steps(f, Len(s))
    BY <1>3
<1>5. f = [i \in 1..Len(s) |-> Step(f, i)]
    BY <1>4
<1>6. PICK g : g = [i \in 1..Len(s) |-> Step(g, i)] /\ FlattenSeq(s) = g[Len(s)]
    BY <1>5, Zenon DEF FlattenSeq
<1>7. \A i \in 1..Len(s) : g[i] = Step(g, i)
    BY <1>6
<1>8. g[1] = s[1] /\ \A i \in 2..Len(s) : g[i] = g[i - 1] \o s[i]
    <2>1. 1 \in 1..Len(s)
        OBVIOUS
    <2>2. ASSUME NEW i \in 2..Len(s) PROVE g[i] = g[i - 1] \o s[i]
        <3>1. i \in 1..Len(s) /\ i # 1
            OBVIOUS
        <3> QED BY <1>7, <3>1
    <2> QED BY <1>7, <2>1, <2>2
<1>9. g \in [1..Len(s) -> Seq(T)]
    <2> DEFINE Typed == {n \in Nat : n = 0 \/ g[n] \in Seq(T)}
    <2>1. 0 \in Typed
        OBVIOUS
    <2>2. ASSUME NEW n \in 0..(Len(s) - 1), n \in Typed PROVE n + 1 \in Typed
        <3>1. s[n + 1] \in Seq(T) /\ n + 1 \in 1..Len(s) /\ (n + 1) - 1 = n
            OBVIOUS
        <3>2. CASE n = 0
            BY <1>8, <3>1, <3>2
        <3>3. CASE n # 0
            <4>1. n + 1 \in 2..Len(s)
                BY <3>3
            <4>2. g[n + 1] = g[n] \o s[n + 1]
                BY <1>8, <3>1, <4>1, Zenon
            <4>3. g[n] \in Seq(T)
                BY <2>2, <3>3
            <4>4. g[n + 1] \in Seq(T)
                <5>1. \A u, v \in Seq(T) : u \o v \in Seq(T)
                    OBVIOUS
                <5>2. s[n + 1] \in Seq(T)
                    BY <3>1
                <5> QED BY <4>2, <4>3, <5>1, <5>2, Zenon
            <4> QED BY <4>4
        <3> QED BY <3>2, <3>3
    <2>3. \A n \in 0..Len(s) : n \in Typed
        <3> HIDE DEF Typed
        <3>1. Len(s) \in Nat
            OBVIOUS
        <3> QED BY <2>1, <2>2, <3>1, BoundedInduction, Zenon
    <2>4. ASSUME NEW i \in 1..Len(s) PROVE g[i] \in Seq(T)
        <3>1. i \in 0..Len(s) /\ i # 0
            OBVIOUS
        <3> QED BY <2>3, <3>1
    <2> QED BY <1>6, <2>4
<1> QED
    BY <1>6, <1>8, <1>9

LEMMA FlattenEmpty == FlattenSeq(<<>>) = <<>>
BY DEF FlattenSeq

LEMMA FlattenType ==
    ASSUME NEW T, NEW s \in Seq(Seq(T))
    PROVE  FlattenSeq(s) \in Seq(T)
<1>1. CASE Len(s) = 0
    <2>1. s = <<>> /\ <<>> \in Seq(T)
        BY <1>1
    <2> QED BY <2>1, FlattenEmpty
<1>2. CASE Len(s) # 0
    <2>1. PICK f \in [1..Len(s) -> Seq(T)] : FlattenSeq(s) = f[Len(s)]
        BY <1>2, FlattenSteps, Zenon
    <2> QED BY <2>1, <1>2, SMTT(30)
<1> QED BY <1>1, <1>2

LEMMA FlattenAppend ==
    ASSUME NEW T, NEW s \in Seq(Seq(T)), NEW x \in Seq(T)
    PROVE  FlattenSeq(Append(s, x)) = FlattenSeq(s) \o x
<1> DEFINE t == Append(s, x)
<1>1. t \in Seq(Seq(T)) /\ Len(t) = Len(s) + 1 /\ t[Len(s) + 1] = x
      /\ \A i \in 1..Len(s) : t[i] = s[i]
    OBVIOUS
<1> HIDE DEF t
<1>2. PICK g \in [1..Len(t) -> Seq(T)] :
          /\ g[1] = t[1]
          /\ \A i \in 2..Len(t) : g[i] = g[i - 1] \o t[i]
          /\ FlattenSeq(t) = g[Len(t)]
    <2> Len(t) # 0
        BY <1>1
    <2> QED BY <1>1, FlattenSteps, Zenon
<1>3. CASE Len(s) = 0
    <2>1. FlattenSeq(t) = x
        BY <1>1, <1>2, <1>3
    <2>2. s = <<>> /\ <<>> \o x = x
        BY <1>3
    <2> QED BY <2>1, <2>2, FlattenEmpty DEF t
<1>4. CASE Len(s) # 0
    <2>1. PICK f \in [1..Len(s) -> Seq(T)] :
              /\ f[1] = s[1]
              /\ \A i \in 2..Len(s) : f[i] = f[i - 1] \o s[i]
              /\ FlattenSeq(s) = f[Len(s)]
        BY <1>4, FlattenSteps
    <2> DEFINE Same == {n \in Nat : f[n + 1] = g[n + 1]}
    <2>2. 0 \in Same
        BY <1>1, <1>2, <1>4, <2>1
    <2>3. ASSUME NEW n \in 0..(Len(s) - 2), n \in Same PROVE n + 1 \in Same
        <3>1. n + 2 \in 2..Len(s) /\ n + 2 \in 2..Len(t) /\ (n + 2) - 1 = n + 1
            BY <1>1
        <3>2. f[n + 2] = f[n + 1] \o s[n + 2] /\ g[n + 2] = g[n + 1] \o t[n + 2]
            BY <1>2, <2>1, <3>1
        <3>3. f[n + 1] = g[n + 1] /\ s[n + 2] = t[n + 2]
            BY <1>1, <2>3
        <3>4. f[(n + 1) + 1] = g[(n + 1) + 1]
            <4> (n + 1) + 1 = n + 2
                OBVIOUS
            <4> QED BY <3>2, <3>3, Zenon
        <3> QED BY <3>4
    <2>4. Len(s) - 1 \in Same
        <3> DEFINE N == Len(s) - 1
        <3>1. N \in Nat /\ N \in 0..N /\ N - 1 = Len(s) - 2
            BY <1>4
        <3> HIDE DEF Same, N
        <3>2. \A n \in 0..(N - 1) : n \in Same => n + 1 \in Same
            BY <2>3, <3>1
        <3>3. \A n \in 0..N : n \in Same
            BY <2>2, <3>1, <3>2, BoundedInduction, Zenon
        <3> QED BY <3>1, <3>3 DEF N
    <2>5. f[Len(s)] = g[Len(s)]
        BY <2>4
    <2>6. g[Len(t)] = g[Len(s)] \o x
        <3>1. Len(t) \in 2..Len(t) /\ Len(t) - 1 = Len(s)
            BY <1>1, <1>4
        <3> QED BY <1>1, <1>2, <3>1
    <2> QED BY <1>2, <2>1, <2>5, <2>6 DEF t
<1> QED BY <1>3, <1>4

LEMMA FlattenConcat ==
    ASSUME NEW T, NEW a \in Seq(Seq(T)), NEW b \in Seq(Seq(T))
    PROVE  FlattenSeq(a \o b) = FlattenSeq(a) \o FlattenSeq(b)
<1> DEFINE Good == {n \in Nat : FlattenSeq(a \o SubSeq(b, 1, n))
                                  = FlattenSeq(a) \o FlattenSeq(SubSeq(b, 1, n))}
<1>1. 0 \in Good
    <2>1. SubSeq(b, 1, 0) = <<>> /\ a \o <<>> = a
        OBVIOUS
    <2>2. FlattenSeq(a) \o <<>> = FlattenSeq(a)
        BY FlattenType
    <2> QED BY <2>1, <2>2, FlattenEmpty
<1>2. ASSUME NEW n \in 0..(Len(b) - 1), n \in Good PROVE n + 1 \in Good
    <2> DEFINE p == SubSeq(b, 1, n)
    <2>1. p \in Seq(Seq(T)) /\ a \o p \in Seq(Seq(T)) /\ b[n + 1] \in Seq(T)
        OBVIOUS
    <2>2. SubSeq(b, 1, n + 1) = Append(p, b[n + 1])
          /\ a \o SubSeq(b, 1, n + 1) = Append(a \o p, b[n + 1])
        BY SMTT(60)
    <2>3. FlattenSeq(a \o p) = FlattenSeq(a) \o FlattenSeq(p)
        BY <1>2
    <2>4. FlattenSeq(a) \in Seq(T) /\ FlattenSeq(p) \in Seq(T)
        BY <2>1, FlattenType
    <2> HIDE DEF p
    <2>5. /\ FlattenSeq(Append(a \o p, b[n + 1])) = FlattenSeq(a \o p) \o b[n + 1]
          /\ FlattenSeq(Append(p, b[n + 1])) = FlattenSeq(p) \o b[n + 1]
        BY <2>1, FlattenAppend
    <2>6. (FlattenSeq(a) \o FlattenSeq(p)) \o b[n + 1] = FlattenSeq(a) \o (FlattenSeq(p) \o b[n + 1])
        <3>1. \A u, v, w \in Seq(T) : (u \o v) \o w = u \o (v \o w)
            BY SMTT(60)
        <3> QED BY <2>1, <2>4, <3>1, Zenon
    <2>7. FlattenSeq(a \o SubSeq(b, 1, n + 1)) = FlattenSeq(a) \o FlattenSeq(SubSeq(b, 1, n + 1))
        BY <2>2, <2>3, <2>5, <2>6, Zenon
    <2> QED BY <2>7
<1>3. Len(b) \in Good
    <2> HIDE DEF Good
    <2>1. Len(b) \in Nat
        OBVIOUS
    <2>2. \A n \in 0..Len(b) : n \in Good
        BY <1>1, <1>2, <2>1, BoundedInduction, Zenon
    <2> QED BY <2>1, <2>2
<1>4. SubSeq(b, 1, Len(b)) = b
    OBVIOUS
<1> QED BY <1>3, <1>4

LEMMA FlattenPrefixStep ==
    ASSUME NEW T, NEW s \in Seq(Seq(T)), NEW n \in 0..(Len(s) - 1)
    PROVE  FlattenSeq(SubSeq(s, 1, n + 1)) = FlattenSeq(SubSeq(s, 1, n)) \o s[n + 1]
<1>1. SubSeq(s, 1, n) \in Seq(Seq(T)) /\ s[n + 1] \in Seq(T)
      /\ SubSeq(s, 1, n + 1) = Append(SubSeq(s, 1, n), s[n + 1])
    OBVIOUS
<1> QED BY <1>1, FlattenAppend, Zenon

LEMMA FlattenSplit ==
    ASSUME NEW T, NEW s \in Seq(Seq(T)), NEW n \in 0..Len(s)
    PROVE  FlattenSeq(s) = FlattenSeq(SubSeq(s, 1, n)) \o FlattenSeq(SubSeq(s, n + 1, Len(s)))
<1>1. SubSeq(s, 1, n) \in Seq(Seq(T)) /\ SubSeq(s, n + 1, Len(s)) \in Seq(Seq(T))
    OBVIOUS
<1>2. s = SubSeq(s, 1, n) \o SubSeq(s, n + 1, Len(s))
    <2>1. 1 \in 1..(Len(s) + 1) /\ n \in (1 - 1)..Len(s) /\ Len(s) \in n..Len(s)
        OBVIOUS
    <2>2. SubSeq(s, 1, n) \o SubSeq(s, n + 1, Len(s)) = SubSeq(s, 1, Len(s))
        BY <2>1, ConcatAdjacentSubSeq, Zenon
    <2>3. SubSeq(s, 1, Len(s)) = s
        BY SubSeqFull, Zenon
    <2> QED BY <2>2, <2>3, Zenon
<1> QED BY <1>1, <1>2, FlattenConcat, Zenon

(* Where the n-th of the sequences lies in the flattened one. *)
LEMMA FlattenIndex ==
    ASSUME NEW T, NEW s \in Seq(Seq(T)), NEW n \in 0..(Len(s) - 1)
    PROVE  LET before == Len(FlattenSeq(SubSeq(s, 1, n)))
           IN  /\ before \in Nat
               /\ Len(FlattenSeq(SubSeq(s, 1, n + 1))) = before + Len(s[n + 1])
               /\ before + Len(s[n + 1]) <= Len(FlattenSeq(s))
               /\ \A i \in 1..Len(s[n + 1]) : FlattenSeq(s)[before + i] = s[n + 1][i]
<1> DEFINE p == FlattenSeq(SubSeq(s, 1, n))
           q == FlattenSeq(SubSeq(s, 1, n + 1))
           r == FlattenSeq(SubSeq(s, n + 2, Len(s)))
           x == s[n + 1]
<1>1. p \in Seq(T) /\ q \in Seq(T) /\ r \in Seq(T) /\ x \in Seq(T)
    <2>1. /\ SubSeq(s, 1, n) \in Seq(Seq(T)) /\ SubSeq(s, 1, n + 1) \in Seq(Seq(T))
          /\ SubSeq(s, n + 2, Len(s)) \in Seq(Seq(T)) /\ s[n + 1] \in Seq(T)
        OBVIOUS
    <2> QED BY <2>1, FlattenType, Zenon
<1>2. q = p \o x
    BY FlattenPrefixStep
<1>3. FlattenSeq(s) = q \o r
    <2>1. n + 1 \in 0..Len(s) /\ (n + 1) + 1 = n + 2
        OBVIOUS
    <2> QED BY <2>1, FlattenSplit, Zenon
<1> DEFINE f == FlattenSeq(s)
<1> HIDE DEF p, q, r, x, f
<1>4. Len(p) \in Nat /\ Len(q) = Len(p) + Len(x) /\ Len(p) + Len(x) <= Len(f)
    BY <1>1, <1>2, <1>3 DEF f
<1>5. ASSUME NEW i \in 1..Len(x) PROVE f[Len(p) + i] = x[i]
    <2>1. f = (p \o x) \o r
        BY <1>2, <1>3 DEF f
    <2> QED BY <1>1, <2>1
<1> QED BY <1>4, <1>5 DEF p, q, x, f

LEMMA FlattenSingles ==
    ASSUME NEW T, NEW t \in Seq(T), NEW s \in Seq(Seq(T)), Len(s) = Len(t),
           \A i \in 1..Len(t) : s[i] = <<t[i]>>
    PROVE  FlattenSeq(s) = t
<1> DEFINE Good == {n \in Nat : FlattenSeq(SubSeq(s, 1, n)) = SubSeq(t, 1, n)}
<1>1. 0 \in Good
    <2>1. SubSeq(s, 1, 0) = <<>> /\ SubSeq(t, 1, 0) = <<>>
        OBVIOUS
    <2> QED BY <2>1, FlattenEmpty
<1>2. ASSUME NEW n \in 0..(Len(t) - 1), n \in Good PROVE n + 1 \in Good
    <2>1. FlattenSeq(SubSeq(s, 1, n + 1)) = FlattenSeq(SubSeq(s, 1, n)) \o s[n + 1]
        BY FlattenPrefixStep
    <2>2. n + 1 \in 1..Len(t) /\ SubSeq(t, 1, n + 1) = SubSeq(t, 1, n) \o <<t[n + 1]>>
        OBVIOUS
    <2>3. FlattenSeq(SubSeq(s, 1, n)) = SubSeq(t, 1, n)
        BY <1>2
    <2>4. FlattenSeq(SubSeq(s, 1, n + 1)) = SubSeq(t, 1, n + 1)
        BY <2>1, <2>2, <2>3, Zenon
    <2> QED BY <2>4
<1>3. Len(t) \in Good
    <2> HIDE DEF Good
    <2>1. Len(t) \in Nat
        OBVIOUS
    <2>2. \A n \in 0..Len(t) : n \in Good
        BY <1>1, <1>2, <2>1, BoundedInduction, Zenon
    <2> QED BY <2>1, <2>2
<1>4. SubSeq(s, 1, Len(t)) = s /\ SubSeq(t, 1, Len(t)) = t
    OBVIOUS
<1> QED BY <1>3, <1>4

-----------------------------------------------------------------------------
(* The loops of split_messages and decrypt_chars are well defined: each state   *)
(* follows from the one before.                                             *)
SplitStart == [messages |-> <<>>, leftover |-> <<>>, escaped |-> FALSE]

LEMMA SplitLoopStep ==
    ASSUME NEW data, Len(data) \in Nat
    PROVE  /\ SplitLoop(data)[0] = SplitStart
           /\ \A i \in 1..Len(data) :
                 SplitLoop(data)[i] = SplitByte(SplitLoop(data)[i - 1], data[i])
<1> DEFINE N == Len(data)
           Step(f, i) == IF i = 0 THEN SplitStart ELSE SplitByte(f[i - 1], data[i])
           Good == {n \in Nat : \E f : f = [i \in 0..n |-> Step(f, i)]}
<1>1. 0 \in Good
    <2> DEFINE f == [i \in 0..0 |-> SplitStart]
    <2>1. f = [i \in 0..0 |-> Step(f, i)]
        OBVIOUS
    <2> HIDE DEF f, Step
    <2> QED BY <2>1
<1>2. ASSUME NEW n \in 0..(N - 1), n \in Good PROVE n + 1 \in Good
    <2>1. PICK f : f = [i \in 0..n |-> Step(f, i)]
        BY <1>2
    <2> DEFINE g == [i \in 0..(n + 1) |-> IF i = n + 1 THEN SplitByte(f[n], data[n + 1]) ELSE f[i]]
    <2>2. ASSUME NEW i \in 0..(n + 1) PROVE g[i] = Step(g, i)
        <3>1. CASE i = n + 1
            <4>1. i # 0 /\ i - 1 = n /\ n \in 0..(n + 1) /\ n # n + 1
                BY <3>1
            <4>2. g[i] = SplitByte(f[n], data[n + 1]) /\ g[n] = f[n]
                BY <3>1, <4>1, Zenon
            <4> HIDE DEF g
            <4> QED BY <3>1, <4>1, <4>2, Zenon
        <3>2. CASE i # n + 1
            <4>1. i \in 0..n /\ g[i] = f[i]
                BY <3>2
            <4>2. i # 0 => g[i - 1] = f[i - 1]
                BY <3>2
            <4>3. f[i] = Step(f, i)
                BY <2>1, <4>1, Zenon
            <4> HIDE DEF g
            <4> QED BY <4>1, <4>2, <4>3, Zenon
        <3> QED BY <3>1, <3>2
    <2>3. g = [i \in 0..(n + 1) |-> Step(g, i)]
        <3> HIDE DEF Step
        <3> QED BY <2>2, Zenon
    <2>4. n + 1 \in Nat
        OBVIOUS
    <2> HIDE DEF g, Step
    <2> QED BY <2>3, <2>4, Zenon
<1>3. N \in Good
    <2> HIDE DEF Good
    <2>1. N \in Nat
        OBVIOUS
    <2> HIDE DEF N
    <2>2. \A n \in 0..N : n \in Good
        BY <1>1, <1>2, <2>1, BoundedInduction, Zenon
    <2> QED BY <2>1, <2>2
<1>4. PICK f : f = [i \in 0..N |-> Step(f, i)]
    BY <1>3
<1>5. SplitLoop(data) = [i \in 0..N |-> Step(SplitLoop(data), i)]
    BY <1>4, Zenon DEF SplitLoop, SplitStart
<1>6. \A i \in 0..N : SplitLoop(data)[i] = Step(SplitLoop(data), i)
    <2> HIDE DEF Step
    <2> QED BY <1>5
<1>7. 0 \in 0..N /\ \A i \in 1..N : i \in 0..N /\ i # 0
    OBVIOUS
<1> QED BY <1>6, <1>7, Zenon

DecryptStart == [result |-> <<>>, escaped |-> FALSE]

LEMMA DecryptLoopStep ==
    ASSUME NEW data, NEW k, NEW crypt, Len(data) - 1 \in Nat
    PROVE  \A i \in 0..(Len(data) - 1) :
              DecryptLoop(data, k, crypt)[i] =
                IF i < (IF crypt THEN 3 ELSE 2) THEN DecryptStart
                ELSE DecryptByte(DecryptLoop(data, k, crypt)[i - 1], data, i, k, crypt)
<1> DEFINE N == Len(data) - 1
           Step(f, i) == IF i < (IF crypt THEN 3 ELSE 2) THEN DecryptStart
                         ELSE DecryptByte(f[i - 1], data, i, k, crypt)
           Good == {n \in Nat : \E f : f = [i \in 0..n |-> Step(f, i)]}
<1>1. 0 \in Good
    <2> DEFINE f == [i \in 0..0 |-> DecryptStart]
    <2>1. f = [i \in 0..0 |-> Step(f, i)]
        OBVIOUS
    <2> HIDE DEF f, Step
    <2> QED BY <2>1
<1>2. ASSUME NEW n \in 0..(N - 1), n \in Good PROVE n + 1 \in Good
    <2>1. PICK f : f = [i \in 0..n |-> Step(f, i)]
        BY <1>2
    <2> DEFINE g == [i \in 0..(n + 1) |-> IF i = n + 1 THEN Step(f, n + 1) ELSE f[i]]
    <2>2. ASSUME NEW i \in 0..(n + 1) PROVE g[i] = Step(g, i)
        <3>1. CASE i = n + 1
            <4>1. i # 0 /\ i - 1 = n /\ n \in 0..(n + 1) /\ n # n + 1
                BY <3>1
            <4>2. g[i] = Step(f, i) /\ g[i - 1] = f[i - 1]
                BY <3>1, <4>1, Zenon
            <4> HIDE DEF g
            <4> QED BY <4>2, Zenon
        <3>2. CASE i # n + 1
            <4>1. i \in 0..n /\ g[i] = f[i]
                BY <3>2
            <4>2. g[i - 1] = f[i - 1] \/ i < (IF crypt THEN 3 ELSE 2)
                BY <3>2
            <4>3. f[i] = Step(f, i)
                BY <2>1, <4>1, Zenon
            <4> HIDE DEF g
            <4> QED BY <4>1, <4>2, <4>3, Zenon
        <3> QED BY <3>1, <3>2
    <2>3. g = [i \in 0..(n + 1) |-> Step(g, i)]
        <3> HIDE DEF Step
        <3> QED BY <2>2, Zenon
    <2>4. n + 1 \in Nat
        OBVIOUS
    <2> HIDE DEF g, Step
    <2> QED BY <2>3, <2>4, Zenon
<1>3. N \in Good
    <2> HIDE DEF Good
    <2>1. N \in Nat
        OBVIOUS
    <2> HIDE DEF N
    <2>2. \A n \in 0..N : n \in Good
        BY <1>1, <1>2, <2>1, BoundedInduction, Zenon
    <2> QED BY <2>1, <2>2
<1>4. PICK f : f = [i \in 0..N |-> Step(f, i)]
    BY <1>3
<1>5. DecryptLoop(data, k, crypt) = [i \in 0..N |-> Step(DecryptLoop(data, k, crypt), i)]
    BY <1>4, Zenon DEF DecryptLoop, DecryptStart
<1>6. \A i \in 0..N : DecryptLoop(data, k, crypt)[i] = Step(DecryptLoop(data, k, crypt), i)
    <2> HIDE DEF Step
    <2> QED BY <1>5
<1> QED BY <1>6

-----------------------------------------------------------------------------
(* Frames: what encode_command makes of each byte of a message. *)
Cipher(m, k, i) == IF m.crypt THEN XorByte(Payload(m)[i], k[i]) ELSE Payload(m)[i]
Items(m, k) == [i \in DOMAIN Payload(m) |-> Stuff(Cipher(m, k, i))]
Header(m) == IF m.crypt THEN <<STX, CRYPT>> ELSE <<STX>>

(* The place in the frame of the last byte that the first n of a message make. *)
At(m, k, n) == Len(Header(m)) + Len(FlattenSeq(SubSeq(Items(m, k), 1, n)))

(* What encode_command encrypts is a sequence of bytes, and not empty. *)
LEMMA PayloadType ==
    ASSUME NEW m \in Messages
    PROVE  /\ CmdBytes(m) \in Seq(Bytes)
           /\ Crc(CmdBytes(m)) \in Seq(Bytes)
           /\ Payload(m) \in Seq(Bytes)
           /\ DOMAIN Payload(m) = 1..Len(Payload(m))
           /\ Len(Payload(m)) \in Nat \ {0}
<1>1. m.id \in Seq(Bytes) /\ m.command \in Seq(Bytes) /\ SEP \in Bytes
    <2>1. m.id \in [1..2 -> Digits] \cup {<<>>} /\ Digits \subseteq Bytes
        BY FramingConstants
    <2>2. CASE m.id = <<>>
        <3>1. <<>> \in Seq(Bytes)
            OBVIOUS
        <3> QED BY <2>2, <3>1, FramingConstants
    <2>3. CASE m.id \in [1..2 -> Digits]
        <3>1. m.id \in [1..2 -> Bytes] /\ 2 \in Nat
            BY <2>1, <2>3
        <3>2. m.id \in Seq(Bytes)
            BY <3>1, SeqDef, Zenon
        <3> QED BY <3>2, FramingConstants
    <2> QED BY <2>1, <2>2, <2>3
<1>2. CmdBytes(m) \in Seq(Bytes) /\ Len(CmdBytes(m)) \in Nat \ {0}
    <2>1. <<SEP>> \in Seq(Bytes) /\ Len(<<SEP>>) = 1
        BY <1>1
    <2>2. m.id \o m.command \in Seq(Bytes)
        BY <1>1, ConcatProperties, Zenon
    <2> DEFINE a == m.id \o m.command
               b == <<SEP>>
    <2> HIDE DEF a, b
    <2>3. a \o b \in Seq(Bytes) /\ Len(a \o b) \in Nat \ {0}
        <3>1. a \in Seq(Bytes) /\ b \in Seq(Bytes) /\ Len(b) = 1
            BY <2>1, <2>2 DEF a, b
        <3>2. a \o b \in Seq(Bytes) /\ Len(a \o b) = Len(a) + Len(b) /\ Len(a) \in Nat
            BY <3>1, ConcatProperties, LenProperties
        <3> QED BY <3>1, <3>2
    <2> QED BY <2>3, Zenon DEF CmdBytes, a, b
<1>3. Crc(CmdBytes(m)) \in Seq(Bytes)
    <2>1. Crc(CmdBytes(m)) \in Seq(Utf8 \ Stuffed) /\ Utf8 \subseteq Bytes
        BY FramingConstants, Zenon DEF CmdBytes
    <2> QED BY <2>1
<1> QED BY <1>2, <1>3 DEF Payload

LEMMA CipherType ==
    ASSUME NEW m \in Messages, NEW k \in Keys, NEW i \in 1..Len(Payload(m))
    PROVE  Cipher(m, k, i) \in Bytes /\ k[i] \in Bytes /\ Payload(m)[i] \in Bytes
<1>1. k \in Seq(Bytes) /\ i \in 1..Len(k)
    BY FramingConstants, FrameLengths, PayloadType
<1>2. Payload(m)[i] \in Bytes /\ k[i] \in Bytes
    BY <1>1, PayloadType
<1> QED BY <1>2, FramingConstants DEF Cipher

LEMMA ItemsType ==
    ASSUME NEW m \in Messages, NEW k \in Keys
    PROVE  /\ Items(m, k) \in Seq(Seq(Bytes))
           /\ Len(Items(m, k)) = Len(Payload(m))
           /\ \A i \in 1..Len(Payload(m)) : Items(m, k)[i] = Stuff(Cipher(m, k, i))
<1>1. DLE \in Bytes
    BY FramingConstants DEF Stuffed
<1>2. ASSUME NEW i \in 1..Len(Payload(m)) PROVE Stuff(Cipher(m, k, i)) \in Seq(Bytes)
    BY <1>1, CipherType DEF Stuff
<1>3. DOMAIN Payload(m) = 1..Len(Payload(m)) /\ Len(Payload(m)) \in Nat
    BY PayloadType
<1> QED BY <1>2, <1>3 DEF Items

(* A frame is its header, the stuffed bytes and the ETX. *)
LEMMA FrameParts ==
    ASSUME NEW m \in Messages, NEW k \in Keys
    PROVE  /\ EncodeFrame(m, k) = (Header(m) \o FlattenSeq(Items(m, k))) \o <<ETX>>
           /\ FlattenSeq(Items(m, k)) \in Seq(Bytes)
           /\ Header(m) \in Seq(Bytes)
           /\ EncodeFrame(m, k) \in Seq(Bytes)
<1>1. EncryptChars(Payload(m), k, m.crypt) = FlattenSeq(Items(m, k))
    BY Zenon DEF EncryptChars, Items, Cipher
<1>2. <<STX>> \o (IF m.crypt THEN <<CRYPT>> ELSE <<>>) = Header(m)
    <2>1. CASE m.crypt
        <3>1. <<STX>> \o <<CRYPT>> = <<STX, CRYPT>>
            <4>1. <<STX>> \in Seq(Bytes) /\ CRYPT \in Bytes
                BY FramingConstants DEF Stuffed
            <4>2. Append(<<STX>>, CRYPT) = <<STX>> \o <<CRYPT>>
                BY <4>1, AppendIsConcat, Zenon
            <4>3. Append(<<STX>>, CRYPT) = <<STX, CRYPT>>
                <5>1. /\ Append(<<STX>>, CRYPT) \in Seq(Bytes) /\ <<STX, CRYPT>> \in Seq(Bytes)
                      /\ Len(Append(<<STX>>, CRYPT)) = 2 /\ Len(<<STX, CRYPT>>) = 2
                    BY <4>1
                <5>2. /\ Append(<<STX>>, CRYPT)[1] = STX /\ Append(<<STX>>, CRYPT)[2] = CRYPT
                      /\ <<STX, CRYPT>>[1] = STX /\ <<STX, CRYPT>>[2] = CRYPT
                    BY <4>1
                <5> DEFINE u == Append(<<STX>>, CRYPT)
                           v == <<STX, CRYPT>>
                <5>3. \A i \in 1..Len(u) : u[i] = v[i]
                    <6>1. \A i \in 1..2 : i = 1 \/ i = 2
                        OBVIOUS
                    <6> HIDE DEF u, v
                    <6> QED BY <5>1, <5>2, <6>1 DEF u, v
                <5> HIDE DEF u, v
                <5> QED BY <5>1, <5>3, SeqEqual DEF u, v
            <4> QED BY <4>2, <4>3
        <3> QED BY <2>1, <3>1, Zenon DEF Header
    <2>2. CASE ~m.crypt
        <3>1. <<STX>> \o <<>> = <<STX>>
            OBVIOUS
        <3> QED BY <2>2, <3>1, Zenon DEF Header
    <2> QED BY <2>1, <2>2
<1>3. FlattenSeq(Items(m, k)) \in Seq(Bytes)
    BY ItemsType, FlattenType, Zenon
<1>4. Header(m) \in Seq(Bytes) /\ <<ETX>> \in Seq(Bytes)
    BY FramingConstants DEF Header, Stuffed
<1>5. EncodeFrame(m, k) = (Header(m) \o FlattenSeq(Items(m, k))) \o <<ETX>>
    BY <1>1, <1>2, Zenon DEF EncodeFrame
<1> QED BY <1>3, <1>4, <1>5, ConcatProperties

(* Where each byte of the message lies in its frame. *)
LEMMA FrameShape ==
    ASSUME NEW m \in Messages, NEW k \in Keys
    PROVE  LET f == EncodeFrame(m, k)
               size == Len(Payload(m))
           IN  /\ Len(f) \in Nat
               /\ At(m, k, 0) = Len(Header(m))
               /\ At(m, k, size) = Len(f) - 1
               /\ f[Len(f)] = ETX
               /\ f[1] = STX
               /\ m.crypt => f[2] = CRYPT
               /\ \A n \in 0..size : At(m, k, n) \in 1..(Len(f) - 1)
               /\ \A n \in 0..(size - 1) :
                     LET p == At(m, k, n)
                         b == Cipher(m, k, n + 1)
                     IN  IF b \in Stuffed
                         THEN At(m, k, n + 1) = p + 2 /\ f[p + 1] = DLE /\ f[p + 2] = b
                         ELSE At(m, k, n + 1) = p + 1 /\ f[p + 1] = b
<1> DEFINE f == EncodeFrame(m, k)
           s == Items(m, k)
           h == Header(m)
           w == FlattenSeq(s)
           size == Len(Payload(m))
<1>1. /\ s \in Seq(Seq(Bytes)) /\ Len(s) = size /\ size \in Nat
      /\ \A i \in 1..size : s[i] = Stuff(Cipher(m, k, i))
    BY ItemsType, PayloadType
<1>2. f = (h \o w) \o <<ETX>> /\ w \in Seq(Bytes) /\ h \in Seq(Bytes)
    BY FrameParts
<1>3. /\ h[1] = STX /\ Len(h) \in 1..2
      /\ m.crypt => h[2] = CRYPT /\ Len(h) = 2
    BY DEF Header
<1>4. \A n : At(m, k, n) = Len(h) + Len(FlattenSeq(SubSeq(s, 1, n)))
    BY DEF At
<1> HIDE DEF f, s, h, w, size
<1>5. /\ Len(f) = Len(h) + Len(w) + 1 /\ f[Len(f)] = ETX
      /\ \A i \in 1..Len(h) : f[i] = h[i]
      /\ \A i \in 1..Len(w) : f[Len(h) + i] = w[i]
    BY <1>2
<1>6. At(m, k, 0) = Len(h)
    <2>1. SubSeq(s, 1, 0) = <<>> /\ Len(<<>>) = 0 /\ Len(h) + 0 = Len(h)
        BY <1>1, <1>2
    <2> QED BY <1>4, <2>1, FlattenEmpty
<1>7. At(m, k, size) = Len(f) - 1
    <2>1. SubSeq(s, 1, size) = s
        BY <1>1
    <2>2. At(m, k, size) = Len(h) + Len(w)
        BY <1>4, <2>1, Zenon DEF w
    <2> QED BY <1>2, <1>5, <2>2
<1>8. ASSUME NEW n \in 0..(size - 1)
      PROVE  LET p == At(m, k, n)
                 b == Cipher(m, k, n + 1)
             IN  /\ p \in 1..(Len(f) - 1)
                 /\ IF b \in Stuffed
                    THEN At(m, k, n + 1) = p + 2 /\ f[p + 1] = DLE /\ f[p + 2] = b
                    ELSE At(m, k, n + 1) = p + 1 /\ f[p + 1] = b
    <2> DEFINE before == Len(FlattenSeq(SubSeq(s, 1, n)))
               b == Cipher(m, k, n + 1)
    <2>1. /\ before \in Nat
          /\ Len(FlattenSeq(SubSeq(s, 1, n + 1))) = before + Len(s[n + 1])
          /\ before + Len(s[n + 1]) <= Len(w)
          /\ \A i \in 1..Len(s[n + 1]) : w[before + i] = s[n + 1][i]
        BY <1>1, FlattenIndex DEF w
    <2>2. s[n + 1] = Stuff(b) /\ n + 1 \in 1..size
        BY <1>1
    <2>3. At(m, k, n) = Len(h) + before /\ At(m, k, n + 1) = Len(h) + (before + Len(s[n + 1]))
        BY <1>4, <2>1
    <2> HIDE DEF before, b
    <2>4. CASE b \in Stuffed
        <3>1. Len(s[n + 1]) = 2 /\ s[n + 1][1] = DLE /\ s[n + 1][2] = b
            BY <2>2, <2>4 DEF Stuff
        <3>2. w[before + 1] = DLE /\ w[before + 2] = b
            BY <2>1, <3>1
        <3>3. before + 1 \in 1..Len(w) /\ before + 2 \in 1..Len(w)
            BY <1>2, <2>1, <3>1
        <3>4. f[Len(h) + (before + 1)] = DLE /\ f[Len(h) + (before + 2)] = b
            BY <1>5, <3>2, <3>3
        <3>5. Len(h) + (before + 1) = At(m, k, n) + 1 /\ Len(h) + (before + 2) = At(m, k, n) + 2
              /\ At(m, k, n + 1) = At(m, k, n) + 2 /\ At(m, k, n) \in 1..(Len(f) - 1)
            BY <1>2, <1>3, <1>5, <2>1, <2>3, <3>1, SMTT(30)
        <3> QED BY <2>4, <3>4, <3>5 DEF b
    <2>5. CASE b \notin Stuffed
        <3>1. Len(s[n + 1]) = 1 /\ s[n + 1][1] = b
            BY <2>2, <2>5 DEF Stuff
        <3>2. w[before + 1] = b
            BY <2>1, <3>1
        <3>3. before + 1 \in 1..Len(w)
            BY <1>2, <2>1, <3>1
        <3>4. f[Len(h) + (before + 1)] = b
            BY <1>5, <3>2, <3>3
        <3>5. Len(h) + (before + 1) = At(m, k, n) + 1
              /\ At(m, k, n + 1) = At(m, k, n) + 1 /\ At(m, k, n) \in 1..(Len(f) - 1)
            <4>1. Len(h) \in 1..2 /\ Len(w) \in Nat /\ Len(f) = Len(h) + Len(w) + 1
                BY <1>2, <1>3, <1>5
            <4>2. before + 1 <= Len(w) /\ At(m, k, n + 1) = Len(h) + (before + 1)
                BY <2>1, <2>3, <3>1
            <4>3. At(m, k, n) = Len(h) + before /\ before \in Nat
                BY <2>1, <2>3
            <4> QED BY <4>1, <4>2, <4>3
        <3> QED BY <2>5, <3>4, <3>5 DEF b
    <2> QED BY <2>4, <2>5
<1>9. \A n \in 0..size : At(m, k, n) \in 1..(Len(f) - 1)
    <2>1. Len(f) - 1 \in 1..(Len(f) - 1)
        BY <1>2, <1>3, <1>5
    <2>2. \A n \in 0..size : n = size \/ n \in 0..(size - 1)
        BY <1>1
    <2> QED BY <1>7, <1>8, <2>1, <2>2
<1>10. f[1] = STX /\ (m.crypt => f[2] = CRYPT) /\ Len(f) \in Nat
    BY <1>2, <1>3, <1>5
<1> QED BY <1>5, <1>6, <1>7, <1>8, <1>9, <1>10 DEF f, h, size

-----------------------------------------------------------------------------
(* split_messages finds the end of a frame, and no end inside it. *)
Escaped(data, j) == SplitLoop(data)[j].escaped

(* A byte is escaped after a DLE that is not escaped itself. *)
LEMMA EscapedStep ==
    ASSUME NEW data, Len(data) \in Nat
    PROVE  /\ ~Escaped(data, 0)
           /\ \A j \in 1..Len(data) :
                 Escaped(data, j) <=> data[j] = DLE /\ ~Escaped(data, j - 1)
<1>1. ~Escaped(data, 0)
    BY SplitLoopStep DEF Escaped, SplitStart
<1>2. ASSUME NEW j \in 1..Len(data)
      PROVE  Escaped(data, j) <=> data[j] = DLE /\ ~Escaped(data, j - 1)
    <2> DEFINE s == SplitLoop(data)[j - 1]
    <2>1. SplitLoop(data)[j] = SplitByte(s, data[j])
        BY SplitLoopStep
    <2>2. DLE # ETX
        BY FramingConstants
    <2> HIDE DEF s
    <2>3. CASE data[j] = ETX /\ ~s.escaped
        <3>1. SplitLoop(data)[j] = [messages |-> Append(s.messages, Append(s.leftover, data[j])),
                                    leftover |-> <<>>, escaped |-> FALSE]
            BY <2>1, <2>3, Zenon DEF SplitByte
        <3>2. SplitLoop(data)[j].escaped = FALSE
            BY <3>1
        <3> QED BY <2>2, <2>3, <3>2, Zenon DEF Escaped
    <2>4. CASE ~(data[j] = ETX /\ ~s.escaped)
        <3>1. SplitLoop(data)[j] = [messages |-> s.messages, leftover |-> Append(s.leftover, data[j]),
                                    escaped |-> data[j] = DLE /\ ~s.escaped]
            BY <2>1, <2>4, Zenon DEF SplitByte
        <3>2. SplitLoop(data)[j].escaped = (data[j] = DLE /\ ~s.escaped)
            BY <3>1
        <3> QED BY <3>2, Zenon DEF Escaped, s
    <2> QED BY <2>3, <2>4, Zenon
<1> QED BY <1>1, <1>2

(* The only ETX of a frame that no DLE escapes is its last byte. *)
LEMMA FrameEnd ==
    ASSUME NEW m \in Messages, NEW k \in Keys
    PROVE  LET f == EncodeFrame(m, k)
           IN  \A j \in 1..Len(f) : (f[j] = ETX /\ ~Escaped(f, j - 1)) <=> j = Len(f)
<1> DEFINE f == EncodeFrame(m, k)
           size == Len(Payload(m))
           Quiet(n) == \A j \in 1..n : f[j] = ETX => Escaped(f, j - 1)
           Good == {n \in Nat : ~Escaped(f, At(m, k, n)) /\ Quiet(At(m, k, n))}
<1>1. /\ Len(f) \in Nat /\ size \in Nat
      /\ At(m, k, 0) = Len(Header(m)) /\ At(m, k, size) = Len(f) - 1
      /\ f[Len(f)] = ETX /\ f[1] = STX /\ (m.crypt => f[2] = CRYPT)
      /\ \A n \in 0..size : At(m, k, n) \in 1..(Len(f) - 1)
    BY FrameShape, PayloadType
<1>2. \A n \in 0..(size - 1) :
          LET p == At(m, k, n)
              b == Cipher(m, k, n + 1)
          IN  IF b \in Stuffed
              THEN At(m, k, n + 1) = p + 2 /\ f[p + 1] = DLE /\ f[p + 2] = b
              ELSE At(m, k, n + 1) = p + 1 /\ f[p + 1] = b
    BY FrameShape
<1>3. /\ STX # ETX /\ STX # DLE /\ DLE # ETX /\ CRYPT # ETX /\ CRYPT # DLE
      /\ ETX \in Stuffed /\ DLE \in Stuffed
    BY FramingConstants DEF Stuffed
<1> HIDE DEF f, size
<1>4. /\ ~Escaped(f, 0)
      /\ \A j \in 1..Len(f) : Escaped(f, j) <=> f[j] = DLE /\ ~Escaped(f, j - 1)
    BY <1>1, EscapedStep
<1>5. 0 \in Good
    <2>1. 1 \in 1..Len(f) /\ ~Escaped(f, 1)
        BY <1>1, <1>3, <1>4
    <2>2. CASE m.crypt
        <3>1. At(m, k, 0) = 2
            BY <1>1, <2>2 DEF Header
        <3>2. 2 \in 1..Len(f)
            BY <1>1, <3>1
        <3>3. ~Escaped(f, 2)
            BY <1>1, <1>3, <1>4, <2>2, <3>2
        <3>4. \A j \in 1..2 : f[j] # ETX
            <4>1. \A j \in 1..2 : j = 1 \/ j = 2
                OBVIOUS
            <4> QED BY <1>1, <1>3, <2>2, <4>1
        <3> QED BY <3>1, <3>3, <3>4
    <2>3. CASE ~m.crypt
        <3>1. At(m, k, 0) = 1
            BY <1>1, <2>3 DEF Header
        <3>2. \A j \in 1..1 : f[j] # ETX
            BY <1>1, <1>3
        <3> QED BY <2>1, <3>1, <3>2
    <2> QED BY <2>2, <2>3
<1>6. ASSUME NEW n \in 0..(size - 1), n \in Good PROVE n + 1 \in Good
    <2> DEFINE p == At(m, k, n)
               b == Cipher(m, k, n + 1)
    <2>1. p \in 1..(Len(f) - 1) /\ At(m, k, n + 1) \in 1..(Len(f) - 1) /\ n + 1 \in Nat
        BY <1>1
    <2>2. ~Escaped(f, p) /\ Quiet(p)
        BY <1>6
    <2>3. CASE b \in Stuffed
        <3>1. At(m, k, n + 1) = p + 2 /\ f[p + 1] = DLE /\ f[p + 2] = b
            BY <1>2, <2>3
        <3> HIDE DEF p, b
        <3>2. p + 1 \in 1..Len(f) /\ p + 2 \in 1..Len(f) /\ (p + 1) - 1 = p /\ (p + 2) - 1 = p + 1
            BY <1>1, <2>1, <3>1
        <3>3. Escaped(f, p + 1)
            BY <1>4, <2>2, <3>1, <3>2
        <3>4. ~Escaped(f, p + 2)
            BY <1>4, <3>2, <3>3
        <3>5. Quiet(p + 2)
            <4> SUFFICES ASSUME NEW j \in 1..(p + 2), f[j] = ETX PROVE Escaped(f, j - 1)
                OBVIOUS
            <4>1. j \in 1..p \/ j = p + 1 \/ j = p + 2
                BY <2>1
            <4> QED BY <1>3, <2>2, <3>1, <3>2, <3>3, <4>1
        <3> HIDE DEF Quiet
        <3> QED BY <2>1, <3>1, <3>4, <3>5
    <2>4. CASE b \notin Stuffed
        <3>1. At(m, k, n + 1) = p + 1 /\ f[p + 1] = b
            BY <1>2, <2>4
        <3> HIDE DEF p, b
        <3>2. p + 1 \in 1..Len(f) /\ (p + 1) - 1 = p
            BY <1>1, <2>1, <3>1
        <3>3. ~Escaped(f, p + 1)
            BY <1>3, <1>4, <2>4, <3>1, <3>2
        <3>4. Quiet(p + 1)
            <4> SUFFICES ASSUME NEW j \in 1..(p + 1), f[j] = ETX PROVE Escaped(f, j - 1)
                OBVIOUS
            <4>1. j \in 1..p \/ j = p + 1
                BY <2>1
            <4> QED BY <1>3, <2>2, <2>4, <3>1, <4>1
        <3> HIDE DEF Quiet
        <3> QED BY <2>1, <3>1, <3>3, <3>4
    <2> QED BY <2>3, <2>4
<1>7. size \in Good
    <2> HIDE DEF Good
    <2>1. \A n \in 0..size : n \in Good
        BY <1>1, <1>5, <1>6, BoundedInduction, Zenon
    <2> QED BY <1>1, <2>1
<1>8. ~Escaped(f, Len(f) - 1) /\ Quiet(Len(f) - 1)
    BY <1>1, <1>7
<1>9. ASSUME NEW j \in 1..Len(f)
      PROVE  (f[j] = ETX /\ ~Escaped(f, j - 1)) <=> j = Len(f)
    <2>1. CASE j = Len(f)
        BY <1>1, <1>8, <2>1
    <2>2. CASE j # Len(f)
        <3>1. j \in 1..(Len(f) - 1)
            BY <1>1, <2>2
        <3> QED BY <1>8, <2>2, <3>1
    <2> QED BY <2>1, <2>2
<1> QED BY <1>9 DEF f

(* All the reader needs to know of a frame. *)
IsFrame(f) ==
    /\ f \in Seq(Bytes) /\ Len(f) \in Nat \ {0}
    /\ \A j \in 1..Len(f) : (f[j] = ETX /\ ~Escaped(f, j - 1)) <=> j = Len(f)

LEMMA EncodedIsFrame ==
    ASSUME NEW m \in Messages, NEW k \in Keys
    PROVE  IsFrame(EncodeFrame(m, k))
<1>1. Len(EncodeFrame(m, k)) \in Nat \ {0}
    BY FrameShape, PayloadType
<1>2. EncodeFrame(m, k) \in Seq(Bytes)
    BY FrameParts
<1> QED BY <1>1, <1>2, FrameEnd DEF IsFrame

(* After i bytes of a stream of frames split_messages has the q frames that    *)
(* end there, and p bytes of the next.                                       *)
Reached(fs, data, i, q, p) ==
    /\ q \in 0..Len(fs) /\ p \in Nat
    /\ Len(FlattenSeq(SubSeq(fs, 1, q))) + p = i
    /\ p # 0 => q < Len(fs) /\ p < Len(fs[q + 1])
    /\ SplitLoop(data)[i].messages = SubSeq(fs, 1, q)
    /\ SplitLoop(data)[i].leftover = IF p = 0 THEN <<>> ELSE SubSeq(fs[q + 1], 1, p)
    /\ Escaped(data, i) <=> p # 0 /\ Escaped(fs[q + 1], p)

(* One byte more: it is added to the frame that has begun, or begins or ends one. *)
LEMMA ReachedStep ==
    ASSUME NEW fs \in Seq(Seq(Bytes)), \A n \in 1..Len(fs) : IsFrame(fs[n]),
           NEW data \in Seq(Bytes), Len(data) <= Len(FlattenSeq(fs)),
           \A i \in 1..Len(data) : data[i] = FlattenSeq(fs)[i],
           NEW i \in 0..(Len(data) - 1), NEW q, NEW p, Reached(fs, data, i, q, p)
    PROVE  \E q2, p2 : Reached(fs, data, i + 1, q2, p2)
<1> DEFINE w == FlattenSeq(fs)
           start == Len(FlattenSeq(SubSeq(fs, 1, q)))
           f == fs[q + 1]
           s == SplitLoop(data)[i]
           b == data[i + 1]
<1>1. /\ q \in 0..Len(fs) /\ p \in Nat /\ start + p = i
      /\ p # 0 => q < Len(fs) /\ p < Len(f)
      /\ s.messages = SubSeq(fs, 1, q)
      /\ s.leftover = IF p = 0 THEN <<>> ELSE SubSeq(f, 1, p)
      /\ Escaped(data, i) <=> p # 0 /\ Escaped(f, p)
    BY DEF Reached
<1>2. w \in Seq(Bytes) /\ Len(w) \in Nat /\ Len(data) \in Nat /\ Len(fs) \in Nat
    BY FlattenType
<1>3. q < Len(fs)
    <2> SUFFICES ASSUME q = Len(fs) PROVE FALSE
        BY <1>1, <1>2
    <2>1. SubSeq(fs, 1, q) = fs
        OBVIOUS
    <2>2. start = Len(w) /\ p = 0
        <3>1. start = Len(w)
            BY <2>1, Zenon
        <3>2. p = 0
            <4>1. p # 0 => Len(fs) < Len(fs)
                BY <1>1, Zenon
            <4> QED BY <1>2, <4>1
        <3> QED BY <3>1, <3>2
    <2> HIDE DEF w, start
    <2> QED BY <1>1, <1>2, <2>2 DEF w
<1>4. /\ start \in Nat
      /\ Len(FlattenSeq(SubSeq(fs, 1, q + 1))) = start + Len(f)
      /\ start + Len(f) <= Len(w)
      /\ \A j \in 1..Len(f) : w[start + j] = f[j]
    <2>1. q \in 0..(Len(fs) - 1)
        BY <1>1, <1>2, <1>3
    <2> QED BY <2>1, FlattenIndex
<1>5. IsFrame(f) /\ q + 1 \in 1..Len(fs)
    BY <1>1, <1>2, <1>3
<1>6. f \in Seq(Bytes) /\ Len(f) \in Nat \ {0} /\ p + 1 \in 1..Len(f) /\ p < Len(f)
    BY <1>1, <1>5 DEF IsFrame
<1>7. b = f[p + 1] /\ i + 1 \in 1..Len(data)
    <2>1. i + 1 \in 1..Len(data) /\ i + 1 = start + (p + 1)
        BY <1>1, <1>2, <1>4
    <2>2. data[i + 1] = w[i + 1]
        BY <2>1
    <2> HIDE DEF w, start, f
    <2> QED BY <1>4, <1>6, <2>1, <2>2
<1> HIDE DEF w, start, f, s, b
<1>8. Escaped(data, i) <=> Escaped(f, p)
    BY <1>1, <1>6, EscapedStep, Zenon
<1>9. SplitLoop(data)[i + 1] = SplitByte(s, b)
    <2>1. (i + 1) - 1 = i
        OBVIOUS
    <2> QED BY <1>2, <1>7, <2>1, SplitLoopStep DEF s, b
<1>10. (b = ETX /\ ~s.escaped) <=> p + 1 = Len(f)
    <2>1. (f[p + 1] = ETX /\ ~Escaped(f, (p + 1) - 1)) <=> p + 1 = Len(f)
        BY <1>5, <1>6, Zenon DEF IsFrame
    <2>2. (p + 1) - 1 = p
        BY <1>1
    <2> QED BY <1>7, <1>8, <2>1, <2>2, Zenon DEF Escaped, s
<1>11. Append(s.leftover, b) = SubSeq(f, 1, p + 1)
    <2>1. CASE p = 0
        <3>1. Append(<<>>, f[1]) = SubSeq(f, 1, 1)
            BY <1>6
        <3> QED BY <1>1, <1>7, <2>1, <3>1
    <2>2. CASE p # 0
        <3>1. Append(SubSeq(f, 1, p), f[p + 1]) = SubSeq(f, 1, p + 1)
            BY <1>1, <1>6, <2>2
        <3> QED BY <1>1, <1>7, <2>2, <3>1, Zenon
    <2> QED BY <2>1, <2>2
<1>12. CASE p + 1 = Len(f)
    <2>1. SplitLoop(data)[i + 1] = [messages |-> Append(s.messages, Append(s.leftover, b)),
                                    leftover |-> <<>>, escaped |-> FALSE]
        BY <1>9, <1>10, <1>12, Zenon DEF SplitByte
    <2>2. Append(s.messages, Append(s.leftover, b)) = SubSeq(fs, 1, q + 1)
        <3>1. SubSeq(f, 1, p + 1) = f
            BY <1>6, <1>12
        <3>2. Append(SubSeq(fs, 1, q), fs[q + 1]) = SubSeq(fs, 1, q + 1)
            BY <1>1, <1>2, <1>3, SMTT(30)
        <3> QED BY <1>1, <1>11, <3>1, <3>2, Zenon DEF f
    <2>3. Reached(fs, data, i + 1, q + 1, 0)
        <3>1. q + 1 \in 0..Len(fs) /\ 0 \in Nat
            BY <1>1, <1>2, <1>3
        <3>2. Len(FlattenSeq(SubSeq(fs, 1, q + 1))) + 0 = i + 1
            <4> DEFINE z == Len(FlattenSeq(SubSeq(fs, 1, q + 1)))
            <4>1. z = start + Len(f) /\ start \in Nat /\ start + p = i /\ p \in Nat
                BY <1>1, <1>4, Zenon
            <4> HIDE DEF z
            <4>2. z + 0 = i + 1
                BY <1>12, <4>1
            <4> QED BY <4>2 DEF z
        <3>3. /\ SplitLoop(data)[i + 1].messages = SubSeq(fs, 1, q + 1)
              /\ SplitLoop(data)[i + 1].leftover = <<>>
            <4>1. /\ SplitLoop(data)[i + 1].messages = Append(s.messages, Append(s.leftover, b))
                  /\ SplitLoop(data)[i + 1].leftover = <<>>
                BY <2>1, SMTT(30)
            <4> QED BY <2>2, <4>1, Zenon
        <3>4. ~Escaped(data, i + 1)
            BY <2>1 DEF Escaped
        <3> QED BY <3>1, <3>2, <3>3, <3>4, Zenon DEF Reached
    <2> QED BY <2>3
<1>13. CASE p + 1 # Len(f)
    <2>1. SplitLoop(data)[i + 1] = [messages |-> s.messages, leftover |-> Append(s.leftover, b),
                                    escaped |-> b = DLE /\ ~s.escaped]
        BY <1>9, <1>10, <1>13, Zenon DEF SplitByte
    <2>2. Reached(fs, data, i + 1, q, p + 1)
        <3>1. p + 1 \in Nat /\ start + (p + 1) = i + 1 /\ p + 1 # 0 /\ p + 1 < Len(f)
            <4>1. start \in Nat /\ start + p = i /\ p \in Nat /\ p < Len(f) /\ Len(f) \in Nat
                BY <1>1, <1>4, <1>6, Zenon
            <4> QED BY <1>13, <4>1
        <3>2. /\ SplitLoop(data)[i + 1].messages = s.messages
              /\ SplitLoop(data)[i + 1].leftover = Append(s.leftover, b)
            BY <2>1
        <3>3. Escaped(data, i + 1) <=> Escaped(f, p + 1)
            <4>1. Escaped(data, i + 1) <=> data[i + 1] = DLE /\ ~Escaped(data, (i + 1) - 1)
                BY <1>2, <1>7, EscapedStep, Zenon
            <4>2. Escaped(f, p + 1) <=> f[p + 1] = DLE /\ ~Escaped(f, (p + 1) - 1)
                BY <1>6, EscapedStep
            <4>3. (i + 1) - 1 = i /\ (p + 1) - 1 = p
                BY <1>1
            <4> QED BY <1>7, <1>8, <4>1, <4>2, <4>3, Zenon DEF b
        <3> QED BY <1>1, <1>3, <1>11, <3>1, <3>2, <3>3, Zenon DEF Reached, start, f
    <2> QED BY <2>2
<1> QED BY <1>12, <1>13

(* Whatever the first bytes of a stream of frames: the frames that end in them  *)
(* are split off, and what is left is the beginning of the next one.          *)
LEMMA SplitFrames ==
    ASSUME NEW fs \in Seq(Seq(Bytes)), \A n \in 1..Len(fs) : IsFrame(fs[n]),
           NEW data \in Seq(Bytes), NEW rest \in Seq(Bytes),
           data \o rest = FlattenSeq(fs)
    PROVE  \E q \in 0..Len(fs) :
              LET left == SplitMessages(data).leftover IN
              /\ SplitMessages(data).messages = SubSeq(fs, 1, q)
              /\ left \in Seq(Bytes)
              /\ left \o rest = FlattenSeq(SubSeq(fs, q + 1, Len(fs)))
              /\ left # <<>> => q < Len(fs) /\ IsStrictPrefix(left, fs[q + 1])
<1> DEFINE w == FlattenSeq(fs)
           Good == {i \in Nat : \E q, p : Reached(fs, data, i, q, p)}
<1>1. /\ w \in Seq(Bytes) /\ Len(data) \in Nat /\ Len(data) <= Len(w)
      /\ \A i \in 1..Len(data) : data[i] = w[i]
    <2>1. w \in Seq(Bytes)
        BY FlattenType
    <2>2. w = data \o rest
        OBVIOUS
    <2> HIDE DEF w
    <2> QED BY <2>1, <2>2
<1>2. 0 \in Good
    <2>1. SplitLoop(data)[0] = [messages |-> <<>>, leftover |-> <<>>, escaped |-> FALSE]
        BY <1>1, SplitLoopStep, Zenon DEF SplitStart
    <2>2. /\ SplitLoop(data)[0].messages = <<>> /\ SplitLoop(data)[0].leftover = <<>>
          /\ ~Escaped(data, 0)
        BY <2>1 DEF Escaped
    <2>3. SubSeq(fs, 1, 0) = <<>> /\ Len(<<>>) + 0 = 0 /\ 0 \in 0..Len(fs) /\ 0 \in Nat
        OBVIOUS
    <2>4. Reached(fs, data, 0, 0, 0)
        BY <2>2, <2>3, FlattenEmpty, Zenon DEF Reached
    <2> QED BY <2>3, <2>4, Zenon
<1>3. ASSUME NEW i \in 0..(Len(data) - 1), i \in Good PROVE i + 1 \in Good
    <2>1. PICK q, p : Reached(fs, data, i, q, p)
        BY <1>3, Zenon
    <2>2. \E q2, p2 : Reached(fs, data, i + 1, q2, p2)
        BY <1>1, <2>1, ReachedStep, Zenon
    <2>3. i + 1 \in Nat
        BY <1>3
    <2> QED BY <2>2, <2>3, Zenon
<1>4. Len(data) \in Good
    <2> HIDE DEF Good
    <2>1. \A i \in 0..Len(data) : i \in Good
        BY <1>1, <1>2, <1>3, BoundedInduction, Zenon
    <2> QED BY <1>1, <2>1
<1>5. PICK q, p : Reached(fs, data, Len(data), q, p)
    BY <1>4, Zenon
<1> DEFINE left == SplitMessages(data).leftover
           f == fs[q + 1]
<1>6. /\ q \in 0..Len(fs) /\ p \in Nat
      /\ Len(FlattenSeq(SubSeq(fs, 1, q))) + p = Len(data)
      /\ p # 0 => q < Len(fs) /\ p < Len(f)
      /\ SplitMessages(data).messages = SubSeq(fs, 1, q)
      /\ left = IF p = 0 THEN <<>> ELSE SubSeq(f, 1, p)
    BY <1>5, Zenon DEF Reached, SplitMessages
<1>7. p # 0 => f \in Seq(Bytes) /\ Len(f) \in Nat /\ q + 1 \in 1..Len(fs)
    BY <1>6
<1>8. left \in Seq(Bytes) /\ Len(left) = p
    <2> HIDE DEF f, left
    <2>1. CASE p = 0
        BY <1>6, <2>1
    <2>2. CASE p # 0
        BY <1>6, <1>7, <2>2
    <2> QED BY <2>1, <2>2
<1>9. left # <<>> => q < Len(fs) /\ IsStrictPrefix(left, f)
    <2> SUFFICES ASSUME left # <<>> PROVE q < Len(fs) /\ IsStrictPrefix(left, f)
        OBVIOUS
    <2>1. p # 0 /\ left = SubSeq(f, 1, p) /\ p < Len(f) /\ q < Len(fs)
        BY <1>6, Zenon
    <2> HIDE DEF left, f
    <2>2. SubSeq(left, 1, Len(left)) = SubSeq(f, 1, Len(left)) /\ left # f
        BY <1>6, <1>7, <1>8, <2>1
    <2> QED BY <1>6, <1>7, <1>8, <2>1, <2>2 DEF IsStrictPrefix, IsPrefix
<1>10. data = FlattenSeq(SubSeq(fs, 1, q)) \o left
    <2> DEFINE before == FlattenSeq(SubSeq(fs, 1, q))
    <2>1. before \in Seq(Bytes)
        <3>1. SubSeq(fs, 1, q) \in Seq(Seq(Bytes))
            BY <1>6
        <3> QED BY <3>1, FlattenType, Zenon
    <2>2. w = before \o FlattenSeq(SubSeq(fs, q + 1, Len(fs)))
        BY <1>6, FlattenSplit, Zenon
    <2>3. FlattenSeq(SubSeq(fs, q + 1, Len(fs))) \in Seq(Bytes)
        <3>1. SubSeq(fs, q + 1, Len(fs)) \in Seq(Seq(Bytes))
            BY <1>6
        <3> QED BY <3>1, FlattenType, Zenon
    <2>4. p # 0 => \A j \in 1..Len(f) : w[Len(before) + j] = f[j]
        <3> SUFFICES ASSUME p # 0 PROVE \A j \in 1..Len(f) : w[Len(before) + j] = f[j]
            OBVIOUS
        <3>1. q \in 0..(Len(fs) - 1)
            BY <1>6
        <3> QED BY <3>1, FlattenIndex
    <2> HIDE DEF before, w, left, f
    <2>5. before \o left \in Seq(Bytes) /\ Len(before \o left) = Len(data)
        <3>1. Len(before) + p = Len(data)
            BY <1>6, Zenon DEF before
        <3> QED BY <1>8, <2>1, <3>1, ConcatProperties
    <2>6. ASSUME NEW i \in 1..Len(data) PROVE data[i] = (before \o left)[i]
        <3>1. CASE i <= Len(before)
            <4>1. w[i] = before[i]
                BY <2>1, <2>2, <2>3, <3>1
            <4>2. (before \o left)[i] = before[i]
                BY <1>8, <2>1, <3>1
            <4> QED BY <1>1, <4>1, <4>2
        <3>2. CASE ~(i <= Len(before))
            <4> DEFINE j == i - Len(before)
            <4>1. p # 0 /\ j \in 1..p /\ Len(before) + j = i /\ j \in 1..Len(f)
                BY <1>6, <1>7, <2>1, <3>2 DEF before
            <4> HIDE DEF j
            <4>2. w[i] = f[j]
                BY <2>4, <4>1
            <4>3. (before \o left)[Len(before) + j] = left[j]
                BY <1>8, <2>1, <4>1
            <4>4. left[j] = f[j]
                BY <1>6, <1>7, <4>1
            <4> QED BY <1>1, <4>1, <4>2, <4>3, <4>4
        <3> QED BY <3>1, <3>2
    <2> QED BY <2>5, <2>6, SeqEqual DEF before
<1>11. left \o rest = FlattenSeq(SubSeq(fs, q + 1, Len(fs)))
    <2> DEFINE before == FlattenSeq(SubSeq(fs, 1, q))
               after  == FlattenSeq(SubSeq(fs, q + 1, Len(fs)))
    <2>1. before \in Seq(Bytes) /\ after \in Seq(Bytes)
        <3>1. SubSeq(fs, 1, q) \in Seq(Seq(Bytes)) /\ SubSeq(fs, q + 1, Len(fs)) \in Seq(Seq(Bytes))
            BY <1>6
        <3> QED BY <3>1, FlattenType, Zenon
    <2>2. w = before \o after
        BY <1>6, FlattenSplit, Zenon
    <2> HIDE DEF before, after, left, w
    <2>3. w = (before \o left) \o rest
        BY <1>10 DEF before, w
    <2>4. (before \o left) \o rest = before \o (left \o rest)
        <3>1. left \in Seq(Bytes) /\ rest \in Seq(Bytes)
            BY <1>8
        <3> QED BY <2>1, <3>1, BytesAssoc, ZenonT(60)
    <2>5. left \o rest \in Seq(Bytes)
        BY <1>8, ConcatProperties, Zenon
    <2>6. \A u, v, x \in Seq(Bytes) : u \o v = u \o x => v = x
        BY ConcatSimplifications
    <2> QED BY <2>1, <2>2, <2>3, <2>4, <2>5, <2>6, Zenon DEF after
<1> QED BY <1>6, <1>8, <1>9, <1>11, Zenon DEF left, f

-----------------------------------------------------------------------------
(* decrypt_chars undoes encrypt_chars. *)
LEMMA ConcatParts ==
    ASSUME NEW T, NEW a \in Seq(T), NEW b \in Seq(T)
    PROVE  /\ a \o b \in Seq(T) /\ Len(a \o b) = Len(a) + Len(b)
           /\ \A i \in 1..Len(a) : (a \o b)[i] = a[i]
           /\ \A i \in 1..Len(b) : (a \o b)[Len(a) + i] = b[i]
OBVIOUS

(* The id, the command, the separator and the CRC, position by position. *)
LEMMA PayloadParts ==
    ASSUME NEW m \in Messages
    PROVE  LET c == Crc(CmdBytes(m))
               x == Len(m.id)
               y == Len(m.command)
           IN  /\ m.id \in Seq(Digits) /\ m.command \in Seq(Bytes) /\ c \in Seq(Utf8 \ Stuffed)
               /\ x \in Nat /\ y \in Nat /\ Len(c) \in Nat
               /\ Len(Payload(m)) = x + y + 1 + Len(c)
               /\ \A i \in 1..x : Payload(m)[i] = m.id[i]
               /\ \A i \in 1..y : Payload(m)[x + i] = m.command[i]
               /\ Payload(m)[x + y + 1] = SEP
               /\ \A i \in 1..Len(c) : Payload(m)[x + y + 1 + i] = c[i]
<1> DEFINE c == Crc(CmdBytes(m))
           x == Len(m.id)
           y == Len(m.command)
           a == m.id
           d == m.command
           s == <<SEP>>
<1>1. a \in Seq(Digits)
    <2>1. a \in [1..2 -> Digits] \cup {<<>>} /\ 2 \in Nat
        BY FramingConstants
    <2>2. <<>> \in Seq(Digits)
        OBVIOUS
    <2> QED BY <2>1, <2>2, SeqDef, Zenon
<1>2. d \in Seq(Bytes) /\ c \in Seq(Utf8 \ Stuffed) /\ Digits \subseteq Bytes
      /\ Utf8 \ Stuffed \subseteq Bytes /\ SEP \in Bytes
    BY FramingConstants, Zenon DEF CmdBytes
<1>3. a \in Seq(Bytes) /\ c \in Seq(Bytes) /\ s \in Seq(Bytes) /\ Len(s) = 1 /\ s[1] = SEP
    BY <1>1, <1>2
<1>0. \A g, h \in Seq(Bytes) :
          /\ g \o h \in Seq(Bytes) /\ Len(g \o h) = Len(g) + Len(h)
          /\ \A i \in 1..Len(g) : (g \o h)[i] = g[i]
          /\ \A i \in 1..Len(h) : (g \o h)[Len(g) + i] = h[i]
    BY ConcatParts
<1>4. Payload(m) = ((a \o d) \o s) \o c
    BY Zenon DEF Payload, CmdBytes
<1> DEFINE u == a \o d
           v == u \o s
<1> HIDE DEF c, a, d, s
<1>5. u \in Seq(Bytes) /\ Len(u) = Len(a) + Len(d)
      /\ (\A i \in 1..Len(a) : u[i] = a[i]) /\ (\A i \in 1..Len(d) : u[Len(a) + i] = d[i])
    BY <1>2, <1>3
<1> HIDE DEF u
<1>6. v \in Seq(Bytes) /\ Len(v) = Len(u) + 1
      /\ (\A i \in 1..Len(u) : v[i] = u[i]) /\ v[Len(u) + 1] = SEP
    <2>1. /\ v \in Seq(Bytes) /\ Len(v) = Len(u) + Len(s)
          /\ \A i \in 1..Len(u) : v[i] = u[i]
          /\ \A i \in 1..Len(s) : v[Len(u) + i] = s[i]
        BY <1>0, <1>3, <1>5, Zenon
    <2> HIDE DEF v
    <2>2. 1 \in 1..Len(s)
        BY <1>3
    <2> QED BY <1>3, <2>1, <2>2
<1>7. Payload(m) = v \o c
    BY <1>4 DEF u
<1> HIDE DEF v
<1>8. Len(Payload(m)) = Len(v) + Len(c)
      /\ (\A i \in 1..Len(v) : Payload(m)[i] = v[i]) /\ (\A i \in 1..Len(c) : Payload(m)[Len(v) + i] = c[i])
    <2>1. /\ Len(v \o c) = Len(v) + Len(c)
          /\ \A i \in 1..Len(v) : (v \o c)[i] = v[i]
          /\ \A i \in 1..Len(c) : (v \o c)[Len(v) + i] = c[i]
        BY <1>0, <1>3, <1>6, Zenon
    <2> QED BY <1>7, <2>1
<1>9. Len(a) \in Nat /\ Len(d) \in Nat /\ Len(c) \in Nat
    BY <1>2, <1>3
<1>10. \A i \in 1..Len(a) : Payload(m)[i] = a[i]
    <2> TAKE i \in 1..Len(a)
    <2>1. i \in 1..Len(u) /\ i \in 1..Len(v)
        BY <1>5, <1>6, <1>9
    <2> QED BY <1>5, <1>6, <1>8, <2>1
<1>11. \A i \in 1..Len(d) : Payload(m)[Len(a) + i] = d[i]
    <2> TAKE i \in 1..Len(d)
    <2>1. Len(a) + i \in 1..Len(u) /\ Len(a) + i \in 1..Len(v)
        BY <1>5, <1>6, <1>9
    <2> QED BY <1>5, <1>6, <1>8, <2>1
<1>12. Payload(m)[Len(a) + Len(d) + 1] = SEP
    <2>1. Len(u) + 1 \in 1..Len(v)
        BY <1>5, <1>6, <1>9
    <2> QED BY <1>5, <1>6, <1>8, <2>1
<1>13. \A i \in 1..Len(c) : Payload(m)[Len(a) + Len(d) + 1 + i] = c[i]
    BY <1>5, <1>6, <1>8
<1>14. Len(Payload(m)) = Len(a) + Len(d) + 1 + Len(c)
    BY <1>5, <1>6, <1>8, <1>9
<1> QED BY <1>1, <1>2, <1>9, <1>10, <1>11, <1>12, <1>13, <1>14 DEF a, d, c

(* A message sent without encryption needs no stuffing. *)
LEMMA PlainPayload ==
    ASSUME NEW m \in Messages, ~m.crypt
    PROVE  /\ \A i \in 1..Len(Payload(m)) : Payload(m)[i] \notin Stuffed
           /\ Payload(m)[1] # CRYPT
<1> DEFINE c == Crc(CmdBytes(m))
           x == Len(m.id)
           y == Len(m.command)
           w == Payload(m)
<1>1. /\ m.id \in Seq(Digits) /\ m.command \in Seq(Bytes) /\ c \in Seq(Utf8 \ Stuffed)
      /\ x \in Nat /\ y \in Nat /\ Len(c) \in Nat
      /\ Len(w) = x + y + 1 + Len(c)
      /\ \A i \in 1..x : w[i] = m.id[i]
      /\ \A i \in 1..y : w[x + i] = m.command[i]
      /\ w[x + y + 1] = SEP
      /\ \A i \in 1..Len(c) : w[x + y + 1 + i] = c[i]
    BY PayloadParts
<1>2. /\ Digits \cap (Stuffed \cup {CRYPT, SEP}) = {} /\ SEP \notin Stuffed \cup {CRYPT}
      /\ ToSet(m.command) \cap (Stuffed \cup {CRYPT}) = {}
      /\ m.id = <<>> => y > 0
    BY FramingConstants
<1>3. \A i \in 1..x : m.id[i] \in Digits
    BY <1>1
<1>4. \A i \in 1..y : m.command[i] \notin Stuffed \cup {CRYPT}
    <2> TAKE i \in 1..y
    <2>1. i \in DOMAIN m.command
        BY <1>1
    <2>2. m.command[i] \in ToSet(m.command)
        BY <2>1, Zenon DEF ToSet
    <2> QED BY <1>2, <2>2
<1>5. \A i \in 1..Len(c) : c[i] \notin Stuffed
    BY <1>1
<1> HIDE DEF c, x, y, w
<1>6. ASSUME NEW i \in 1..Len(w) PROVE w[i] \notin Stuffed
    <2>1. CASE i <= x
        <3>1. i \in 1..x
            BY <1>1, <2>1
        <3> QED BY <1>1, <1>2, <1>3, <3>1
    <2>2. CASE x < i /\ i <= x + y
        <3> DEFINE j == i - x
        <3>1. j \in 1..y /\ x + j = i
            BY <1>1, <2>2
        <3> HIDE DEF j
        <3> QED BY <1>1, <1>4, <3>1
    <2>3. CASE i = x + y + 1
        BY <1>1, <1>2, <2>3
    <2>4. CASE i > x + y + 1
        <3> DEFINE j == i - (x + y + 1)
        <3>1. j \in 1..Len(c) /\ x + y + 1 + j = i
            BY <1>1, <2>4
        <3> HIDE DEF j
        <3> QED BY <1>1, <1>5, <3>1
    <2> QED BY <1>1, <2>1, <2>2, <2>3, <2>4
<1>7. w[1] # CRYPT
    <2>1. CASE x > 0
        <3>1. 1 \in 1..x
            BY <1>1, <2>1
        <3> QED BY <1>1, <1>2, <1>3, <3>1
    <2>2. CASE x = 0
        <3>1. m.id = <<>>
            BY <1>1, <2>2 DEF x
        <3>2. 1 \in 1..y /\ x + 1 = 1
            BY <1>1, <1>2, <2>2, <3>1
        <3>3. w[1] = m.command[1]
            BY <1>1, <3>2
        <3> QED BY <1>4, <3>2, <3>3
    <2> QED BY <1>1, <2>1, <2>2
<1> QED BY <1>6, <1>7 DEF w

(* decode_message decides from the second byte whether a frame is encrypted. *)
LEMMA CryptIndicator ==
    ASSUME NEW m \in Messages, NEW k \in Keys
    PROVE  LET f == EncodeFrame(m, k)
           IN  (Len(f) > 1 /\ f[2] = CRYPT) = m.crypt
<1> DEFINE f == EncodeFrame(m, k)
<1>1. m.crypt \in BOOLEAN
    BY FramingConstants
<1>2. CASE m.crypt
    <2>1. f[2] = CRYPT /\ At(m, k, 0) = 2 /\ At(m, k, 0) \in 1..(Len(f) - 1) /\ Len(f) \in Nat
        <3>1. Len(Header(m)) = 2
            BY <1>2 DEF Header
        <3>2. 0 \in 0..Len(Payload(m))
            BY PayloadType
        <3> QED BY <1>2, <3>1, <3>2, FrameShape
    <2> HIDE DEF f
    <2>2. Len(f) > 1
        BY <2>1
    <2> QED BY <1>1, <1>2, <2>1, <2>2, Zenon DEF f
<1>3. CASE ~m.crypt
    <2>1. 0 \in 0..(Len(Payload(m)) - 1) /\ 1 \in 1..Len(Payload(m)) /\ 0 + 1 = 1
        BY PayloadType
    <2>2. At(m, k, 0) = 1
        <3>1. Len(Header(m)) = 1
            BY <1>3 DEF Header
        <3> QED BY <3>1, FrameShape
    <2>3. Cipher(m, k, 0 + 1) = Payload(m)[1] /\ Payload(m)[1] \notin Stuffed /\ Payload(m)[1] # CRYPT
        BY <1>3, <2>1, PlainPayload DEF Cipher
    <2>4. f[1 + 1] = Payload(m)[1]
        BY <2>1, <2>2, <2>3, FrameShape
    <2> HIDE DEF f
    <2>5. f[2] # CRYPT
        BY <2>3, <2>4
    <2> QED BY <1>1, <1>3, <2>5, Zenon DEF f
<1> QED BY <1>1, <1>2, <1>3

(* After the bytes that stand for the first n of the message, decrypt_chars has *)
(* these n: with encryption, without it, and whatever had to be stuffed.       *)
LEMMA DecryptFrame ==
    ASSUME NEW m \in Messages, NEW k \in Keys
    PROVE  DecryptChars(EncodeFrame(m, k), k, m.crypt) = Payload(m)
<1> DEFINE f == EncodeFrame(m, k)
           w == Payload(m)
           size == Len(w)
           L(i) == DecryptLoop(f, k, m.crypt)[i]
           Done(n) == [result |-> SubSeq(w, 1, n), escaped |-> FALSE]
           Good == {n \in Nat : L(At(m, k, n)) = Done(n)}
<1>1. /\ Len(f) \in Nat /\ size \in Nat /\ w \in Seq(Bytes)
      /\ At(m, k, 0) = Len(Header(m)) /\ At(m, k, size) = Len(f) - 1
      /\ \A n \in 0..size : At(m, k, n) \in 1..(Len(f) - 1)
    BY FrameShape, PayloadType
<1>2. \A n \in 0..(size - 1) :
          LET p == At(m, k, n)
              b == Cipher(m, k, n + 1)
          IN  IF b \in Stuffed
              THEN At(m, k, n + 1) = p + 2 /\ f[p + 1] = DLE /\ f[p + 2] = b
              ELSE At(m, k, n + 1) = p + 1 /\ f[p + 1] = b
    BY FrameShape
<1>3. DLE \in Stuffed
    BY DEF Stuffed
<1>4. /\ Len(Header(m)) = IF m.crypt THEN 2 ELSE 1
    BY DEF Header
<1> HIDE DEF f, w
<1>5. \A i \in 0..(Len(f) - 1) :
          L(i) = IF i < (IF m.crypt THEN 3 ELSE 2) THEN DecryptStart
                 ELSE DecryptByte(L(i - 1), f, i, k, m.crypt)
    <2>1. 0 \in 0..size /\ Len(f) - 1 \in Nat
        BY <1>1
    <2> QED BY <2>1, DecryptLoopStep
<1>6. \A n \in 0..size : At(m, k, n) >= (IF m.crypt THEN 2 ELSE 1)
    <2>1. \A n \in 0..size : At(m, k, n) >= Len(Header(m))
        <3> TAKE n \in 0..size
        <3>1. Items(m, k) \in Seq(Seq(Bytes)) /\ Len(Items(m, k)) = size
            BY ItemsType DEF w
        <3>2. SubSeq(Items(m, k), 1, n) \in Seq(Seq(Bytes))
            BY <3>1, <1>1
        <3>3. Len(FlattenSeq(SubSeq(Items(m, k), 1, n))) \in Nat
            BY <3>2, FlattenType, LenProperties, Zenon
        <3>4. Len(Header(m)) \in Nat
            BY <1>4
        <3> QED BY <3>3, <3>4 DEF At
    <2> QED BY <1>4, <2>1
<1>7. 0 \in Good
    <2>1. At(m, k, 0) < (IF m.crypt THEN 3 ELSE 2) /\ At(m, k, 0) \in 0..(Len(f) - 1)
        BY <1>1, <1>4
    <2>2. L(At(m, k, 0)) = DecryptStart
        BY <1>5, <2>1, Zenon
    <2>3. SubSeq(w, 1, 0) = <<>>
        BY <1>1
    <2> QED BY <2>2, <2>3 DEF DecryptStart
<1>8. ASSUME NEW n \in 0..(size - 1), n \in Good PROVE n + 1 \in Good
    <2> DEFINE p == At(m, k, n)
               b == Cipher(m, k, n + 1)
    <2>1. /\ p \in 1..(Len(f) - 1) /\ At(m, k, n + 1) \in 1..(Len(f) - 1) /\ n + 1 \in Nat
          /\ p >= (IF m.crypt THEN 2 ELSE 1) /\ n + 1 \in 1..size
        BY <1>1, <1>6
    <2>2. L(p) = Done(n) /\ SubSeq(w, 1, n) \in Seq(Bytes) /\ Len(SubSeq(w, 1, n)) = n
        BY <1>1, <1>8
    <2>3. SubSeq(w, 1, n + 1) = Append(SubSeq(w, 1, n), w[n + 1])
        BY <1>1
    <2>4. (IF m.crypt THEN XorByte(b, k[n + 1]) ELSE b) = w[n + 1]
        <3>1. w[n + 1] \in Bytes /\ k[n + 1] \in Bytes
            BY <2>1, CipherType DEF w
        <3>2. m.crypt => XorByte(XorByte(w[n + 1], k[n + 1]), k[n + 1]) = w[n + 1]
            BY <3>1, FramingConstants
        <3> QED BY <3>2, Zenon DEF Cipher, w
    <2>5. CASE b \in Stuffed
        <3>1. At(m, k, n + 1) = p + 2 /\ f[p + 1] = DLE /\ f[p + 2] = b
            BY <1>2, <2>5
        <3>2. m.crypt
            <4> SUFFICES ASSUME ~m.crypt PROVE FALSE
                OBVIOUS
            <4> QED BY <2>1, <2>5, PlainPayload DEF Cipher, w
        <3> HIDE DEF p, b
        <3>3. /\ p + 1 \in 0..(Len(f) - 1) /\ p + 2 \in 0..(Len(f) - 1)
              /\ ~(p + 1 < 3) /\ ~(p + 2 < 3) /\ (p + 1) - 1 = p /\ (p + 2) - 1 = p + 1
              /\ (p + 1) + 1 < Len(f) /\ (p + 1) + 1 = p + 2
            BY <1>1, <2>1, <3>1, <3>2
        <3>4. L(p + 1) = DecryptByte(Done(n), f, p + 1, k, m.crypt)
            BY <1>5, <2>2, <3>2, <3>3, Zenon
        <3>5. Done(n).result = SubSeq(w, 1, n) /\ Done(n).escaped = FALSE
            OBVIOUS
        <3> DEFINE mid == [result |-> SubSeq(w, 1, n), escaped |-> TRUE]
        <3>6. L(p + 1) = mid
            <4> HIDE DEF L, Done
            <4> QED BY <2>5, <3>1, <3>2, <3>3, <3>4, <3>5, Zenon DEF DecryptByte
        <3>7. L(p + 2) = DecryptByte(mid, f, p + 2, k, m.crypt)
            <4>1. L(p + 2) = DecryptByte(L((p + 2) - 1), f, p + 2, k, m.crypt)
                BY <1>5, <3>2, <3>3, Zenon
            <4> HIDE DEF L, mid
            <4> QED BY <3>3, <3>6, <4>1, Zenon
        <3>8. mid.result = SubSeq(w, 1, n) /\ mid.escaped = TRUE
            OBVIOUS
        <3> HIDE DEF mid
        <3>9. L(p + 2) = [result |-> Append(SubSeq(w, 1, n), w[n + 1]), escaped |-> FALSE]
            <4> HIDE DEF L
            <4>1. DecryptByte(mid, f, p + 2, k, m.crypt)
                    = [result |-> Append(SubSeq(w, 1, n), XorByte(b, k[n + 1])), escaped |-> FALSE]
                BY <2>2, <3>1, <3>2, <3>8, Zenon DEF DecryptByte
            <4> QED BY <2>4, <3>2, <3>7, <4>1, Zenon
        <3>10. L(At(m, k, n + 1)) = Done(n + 1)
            <4> HIDE DEF L
            <4> QED BY <2>3, <3>1, <3>9, Zenon DEF p
        <3> QED BY <2>1, <3>10
    <2>6. CASE b \notin Stuffed
        <3>1. At(m, k, n + 1) = p + 1 /\ f[p + 1] = b
            BY <1>2, <2>6
        <3> HIDE DEF p, b
        <3>2. p + 1 \in 0..(Len(f) - 1) /\ ~(p + 1 < (IF m.crypt THEN 3 ELSE 2)) /\ (p + 1) - 1 = p
            BY <1>1, <2>1, <3>1
        <3>3. L(p + 1) = DecryptByte(Done(n), f, p + 1, k, m.crypt)
            BY <1>5, <2>2, <3>2, Zenon
        <3>4. Done(n).result = SubSeq(w, 1, n) /\ Done(n).escaped = FALSE
            OBVIOUS
        <3>5. f[p + 1] # DLE
            BY <1>3, <2>6, <3>1
        <3>6. L(p + 1) = [result |-> Append(SubSeq(w, 1, n), w[n + 1]), escaped |-> FALSE]
            <4> HIDE DEF L, Done
            <4> QED BY <2>2, <2>4, <3>1, <3>3, <3>4, <3>5, Zenon DEF DecryptByte
        <3>7. L(At(m, k, n + 1)) = Done(n + 1)
            <4> HIDE DEF L
            <4> QED BY <2>3, <3>1, <3>6, Zenon DEF p
        <3> QED BY <2>1, <3>7
    <2> QED BY <2>5, <2>6
<1>9. size \in Good
    <2> HIDE DEF Good
    <2>1. \A n \in 0..size : n \in Good
        BY <1>1, <1>7, <1>8, BoundedInduction, Zenon
    <2> QED BY <1>1, <2>1
<1>10. L(Len(f) - 1) = Done(size) /\ SubSeq(w, 1, size) = w
    BY <1>1, <1>9
<1>11. DecryptChars(f, k, m.crypt) = w
    BY <1>10 DEF DecryptChars
<1> QED BY <1>11 DEF f, w

(* A part of a sequence, position by position. *)
LEMMA SubSeqParts ==
    ASSUME NEW T, NEW s \in Seq(T), NEW m \in Nat, NEW n \in Nat, m + n <= Len(s)
    PROVE  /\ SubSeq(s, m + 1, m + n) \in Seq(T)
           /\ Len(SubSeq(s, m + 1, m + n)) = n
           /\ \A i \in 1..n : SubSeq(s, m + 1, m + n)[i] = s[m + i]
OBVIOUS

LEMMA PrefixParts ==
    ASSUME NEW T, NEW s \in Seq(T), NEW n \in Nat, n <= Len(s)
    PROVE  /\ SubSeq(s, 1, n) \in Seq(T) /\ Len(SubSeq(s, 1, n)) = n
           /\ \A i \in 1..n : SubSeq(s, 1, n)[i] = s[i]
OBVIOUS

(* The first separator is where SepAt finds it. *)
LEMMA SepFound ==
    ASSUME NEW T, NEW s \in Seq(T), NEW n \in 1..Len(s), s[n] = SEP,
           \A i \in 1..(n - 1) : s[i] # SEP
    PROVE  /\ SepAt(s) = n
           /\ BeforeSep(s) = SubSeq(s, 1, n - 1)
           /\ AfterSep(s) = SubSeq(s, n + 1, Len(s))
<1>1. SepAt(s) = n
    BY DEF SepAt, SelectInSeq, Min
<1>2. n # 0
    OBVIOUS
<1> QED BY <1>1, <1>2, Zenon DEF BeforeSep, AfterSep

(* from_utf8_lossy changes nothing in UTF-8 text. *)
LEMMA Utf8Kept ==
    ASSUME NEW s \in Seq(Bytes)
    PROVE  /\ FromUtf8Lossy(s) \in Seq(Bytes)
           /\ (\A i \in 1..Len(s) : s[i] \in Utf8) => FromUtf8Lossy(s) = s
<1> DEFINE Piece(i) == IF s[i] \in Utf8 THEN <<s[i]>> ELSE Lossy(s[i])
           pieces == [i \in DOMAIN s |-> Piece(i)]
<1>1. ASSUME NEW i \in 1..Len(s) PROVE Piece(i) \in Seq(Bytes)
    <2>1. s[i] \in Bytes
        OBVIOUS
    <2>2. <<s[i]>> \in Seq(Bytes)
        BY <2>1
    <2>3. s[i] \notin Utf8 => Lossy(s[i]) \in Seq(Bytes)
        BY <2>1, FramingConstants
    <2> QED BY <2>2, <2>3, Zenon
<1>2. DOMAIN s = 1..Len(s) /\ Len(s) \in Nat
    OBVIOUS
<1>3. pieces \in Seq(Seq(Bytes)) /\ Len(pieces) = Len(s) /\ \A i \in 1..Len(s) : pieces[i] = Piece(i)
    <2> HIDE DEF Piece
    <2> QED BY <1>1, <1>2
<1>4. FromUtf8Lossy(s) = FlattenSeq(pieces)
    BY Zenon DEF FromUtf8Lossy
<1>5. (\A i \in 1..Len(s) : s[i] \in Utf8) => FlattenSeq(pieces) = s
    <2> SUFFICES ASSUME \A i \in 1..Len(s) : s[i] \in Utf8 PROVE FlattenSeq(pieces) = s
        OBVIOUS
    <2>1. \A i \in 1..Len(s) : pieces[i] = <<s[i]>>
        BY <1>3, Zenon
    <2> HIDE DEF pieces
    <2> QED BY <1>3, <2>1, FlattenSingles
<1>6. FlattenSeq(pieces) \in Seq(Bytes)
    <2> HIDE DEF pieces
    <2> QED BY <1>3, FlattenType, Zenon
<1> QED BY <1>4, <1>5, <1>6, Zenon

(* What decode_message should return for a message. *)
DecodedOf(m) == [cmd_id |-> m.id, command |-> m.command, crc_valid |-> TRUE]

(* decode_message returns what encode_command was given. *)
LEMMA DecodeFrame ==
    ASSUME NEW m \in Messages, NEW k \in Keys
    PROVE  LET d == DecodeMessage(EncodeFrame(m, k), k)
           IN  /\ d \in [cmd_id : [1..2 -> Digits] \cup {<<>>}, command : Seq(Bytes),
                         crc_valid : BOOLEAN]
               /\ ToSet(m.command) \subseteq Utf8 => d = DecodedOf(m)
<1> DEFINE w == Payload(m)
           c == Crc(CmdBytes(m))
           x == Len(m.id)
           y == Len(m.command)
           idLen == IF Len(w) >= 2 /\ {w[1], w[2]} \subseteq Digits THEN 2 ELSE 0
           tail == SubSeq(w, idLen + 1, Len(w))
           decoded_m == [cmd_id |-> SubSeq(w, 1, idLen),
                         command |-> FromUtf8Lossy(BeforeSep(tail)),
                         crc_valid |-> IsValidCrc(w, AfterSep(tail))]
<1>1. DecodeMessage(EncodeFrame(m, k), k) = decoded_m
    BY CryptIndicator, DecryptFrame, Zenon DEF DecodeMessage
<1>2. /\ m.id \in Seq(Digits) /\ m.command \in Seq(Bytes) /\ c \in Seq(Utf8 \ Stuffed)
      /\ x \in Nat /\ y \in Nat /\ Len(c) \in Nat
      /\ Len(w) = x + y + 1 + Len(c)
      /\ \A i \in 1..x : w[i] = m.id[i]
      /\ \A i \in 1..y : w[x + i] = m.command[i]
      /\ w[x + y + 1] = SEP
      /\ \A i \in 1..Len(c) : w[x + y + 1 + i] = c[i]
    BY PayloadParts
<1>3. w \in Seq(Bytes) /\ c \in Seq(Bytes) /\ Digits \subseteq Bytes
    BY PayloadType, FramingConstants
<1>4. /\ SEP \notin Digits /\ SEP \in Utf8 /\ Digits \subseteq Utf8
      /\ SEP \notin ToSet(m.command)
      /\ m.id = <<>> => y > 0 /\ m.command[1] \notin Digits
      /\ m.id \in [1..2 -> Digits] \cup {<<>>}
    BY FramingConstants
<1>5. \A i \in 1..y : m.command[i] # SEP /\ m.command[i] \in ToSet(m.command)
    <2> TAKE i \in 1..y
    <2>1. i \in DOMAIN m.command
        BY <1>2
    <2>2. m.command[i] \in ToSet(m.command)
        BY <2>1, Zenon DEF ToSet
    <2> QED BY <1>4, <2>2
<1>6. \A i \in 1..x : m.id[i] \in Digits
    BY <1>2
<1>7. \A i \in 1..Len(c) : c[i] \in Utf8
    BY <1>2
<1> HIDE DEF w, c
<1>8. idLen = x
    <2>1. CASE m.id = <<>>
        <3>1. x = 0 /\ 1 \in 1..y /\ x + 1 = 1
            BY <1>2, <1>4, <2>1
        <3>2. w[1] = m.command[1] /\ w[1] \notin Digits
            BY <1>2, <1>4, <2>1, <3>1
        <3> QED BY <3>1, <3>2
    <2>2. CASE m.id \in [1..2 -> Digits]
        <3>0. m.id \in Seq(Digits) /\ DOMAIN m.id = 1..2
            BY <1>2, <2>2
        <3>1. x = 2 /\ 1 \in 1..x /\ 2 \in 1..x
            <4>1. 1..2 = 1..x /\ x \in Nat
                BY <1>2, <3>0, LenProperties, Zenon DEF x
            <4> HIDE DEF x
            <4>2. 2 \in 1..x /\ x <= 2
                <5>1. 2 \in 1..2 /\ 1 \in 1..2
                    OBVIOUS
                <5>2. 2 \in 1..x
                    BY <4>1, <5>1, Zenon
                <5>3. x \in 1..x
                    BY <4>1, <5>2
                <5>4. x \in 1..2
                    BY <4>1, <5>3, Zenon
                <5> QED BY <5>2, <5>4
            <4> QED BY <4>1, <4>2
        <3>2. w[1] \in Digits /\ w[2] \in Digits
            BY <1>2, <1>6, <3>1
        <3>3. Len(w) >= 2
            BY <1>2, <3>1
        <3> QED BY <3>1, <3>2, <3>3
    <2> QED BY <1>4, <2>1, <2>2
<1> HIDE DEF x, y
<1>9. SubSeq(w, 1, x) = m.id
    <2> DEFINE p == SubSeq(w, 1, x)
    <2>1. m.id \in Seq(Bytes)
        BY <1>2, <1>3
    <2>2. p \in Seq(Bytes) /\ Len(p) = x /\ \A i \in 1..x : p[i] = w[i]
        <3>1. x <= Len(w)
            BY <1>2
        <3> QED BY <1>2, <1>3, <3>1, PrefixParts
    <2> HIDE DEF p
    <2>3. \A i \in 1..x : p[i] = m.id[i]
        BY <1>2, <2>2, Zenon
    <2>4. p = m.id
        BY <2>1, <2>2, <2>3, SeqEqual DEF x
    <2> QED BY <2>4 DEF p
<1>10. /\ tail \in Seq(Bytes) /\ Len(tail) = y + 1 + Len(c)
       /\ \A i \in 1..Len(tail) : tail[i] = w[x + i]
    <2>1. tail = SubSeq(w, x + 1, Len(w))
        BY <1>8
    <2> HIDE DEF tail
    <2> DEFINE z == y + 1 + Len(c)
    <2>2. z \in Nat /\ x + z = Len(w)
        BY <1>2
    <2> HIDE DEF z
    <2>5. x + z <= Len(w)
        BY <1>2, <2>2
    <2>3. /\ SubSeq(w, x + 1, x + z) \in Seq(Bytes) /\ Len(SubSeq(w, x + 1, x + z)) = z
          /\ \A i \in 1..z : SubSeq(w, x + 1, x + z)[i] = w[x + i]
        BY <1>2, <1>3, <2>2, <2>5, SubSeqParts
    <2>4. tail \in Seq(Bytes) /\ Len(tail) = z /\ \A i \in 1..Len(tail) : tail[i] = w[x + i]
        BY <2>1, <2>2, <2>3, Zenon
    <2> QED BY <2>4 DEF z
<1> HIDE DEF tail
<1>11. /\ BeforeSep(tail) = m.command /\ AfterSep(tail) = c
    <2>1. y + 1 \in 1..Len(tail) /\ tail[y + 1] = SEP
        <3>1. y + 1 \in 1..Len(tail) /\ x + (y + 1) = x + y + 1
            BY <1>2, <1>10
        <3> QED BY <1>2, <1>10, <3>1
    <2>2. \A i \in 1..((y + 1) - 1) : i \in 1..y /\ tail[i] = m.command[i]
        <3> TAKE i \in 1..((y + 1) - 1)
        <3>1. i \in 1..y /\ i \in 1..Len(tail)
            BY <1>2, <1>10
        <3> QED BY <1>2, <1>10, <3>1
    <2>3. \A i \in 1..((y + 1) - 1) : tail[i] # SEP
        BY <1>5, <2>2
    <2>4. /\ BeforeSep(tail) = SubSeq(tail, 1, (y + 1) - 1)
          /\ AfterSep(tail) = SubSeq(tail, (y + 1) + 1, Len(tail))
        BY <1>10, <2>1, <2>3, SepFound
    <2>5. SubSeq(tail, 1, (y + 1) - 1) = m.command
        <3>1. (y + 1) - 1 = y /\ y <= Len(tail)
            BY <1>2, <1>10
        <3>2. SubSeq(tail, 1, y) \in Seq(Bytes) /\ Len(SubSeq(tail, 1, y)) = y
            BY <1>2, <1>10, <3>1
        <3>3. \A i \in 1..y : SubSeq(tail, 1, y)[i] = m.command[i]
            BY <1>2, <1>10, <2>2, <3>1
        <3> QED BY <1>2, <3>1, <3>2, <3>3, SeqEqual DEF y
    <2>6. SubSeq(tail, (y + 1) + 1, Len(tail)) = c
        <3> DEFINE e == SubSeq(tail, y + 2, Len(tail))
        <3>1. (y + 1) + 1 = y + 2
            BY <1>2
        <3>2. /\ e \in Seq(Bytes) /\ Len(e) = Len(c)
              /\ \A i \in 1..Len(c) : e[i] = tail[y + 1 + i] /\ y + 1 + i \in 1..Len(tail)
            <4> DEFINE a == y + 1
                       z == Len(c)
            <4>1. a \in Nat /\ z \in Nat /\ a + 1 = y + 2 /\ a + z = Len(tail)
                  /\ \A i \in 1..z : a + i \in 1..Len(tail)
                BY <1>2, <1>10
            <4> HIDE DEF a, z
            <4>2. /\ SubSeq(tail, a + 1, a + z) \in Seq(Bytes)
                  /\ Len(SubSeq(tail, a + 1, a + z)) = z
                  /\ \A i \in 1..z : SubSeq(tail, a + 1, a + z)[i] = tail[a + i]
                <5>1. a + z <= Len(tail)
                    BY <4>1, <1>10
                <5> QED BY <1>10, <4>1, <5>1, SubSeqParts, SMTT(30)
            <4>3. e \in Seq(Bytes) /\ Len(e) = z /\ \A i \in 1..z : e[i] = tail[a + i] /\ a + i \in 1..Len(tail)
                BY <4>1, <4>2, Zenon
            <4> QED BY <4>3 DEF a, z
        <3>3. ASSUME NEW i \in 1..Len(c) PROVE e[i] = c[i]
            <4>1. e[i] = tail[y + 1 + i] /\ y + 1 + i \in 1..Len(tail)
                BY <3>2
            <4>2. x + (y + 1 + i) = x + y + 1 + i
                BY <1>2
            <4> HIDE DEF e
            <4> QED BY <1>2, <1>10, <4>1, <4>2
        <3> HIDE DEF e
        <3>4. e = c
            BY <1>3, <3>2, <3>3, SeqEqual
        <3> QED BY <3>1, <3>4 DEF e
    <2> QED BY <2>4, <2>5, <2>6
<1>12. decoded_m = [cmd_id |-> m.id, command |-> FromUtf8Lossy(m.command), crc_valid |-> IsValidCrc(w, c)]
    BY <1>8, <1>9, <1>11, Zenon
<1>13. FromUtf8Lossy(m.command) \in Seq(Bytes)
    BY <1>2, Utf8Kept
<1>14. IsValidCrc(w, c) \in BOOLEAN
    BY Zenon DEF IsValidCrc
<1>15. ASSUME ToSet(m.command) \subseteq Utf8
       PROVE  FromUtf8Lossy(m.command) = m.command /\ IsValidCrc(w, c) = TRUE
    <2>1. FromUtf8Lossy(m.command) = m.command
        <3>1. \A i \in 1..Len(m.command) : m.command[i] \in Utf8
            BY <1>5, <1>15 DEF y
        <3> QED BY <1>2, <3>1, Utf8Kept
    <2>2. FromUtf8Lossy(c) = c
        BY <1>3, <1>7, Utf8Kept
    <2>3. FromUtf8Lossy(w) = w
        <3>1. ASSUME NEW i \in 1..Len(w) PROVE w[i] \in Utf8
            <4>1. CASE i <= x
                <5>1. i \in 1..x
                    BY <1>2, <4>1
                <5> QED BY <1>2, <1>4, <1>6, <5>1
            <4>2. CASE x < i /\ i <= x + y
                <5> DEFINE j == i - x
                <5>1. j \in 1..y /\ x + j = i
                    BY <1>2, <4>2
                <5> HIDE DEF j
                <5> QED BY <1>2, <1>5, <1>15, <5>1
            <4>3. CASE i = x + y + 1
                BY <1>2, <1>4, <4>3
            <4>4. CASE i > x + y + 1
                <5> DEFINE j == i - (x + y + 1)
                <5>1. j \in 1..Len(c) /\ x + y + 1 + j = i
                    BY <1>2, <4>4
                <5> HIDE DEF j
                <5> QED BY <1>2, <1>7, <5>1
            <4> QED BY <1>2, <4>1, <4>2, <4>3, <4>4
        <3> QED BY <1>3, <3>1, Utf8Kept
    <2>4. SepAt(w) # 0 /\ BeforeSep(w) = SubSeq(w, 1, x + y)
        <3>1. x + y + 1 \in 1..Len(w) /\ (x + y + 1) - 1 = x + y
            BY <1>2
        <3>2. ASSUME NEW i \in 1..((x + y + 1) - 1) PROVE w[i] # SEP
            <4>1. CASE i <= x
                <5>1. i \in 1..x
                    BY <1>2, <4>1
                <5> QED BY <1>2, <1>4, <1>6, <5>1
            <4>2. CASE x < i
                <5> DEFINE j == i - x
                <5>1. j \in 1..y /\ x + j = i
                    BY <1>2, <4>2
                <5> HIDE DEF j
                <5> QED BY <1>2, <1>5, <5>1
            <4> QED BY <1>2, <4>1, <4>2
        <3>3. SepAt(w) = x + y + 1 /\ BeforeSep(w) = SubSeq(w, 1, (x + y + 1) - 1)
            BY <1>2, <1>3, <3>1, <3>2, SepFound
        <3> QED BY <1>2, <3>1, <3>3
    <2>5. SubSeq(w, 1, x + y) = m.id \o m.command
        <3> DEFINE u == m.id \o m.command
        <3>1. m.id \in Seq(Bytes)
            BY <1>2, <1>3
        <3>2. /\ u \in Seq(Bytes) /\ Len(u) = x + y
              /\ \A i \in 1..x : u[i] = m.id[i]
              /\ \A i \in 1..y : u[x + i] = m.command[i]
            <4>1. \A g, h \in Seq(Bytes) :
                     /\ g \o h \in Seq(Bytes) /\ Len(g \o h) = Len(g) + Len(h)
                     /\ \A i \in 1..Len(g) : (g \o h)[i] = g[i]
                     /\ \A i \in 1..Len(h) : (g \o h)[Len(g) + i] = h[i]
                BY ConcatParts
            <4> QED BY <1>2, <3>1, <4>1, Zenon DEF x, y
        <3>3. SubSeq(w, 1, x + y) \in Seq(Bytes) /\ Len(SubSeq(w, 1, x + y)) = x + y
              /\ \A i \in 1..(x + y) : SubSeq(w, 1, x + y)[i] = w[i]
            BY <1>2, <1>3
        <3> HIDE DEF u
        <3>4. ASSUME NEW i \in 1..(x + y) PROVE w[i] = u[i]
            <4>1. CASE i <= x
                <5>1. i \in 1..x
                    BY <1>2, <4>1
                <5> QED BY <1>2, <3>2, <5>1
            <4>2. CASE x < i
                <5> DEFINE j == i - x
                <5>1. j \in 1..y /\ x + j = i
                    BY <1>2, <4>2
                <5> HIDE DEF j
                <5> QED BY <1>2, <3>2, <5>1
            <4> QED BY <1>2, <4>1, <4>2
        <3>5. SubSeq(w, 1, x + y) = u
            BY <3>2, <3>3, <3>4, SeqEqual
        <3> QED BY <3>5 DEF u
    <2>6. FromUtf8Lossy(c) = Crc(BeforeSep(w) \o <<SEP>>)
        BY <2>2, <2>4, <2>5, Zenon DEF CmdBytes, c
    <2> QED BY <2>1, <2>3, <2>4, <2>6, Zenon DEF IsValidCrc
<1> HIDE DEF decoded_m
<1>16. decoded_m \in [cmd_id : [1..2 -> Digits] \cup {<<>>}, command : Seq(Bytes), crc_valid : BOOLEAN]
    BY <1>4, <1>12, <1>13, <1>14
<1>17. ToSet(m.command) \subseteq Utf8 => decoded_m = DecodedOf(m)
    BY <1>12, <1>15, Zenon DEF DecodedOf
<1> QED BY <1>1, <1>16, <1>17

-----------------------------------------------------------------------------
(* The frames of the messages s, and those of them that follow the n-th.      *)
FramesOf(s, k) == [i \in DOMAIN s |-> EncodeFrame(s[i], k)]
RestOf(s, k, n) == SubSeq(FramesOf(s, k), n + 1, Len(FramesOf(s, k)))

DecodedMessage == [cmd_id : [1..2 -> Digits] \cup {<<>>}, command : Seq(Bytes),
                   crc_valid : BOOLEAN]

(* The inductive invariant: the reader has decoded the first frames, and what  *)
(* it has left over and what is on the wire are the others.                  *)
IInv ==
    /\ key \in Keys
    /\ sent \in Seq(Messages) /\ Len(sent) <= MaxSent
    /\ wire \in Seq(Bytes) /\ leftover \in Seq(Bytes)
    /\ decoded \in Seq(DecodedMessage) /\ Len(decoded) <= Len(sent)
    /\ \A i \in 1..Len(decoded) :
         decoded[i] = DecodeMessage(EncodeFrame(sent[i], key), key)
    /\ leftover \o wire = FlattenSeq(RestOf(sent, key, Len(decoded)))
    /\ leftover # <<>> =>
         Len(decoded) < Len(sent)
           /\ IsStrictPrefix(leftover, EncodeFrame(sent[Len(decoded) + 1], key))

LEMMA FramesParts ==
    ASSUME NEW s \in Seq(Messages), NEW k \in Keys
    PROVE  /\ FramesOf(s, k) \in Seq(Seq(Bytes)) /\ Len(FramesOf(s, k)) = Len(s)
           /\ \A i \in 1..Len(s) : FramesOf(s, k)[i] = EncodeFrame(s[i], k)
                                     /\ IsFrame(FramesOf(s, k)[i])
<1>1. DOMAIN s = 1..Len(s) /\ Len(s) \in Nat /\ \A i \in 1..Len(s) : s[i] \in Messages
    OBVIOUS
<1>2. \A i \in 1..Len(s) : IsFrame(EncodeFrame(s[i], k))
    BY <1>1, EncodedIsFrame, Zenon
<1>3. \A i \in 1..Len(s) : EncodeFrame(s[i], k) \in Seq(Bytes)
    BY <1>2, Zenon DEF IsFrame
<1>4. FramesOf(s, k) = [i \in 1..Len(s) |-> EncodeFrame(s[i], k)]
    BY <1>1, Zenon DEF FramesOf
<1>5. \A i \in 1..Len(s) : FramesOf(s, k)[i] = EncodeFrame(s[i], k)
    BY <1>4, Zenon
<1>6. FramesOf(s, k) \in Seq(Seq(Bytes)) /\ Len(FramesOf(s, k)) = Len(s)
    BY <1>1, <1>3, <1>4
<1> QED BY <1>2, <1>5, <1>6, Zenon

LEMMA RestParts ==
    ASSUME NEW s \in Seq(Messages), NEW k \in Keys, NEW n \in 0..Len(s)
    PROVE  LET r == RestOf(s, k, n)
           IN  /\ r \in Seq(Seq(Bytes)) /\ Len(r) = Len(s) - n
               /\ \A i \in 1..(Len(s) - n) : r[i] = EncodeFrame(s[n + i], k) /\ IsFrame(r[i])
<1> DEFINE f == FramesOf(s, k)
           z == Len(s) - n
           r == SubSeq(f, n + 1, n + z)
<1>1. /\ f \in Seq(Seq(Bytes)) /\ Len(f) = Len(s) /\ Len(s) \in Nat
      /\ \A i \in 1..Len(s) : f[i] = EncodeFrame(s[i], k) /\ IsFrame(f[i])
    BY FramesParts
<1> HIDE DEF f
<1>2. z \in Nat /\ n \in Nat /\ n + z = Len(s) /\ n + z <= Len(f)
      /\ \A i \in 1..z : n + i \in 1..Len(s)
    BY <1>1
<1> HIDE DEF z
<1>3. r \in Seq(Seq(Bytes)) /\ Len(r) = z /\ \A i \in 1..z : r[i] = f[n + i]
    <2> DEFINE T == Seq(Bytes)
    <2>1. f \in Seq(T)
        BY <1>1
    <2> HIDE DEF T
    <2>2. r \in Seq(T) /\ Len(r) = z /\ \A i \in 1..z : r[i] = f[n + i]
        BY <1>2, <2>1, SubSeqParts
    <2> QED BY <2>2 DEF T
<1>4. RestOf(s, k, n) = r
    BY <1>1, <1>2, Zenon DEF RestOf, f
<1> HIDE DEF r
<1>5. \A i \in 1..z : r[i] = EncodeFrame(s[n + i], k) /\ IsFrame(r[i])
    BY <1>1, <1>2, <1>3, Zenon
<1> QED BY <1>3, <1>4, <1>5, Zenon DEF z

(* One more message adds its frame at the end; one more decoded takes the first. *)
LEMMA RestAppend ==
    ASSUME NEW s \in Seq(Messages), NEW k \in Keys, NEW m \in Messages, NEW n \in 0..Len(s)
    PROVE  RestOf(Append(s, m), k, n) = Append(RestOf(s, k, n), EncodeFrame(m, k))
<1> DEFINE t == Append(s, m)
           r == RestOf(s, k, n)
           e == EncodeFrame(m, k)
           a == RestOf(t, k, n)
           b == Append(r, e)
           z == Len(s) - n
<1>1. t \in Seq(Messages) /\ Len(t) = Len(s) + 1 /\ t[Len(s) + 1] = m
      /\ \A i \in 1..Len(s) : t[i] = s[i]
    OBVIOUS
<1>2. z \in Nat /\ n \in 0..Len(t) /\ Len(t) - n = z + 1 /\ n + (z + 1) = Len(s) + 1
      /\ \A i \in 1..z : n + i \in 1..Len(s)
    BY <1>1
<1>3. e \in Seq(Bytes)
    BY EncodedIsFrame, Zenon DEF IsFrame
<1>4. r \in Seq(Seq(Bytes)) /\ Len(r) = z /\ \A i \in 1..z : r[i] = EncodeFrame(s[n + i], k)
    BY RestParts
<1> HIDE DEF t, z
<1>5. a \in Seq(Seq(Bytes)) /\ Len(a) = z + 1
      /\ \A i \in 1..(z + 1) : a[i] = EncodeFrame(t[n + i], k)
    <2>1. \A u \in Seq(Messages) : \A j \in 0..Len(u) :
             /\ RestOf(u, k, j) \in Seq(Seq(Bytes)) /\ Len(RestOf(u, k, j)) = Len(u) - j
             /\ \A i \in 1..(Len(u) - j) : RestOf(u, k, j)[i] = EncodeFrame(u[j + i], k)
        BY RestParts, Zenon
    <2>2. /\ a \in Seq(Seq(Bytes)) /\ Len(a) = Len(t) - n
          /\ \A i \in 1..(Len(t) - n) : a[i] = EncodeFrame(t[n + i], k)
        BY <1>1, <1>2, <2>1, Zenon
    <2> HIDE DEF a
    <2>3. Len(t) - n = z + 1
        BY <1>2
    <2> QED BY <2>2, <2>3
<1> HIDE DEF r, a
<1>6. b \in Seq(Seq(Bytes)) /\ Len(b) = z + 1 /\ b[z + 1] = e /\ \A i \in 1..z : b[i] = r[i]
    BY <1>2, <1>3, <1>4
<1> HIDE DEF b
<1>7. \A i \in 1..z : a[i] = b[i]
    <2> TAKE i \in 1..z
    <2>1. i \in 1..(z + 1) /\ n + i \in 1..Len(s)
        BY <1>2
    <2>2. a[i] = EncodeFrame(t[n + i], k) /\ t[n + i] = s[n + i]
        BY <1>1, <1>5, <2>1, Zenon
    <2>3. b[i] = EncodeFrame(s[n + i], k)
        BY <1>4, <1>6, Zenon
    <2> QED BY <2>2, <2>3, Zenon
<1>8. a[z + 1] = b[z + 1]
    <2>1. z + 1 \in 1..(z + 1)
        BY <1>2
    <2>2. a[z + 1] = EncodeFrame(t[n + (z + 1)], k)
        BY <1>5, <2>1, Zenon
    <2>3. t[n + (z + 1)] = m
        BY <1>1, <1>2, Zenon
    <2> QED BY <1>6, <2>2, <2>3, Zenon DEF e
<1>9. \A i \in 1..(z + 1) : a[i] = b[i]
    <2>1. \A i \in 1..(z + 1) : i \in 1..z \/ i = z + 1
        BY <1>2
    <2> QED BY <1>7, <1>8, <2>1, Zenon
<1>10. a = b
    BY <1>5, <1>6, <1>9, SeqEqual
<1> QED BY <1>10 DEF a, b, t, r, e

LEMMA RestSkip ==
    ASSUME NEW s \in Seq(Messages), NEW k \in Keys, NEW n \in 0..Len(s), NEW q \in 0..(Len(s) - n)
    PROVE  SubSeq(RestOf(s, k, n), q + 1, Len(RestOf(s, k, n))) = RestOf(s, k, n + q)
<1> DEFINE r == RestOf(s, k, n)
           a == SubSeq(r, q + 1, Len(r))
           b == RestOf(s, k, n + q)
           z == Len(s) - (n + q)
<1>1. n + q \in 0..Len(s) /\ z \in Nat /\ q \in Nat /\ q + z = Len(s) - n
      /\ \A i \in 1..z : q + i \in 1..(Len(s) - n) /\ n + (q + i) = (n + q) + i
    OBVIOUS
<1>2. r \in Seq(Seq(Bytes)) /\ Len(r) = Len(s) - n
      /\ \A i \in 1..(Len(s) - n) : r[i] = EncodeFrame(s[n + i], k)
    BY RestParts
<1>3. b \in Seq(Seq(Bytes)) /\ Len(b) = z /\ \A i \in 1..z : b[i] = EncodeFrame(s[(n + q) + i], k)
    <2> DEFINE j == n + q
    <2> j \in 0..Len(s)
        BY <1>1
    <2> HIDE DEF j
    <2> RestOf(s, k, j) \in Seq(Seq(Bytes)) /\ Len(RestOf(s, k, j)) = Len(s) - j
        /\ \A i \in 1..(Len(s) - j) : RestOf(s, k, j)[i] = EncodeFrame(s[j + i], k)
        BY RestParts, Zenon
    <2> QED BY DEF j
<1> HIDE DEF r, b, z
<1>4. a \in Seq(Seq(Bytes)) /\ Len(a) = z /\ \A i \in 1..z : a[i] = r[q + i]
    <2>1. q + z <= Len(r) /\ q + z = Len(r)
        BY <1>1, <1>2
    <2>2. /\ SubSeq(r, q + 1, q + z) \in Seq(Seq(Bytes)) /\ Len(SubSeq(r, q + 1, q + z)) = z
          /\ \A i \in 1..z : SubSeq(r, q + 1, q + z)[i] = r[q + i]
        BY <1>1, <1>2, <2>1, SubSeqParts
    <2> QED BY <2>1, <2>2, Zenon
<1> HIDE DEF a
<1>5. \A i \in 1..z : a[i] = b[i]
    BY <1>1, <1>2, <1>3, <1>4, Zenon
<1>6. a = b
    BY <1>3, <1>4, <1>5, SeqEqual
<1> QED BY <1>6 DEF a, b, r

LEMMA StrictPrefixShorter ==
    ASSUME NEW T, NEW a \in Seq(T), NEW b \in Seq(T), IsStrictPrefix(a, b)
    PROVE  Len(a) < Len(b)
BY DEF IsStrictPrefix, IsPrefix

(* The invariant is inductive. *)
LEMMA InitIInv == Init => IInv
<1> SUFFICES ASSUME Init PROVE IInv
    OBVIOUS
<1>1. key \in Keys /\ sent = <<>> /\ wire = <<>> /\ leftover = <<>> /\ decoded = <<>>
    BY DEF Init
<1>2. <<>> \in Seq(Messages) /\ <<>> \in Seq(Bytes) /\ <<>> \in Seq(DecodedMessage)
      /\ Len(<<>>) = 0 /\ 0 <= MaxSent
    BY FramingConstants
<1>3. RestOf(<<>>, key, 0) = <<>>
    <2>1. 0 \in 0..Len(<<>>) /\ Len(<<>>) - 0 = 0
        BY <1>2
    <2>2. RestOf(<<>>, key, 0) \in Seq(Seq(Bytes)) /\ Len(RestOf(<<>>, key, 0)) = Len(<<>>) - 0
        BY <1>1, <1>2, <2>1, RestParts, Zenon
    <2> QED BY <2>1, <2>2
<1>4. leftover \o wire = FlattenSeq(RestOf(sent, key, Len(decoded)))
    BY <1>1, <1>2, <1>3, FlattenEmpty
<1> QED BY <1>1, <1>2, <1>4 DEF IInv

LEMMA SendIInv ==
    ASSUME IInv, NEW m \in Messages, PanelSends(m)
    PROVE  IInv'
<1> DEFINE n == Len(decoded)
           r == RestOf(sent, key, n)
           e == EncodeFrame(m, key)
<1>1. /\ key \in Keys /\ sent \in Seq(Messages) /\ Len(sent) < MaxSent
      /\ wire \in Seq(Bytes) /\ leftover \in Seq(Bytes)
      /\ decoded \in Seq(DecodedMessage) /\ n <= Len(sent) /\ n \in Nat /\ Len(sent) \in Nat
      /\ leftover \o wire = FlattenSeq(r)
      /\ MaxSent \in Nat
    <2> HIDE DEF r, e
    <2>1. /\ key \in Keys /\ sent \in Seq(Messages) /\ Len(sent) < MaxSent
          /\ wire \in Seq(Bytes) /\ leftover \in Seq(Bytes)
          /\ decoded \in Seq(DecodedMessage) /\ n <= Len(sent)
          /\ leftover \o wire = FlattenSeq(r)
        BY Zenon DEF IInv, PanelSends, r
    <2>2. n \in Nat /\ Len(sent) \in Nat
        BY <2>1
    <2> QED BY <2>1, <2>2, FramingConstants, Zenon
<1>2. /\ sent' = Append(sent, m) /\ wire' = wire \o e
      /\ key' = key /\ leftover' = leftover /\ decoded' = decoded
    BY DEF PanelSends
<1>3. e \in Seq(Bytes)
    BY <1>1, EncodedIsFrame, Zenon DEF IsFrame
<1>4. n \in 0..Len(sent)
    BY <1>1
<1>5. r \in Seq(Seq(Bytes))
    BY <1>1, <1>4, RestParts
<1>6. RestOf(sent', key', Len(decoded')) = Append(r, e)
    BY <1>1, <1>2, <1>4, RestAppend, Zenon
<1> HIDE DEF e, r
<1>7. wire' \in Seq(Bytes) /\ leftover' \in Seq(Bytes)
      /\ leftover' \o wire' = (leftover \o wire) \o e
    <2>1. \A a, b \in Seq(Bytes) : a \o b \in Seq(Bytes)
        OBVIOUS
    <2> QED BY <1>1, <1>2, <1>3, <2>1, BytesAssoc, Zenon
<1>8. leftover' \o wire' = FlattenSeq(RestOf(sent', key', Len(decoded')))
    BY <1>1, <1>3, <1>5, <1>6, <1>7, FlattenAppend, Zenon
<1>9. sent' \in Seq(Messages) /\ Len(sent') = Len(sent) + 1
      /\ \A i \in 1..Len(sent) : sent'[i] = sent[i]
    BY <1>1, <1>2
<1>10. \A i \in 1..Len(decoded') : decoded'[i] = DecodeMessage(EncodeFrame(sent'[i], key'), key')
    <2> SUFFICES ASSUME NEW i \in 1..n
                 PROVE  decoded[i] = DecodeMessage(EncodeFrame(sent'[i], key), key)
        BY <1>2, Zenon
    <2>1. i \in 1..Len(sent)
        BY <1>1
    <2>2. decoded[i] = DecodeMessage(EncodeFrame(sent[i], key), key)
        BY Zenon DEF IInv
    <2> QED BY <1>9, <2>1, <2>2, Zenon
<1>11. leftover' # <<>> =>
          Len(decoded') < Len(sent')
            /\ IsStrictPrefix(leftover', EncodeFrame(sent'[Len(decoded') + 1], key'))
    <2> SUFFICES ASSUME leftover # <<>>
                 PROVE  n < Len(sent') /\ IsStrictPrefix(leftover, EncodeFrame(sent'[n + 1], key))
        BY <1>2, Zenon
    <2>1. n < Len(sent) /\ IsStrictPrefix(leftover, EncodeFrame(sent[n + 1], key))
        BY Zenon DEF IInv
    <2>2. n + 1 \in 1..Len(sent) /\ n < Len(sent')
        BY <1>1, <1>9, <2>1
    <2> QED BY <1>9, <2>1, <2>2, Zenon
<1>12. key' \in Keys /\ Len(sent') <= MaxSent /\ decoded' \in Seq(DecodedMessage)
       /\ Len(decoded') <= Len(sent')
    BY <1>1, <1>2, <1>9
<1> QED BY <1>7, <1>8, <1>9, <1>10, <1>11, <1>12, Zenon DEF IInv

LEMMA ReadIInv ==
    ASSUME IInv, Read
    PROVE  IInv'
<1> DEFINE n == Len(decoded)
           z == Len(sent) - n
           r == RestOf(sent, key, n)
<1>1. /\ key \in Keys /\ sent \in Seq(Messages) /\ Len(sent) <= MaxSent
      /\ wire \in Seq(Bytes) /\ leftover \in Seq(Bytes)
      /\ decoded \in Seq(DecodedMessage) /\ n <= Len(sent) /\ n \in Nat /\ Len(sent) \in Nat
      /\ leftover \o wire = FlattenSeq(r)
    BY DEF IInv
<1>2. n \in 0..Len(sent) /\ z \in Nat
    BY <1>1
<1>3. r \in Seq(Seq(Bytes)) /\ Len(r) = z
      /\ \A i \in 1..z : r[i] = EncodeFrame(sent[n + i], key) /\ IsFrame(r[i])
    BY <1>1, <1>2, RestParts
<1>4. PICK j \in 1..Len(wire) :
          /\ wire' = SubSeq(wire, j + 1, Len(wire))
          /\ leftover' = SplitMessages(leftover \o SubSeq(wire, 1, j)).leftover
          /\ decoded' = decoded \o
               [i \in DOMAIN SplitMessages(leftover \o SubSeq(wire, 1, j)).messages |->
                  DecodeMessage(SplitMessages(leftover \o SubSeq(wire, 1, j)).messages[i], key)]
    BY Zenon DEF Read
<1>5. key' = key /\ sent' = sent
    BY DEF Read
<1> DEFINE data == leftover \o SubSeq(wire, 1, j)
           frames == SplitMessages(data).messages
           new == [i \in DOMAIN frames |-> DecodeMessage(frames[i], key)]
<1>6. data \in Seq(Bytes) /\ wire' \in Seq(Bytes)
    <2>1. SubSeq(wire, 1, j) \in Seq(Bytes) /\ SubSeq(wire, j + 1, Len(wire)) \in Seq(Bytes)
        BY <1>1, SMTT(30)
    <2> QED BY <1>1, <1>4, <2>1
<1>7. data \o wire' = FlattenSeq(r)
    <2>1. SubSeq(wire, 1, j) \in Seq(Bytes) /\ 1 \in 1..(Len(wire) + 1)
          /\ j \in (1 - 1)..Len(wire) /\ Len(wire) \in j..Len(wire)
        BY <1>1, <1>4
    <2>2. SubSeq(wire, 1, j) \o wire' = wire
        <3>1. SubSeq(wire, 1, j) \o SubSeq(wire, j + 1, Len(wire)) = SubSeq(wire, 1, Len(wire))
            BY <1>1, <2>1, ConcatAdjacentSubSeq, Zenon
        <3>2. SubSeq(wire, 1, Len(wire)) = wire
            BY <1>1, SubSeqFull, Zenon
        <3> QED BY <1>4, <3>1, <3>2, Zenon
    <2>4. data \o wire' = leftover \o (SubSeq(wire, 1, j) \o wire')
        BY <1>1, <1>6, <2>1, BytesAssoc, Zenon DEF data
    <2> QED BY <1>1, <2>2, <2>4, Zenon
<1> HIDE DEF data
<1> HIDE DEF r
<1>8. PICK q \in 0..Len(r) :
          /\ frames = SubSeq(r, 1, q)
          /\ leftover' \in Seq(Bytes)
          /\ leftover' \o wire' = FlattenSeq(SubSeq(r, q + 1, Len(r)))
          /\ leftover' # <<>> => q < Len(r) /\ IsStrictPrefix(leftover', r[q + 1])
    <2>1. \A i \in 1..Len(r) : IsFrame(r[i])
        BY <1>3, Zenon
    <2>2. \E q \in 0..Len(r) :
              /\ SplitMessages(data).messages = SubSeq(r, 1, q)
              /\ SplitMessages(data).leftover \in Seq(Bytes)
              /\ SplitMessages(data).leftover \o wire' = FlattenSeq(SubSeq(r, q + 1, Len(r)))
              /\ SplitMessages(data).leftover # <<>> =>
                   q < Len(r) /\ IsStrictPrefix(SplitMessages(data).leftover, r[q + 1])
        BY <1>3, <1>6, <1>7, <2>1, SplitFrames, Zenon
    <2> QED BY <1>4, <2>2, Zenon DEF data
<1>9. q \in 0..z /\ q \in Nat /\ n + q \in 0..Len(sent) /\ q <= Len(r)
      /\ \A i \in 1..q : i \in 1..z /\ n + i \in 1..Len(sent)
    <2>1. Len(r) = z /\ n \in Nat /\ Len(sent) \in Nat /\ n <= Len(sent)
        BY <1>1, <1>3, Zenon
    <2>2. q \in 0..Len(r)
        OBVIOUS
    <2>3. q \in 0..z
        BY <2>1, <2>2, Zenon
    <2> HIDE DEF n
    <2> QED BY <2>1, <2>3
<1>10. /\ frames \in Seq(Seq(Bytes)) /\ Len(frames) = q
       /\ \A i \in 1..q : frames[i] = r[i]
    <2> DEFINE T == Seq(Bytes)
    <2>1. r \in Seq(T)
        BY <1>3
    <2> HIDE DEF T
    <2>2. frames \in Seq(T) /\ Len(frames) = q /\ \A i \in 1..q : frames[i] = r[i]
        BY <1>8, <1>9, <2>1, PrefixParts
    <2> QED BY <2>2 DEF T
<1> HIDE DEF frames
<1>11. \A i \in 1..q : frames[i] = EncodeFrame(sent[n + i], key)
    BY <1>3, <1>9, <1>10, Zenon
<1>12. \A i \in 1..q : DecodeMessage(frames[i], key) \in DecodedMessage
    <2>1. \A i \in 1..Len(sent) : sent[i] \in Messages
        BY <1>1
    <2>2. \A m \in Messages : DecodeMessage(EncodeFrame(m, key), key) \in DecodedMessage
        BY <1>1, DecodeFrame, Zenon DEF DecodedMessage
    <2> QED BY <1>9, <1>11, <2>1, <2>2, Zenon
<1>13. new \in Seq(DecodedMessage) /\ Len(new) = q
       /\ \A i \in 1..q : new[i] = DecodeMessage(frames[i], key)
    <2>1. DOMAIN frames = 1..q
        BY <1>10
    <2> QED BY <1>9, <1>12, <2>1
<1>14. decoded' = decoded \o new
    BY <1>4, Zenon DEF data, frames
<1> HIDE DEF new
<1>15. decoded' \in Seq(DecodedMessage) /\ Len(decoded') = n + q
       /\ (\A i \in 1..n : decoded'[i] = decoded[i])
       /\ \A i \in 1..q : decoded'[n + i] = new[i]
    <2>1. \A a, b \in Seq(DecodedMessage) :
             /\ a \o b \in Seq(DecodedMessage) /\ Len(a \o b) = Len(a) + Len(b)
             /\ \A i \in 1..Len(a) : (a \o b)[i] = a[i]
             /\ \A i \in 1..Len(b) : (a \o b)[Len(a) + i] = b[i]
        BY ConcatParts
    <2> QED BY <1>1, <1>13, <1>14, <2>1, Zenon
<1>16. \A i \in 1..Len(decoded') : decoded'[i] = DecodeMessage(EncodeFrame(sent'[i], key'), key')
    <2> SUFFICES ASSUME NEW i \in 1..(n + q)
                 PROVE  decoded'[i] = DecodeMessage(EncodeFrame(sent[i], key), key)
        BY <1>5, <1>15, Zenon
    <2>1. CASE i \in 1..n
        <3>1. decoded[i] = DecodeMessage(EncodeFrame(sent[i], key), key)
            BY <2>1, Zenon DEF IInv
        <3> QED BY <1>15, <2>1, <3>1, Zenon
    <2>2. CASE i \notin 1..n
        <3> DEFINE l == i - n
        <3>1. l \in 1..q /\ n + l = i
            BY <1>1, <1>9, <2>2
        <3> HIDE DEF l
        <3>2. decoded'[n + l] = DecodeMessage(EncodeFrame(sent[n + l], key), key)
            BY <1>11, <1>13, <1>15, <3>1, Zenon
        <3> QED BY <3>1, <3>2, Zenon
    <2> QED BY <2>1, <2>2
<1>17. SubSeq(r, q + 1, Len(r)) = RestOf(sent, key, n + q)
    BY <1>1, <1>2, <1>9, RestSkip, Zenon DEF r, z
<1>18. leftover' \o wire' = FlattenSeq(RestOf(sent', key', Len(decoded')))
    BY <1>5, <1>8, <1>15, <1>17, Zenon
<1>19. leftover' # <<>> =>
          Len(decoded') < Len(sent')
            /\ IsStrictPrefix(leftover', EncodeFrame(sent'[Len(decoded') + 1], key'))
    <2> SUFFICES ASSUME leftover' # <<>>
                 PROVE  n + q < Len(sent)
                          /\ IsStrictPrefix(leftover', EncodeFrame(sent[(n + q) + 1], key))
        BY <1>5, <1>15, Zenon
    <2>1. q < Len(r) /\ IsStrictPrefix(leftover', r[q + 1])
        BY <1>8
    <2>2. q + 1 \in 1..z /\ n + (q + 1) = (n + q) + 1 /\ n + q < Len(sent)
        <3>1. Len(r) = z /\ n \in Nat /\ Len(sent) \in Nat /\ q \in Nat
            BY <1>1, <1>3, <1>9, Zenon
        <3>2. q < z
            BY <2>1, <3>1, Zenon
        <3> HIDE DEF n
        <3> QED BY <3>1, <3>2
    <2>3. r[q + 1] = EncodeFrame(sent[n + (q + 1)], key)
        BY <1>3, <2>2, Zenon
    <2> QED BY <2>1, <2>2, <2>3, Zenon
<1>20. key' \in Keys /\ sent' \in Seq(Messages) /\ Len(sent') <= MaxSent
       /\ Len(decoded') <= Len(sent')
    BY <1>1, <1>5, <1>9, <1>15
<1> QED BY <1>6, <1>8, <1>15, <1>16, <1>18, <1>19, <1>20, Zenon DEF IInv

LEMMA NextIInv == IInv /\ [Next]_vars => IInv'
<1> SUFFICES ASSUME IInv, [Next]_vars PROVE IInv'
    OBVIOUS
<1>1. ASSUME NEW m \in Messages, PanelSends(m) PROVE IInv'
    BY <1>1, SendIInv
<1>2. CASE Read
    BY <1>2, ReadIInv
<1>3. CASE UNCHANGED vars
    BY <1>3 DEF vars, IInv
<1> QED BY <1>1, <1>2, <1>3 DEF Next

LEMMA Invariance == Spec => []IInv
BY InitIInv, NextIInv, PTL DEF Spec

(* What is left over is shorter than the frame it begins, and the longest frame *)
(* is MaxFrame bytes long.                                                  *)
LEMMA IInvTypeOK == IInv => TypeOK
<1> SUFFICES ASSUME IInv PROVE TypeOK
    OBVIOUS
<1>1. Len(leftover) < MaxFrame
    <2>1. CASE leftover = <<>>
        BY <2>1, FramingConstants
    <2>2. CASE leftover # <<>>
        <3> DEFINE m == sent[Len(decoded) + 1]
        <3>1. m \in Messages /\ key \in Keys
            <4>1. Len(decoded) < Len(sent) /\ decoded \in Seq(DecodedMessage)
                  /\ sent \in Seq(Messages) /\ key \in Keys
                BY <2>2, Zenon DEF IInv
            <4> QED BY <4>1
        <3>2. IsStrictPrefix(leftover, EncodeFrame(m, key))
            BY <2>2, Zenon DEF IInv
        <3>3. EncodeFrame(m, key) \in Seq(Bytes) /\ leftover \in Seq(Bytes)
            BY <3>1, EncodedIsFrame, Zenon DEF IsFrame, IInv
        <3>4. Len(EncodeFrame(m, key)) <= MaxFrame /\ MaxFrame \in Nat
            BY <3>1, FrameLengths, FramingConstants, Zenon
        <3> HIDE DEF m
        <3>5. Len(leftover) < Len(EncodeFrame(m, key))
            BY <3>2, <3>3, StrictPrefixShorter
        <3> QED BY <3>3, <3>4, <3>5
    <2> QED BY <2>1, <2>2
<1> QED BY <1>1, Zenon DEF IInv, TypeOK, DecodedMessage

(* Each of the first messages has been decoded, and DecodeFrame says into what. *)
LEMMA IInvFramesSurvive == IInv => FramesSurvive
<1> SUFFICES ASSUME IInv PROVE FramesSurvive
    OBVIOUS
<1>1. /\ decoded \in Seq(DecodedMessage) /\ sent \in Seq(Messages) /\ key \in Keys
      /\ Len(decoded) <= Len(sent)
      /\ \A i \in 1..Len(decoded) :
           decoded[i] = DecodeMessage(EncodeFrame(sent[i], key), key)
    BY DEF IInv
<1>2. ASSUME NEW i \in DOMAIN decoded, ToSet(sent[i].command) \subseteq Utf8
      PROVE  decoded[i] = DecodedOf(sent[i])
    <2>1. i \in 1..Len(decoded) /\ sent[i] \in Messages
        BY <1>1
    <2>2. \A m \in Messages : ToSet(m.command) \subseteq Utf8 =>
              DecodeMessage(EncodeFrame(m, key), key) = DecodedOf(m)
        BY <1>1, DecodeFrame, Zenon
    <2> QED BY <1>1, <1>2, <2>1, <2>2, Zenon
<1> QED BY <1>1, <1>2, Zenon DEF FramesSurvive, DecodedOf

LEMMA IInvChunks == IInv => ChunksDoNotMatter
<1> SUFFICES ASSUME IInv PROVE ChunksDoNotMatter
    OBVIOUS
<1>1. /\ decoded \in Seq(DecodedMessage) /\ sent \in Seq(Messages) /\ key \in Keys
      /\ Len(decoded) <= Len(sent)
      /\ leftover \o wire = FlattenSeq(RestOf(sent, key, Len(decoded)))
    BY DEF IInv
<1>2. ASSUME leftover # <<>> PROVE IsStrictPrefix(leftover, RestOf(sent, key, Len(decoded))[1])
    <2>1. /\ Len(decoded) < Len(sent)
          /\ IsStrictPrefix(leftover, EncodeFrame(sent[Len(decoded) + 1], key))
        BY <1>2, Zenon DEF IInv
    <2>2. Len(decoded) \in 0..Len(sent) /\ 1 \in 1..(Len(sent) - Len(decoded))
        BY <1>1, <2>1
    <2>3. RestOf(sent, key, Len(decoded))[1] = EncodeFrame(sent[Len(decoded) + 1], key)
        BY <1>1, <2>2, RestParts, Zenon
    <2> QED BY <2>1, <2>3, Zenon
<1> QED BY <1>1, <1>2, Zenon DEF ChunksDoNotMatter, RestOf, FramesOf

(* TypeOK, with its limit on what the reader of transport/direct.rs keeps       *)
(* between two reads: always less than the longest frame.                    *)
THEOREM TypeCorrect == Spec => []TypeOK
BY Invariance, IInvTypeOK, PTL

(* Whatever messages are sent, under whatever pseudo buffer, and in whatever    *)
(* chunks they are read, decode_message returns each of them, in order and     *)
(* with a valid CRC, as long as its text is UTF-8.                           *)
THEOREM Survival == Spec => []FramesSurvive
BY Invariance, IInvFramesSurvive, PTL

(* What split_messages leaves over and what is still to be read are always the  *)
(* frames not yet decoded, the first of them incomplete.                      *)
THEOREM ChunksIrrelevant == Spec => []ChunksDoNotMatter
BY Invariance, IInvChunks, PTL
=============================================================================
