----------------------------- MODULE WireProofs -----------------------------
(***************************************************************************)
(* What goes over the wire and onto the disk, for every chain of bodies    *)
(* and every set of files: each encoding of Codec decodes to what it was   *)
(* made from, and with that the safety properties of Sync and Config.      *)
(***************************************************************************)
EXTENDS Sync, Config, BaseProofs

----------------------------------------------------------------------------
(* A string inside another.                                                *)

\* p has the symbols of s from position i.
Holds(p, i, s) ==
    /\ IsSeq(p) /\ IsSeq(s) /\ i \in Nat \ {0}
    /\ i + Len(s) <= Len(p) + 1
    /\ \A j \in 1 .. Len(s) : p[i + j - 1] = s[j]

\* A string holds itself.
LEMMA HoldsAll ==
  ASSUME NEW p, IsSeq(p)
  PROVE  Holds(p, 1, p)
<1>1. Len(p) \in Nat
  BY LenIs
<1>2. \A j \in 1 .. Len(p) : 1 + j - 1 = j
  BY <1>1
<1> QED
  BY <1>1, <1>2 DEF Holds

\* Where two strings are held one after the other, both are.
LEMMA HoldsParts ==
  ASSUME NEW p, NEW i, NEW s, NEW t, IsSeq(s), IsSeq(t), Holds(p, i, s \o t)
  PROVE  Holds(p, i, s) /\ Holds(p, i + Len(s), t)
<1> DEFINE u == s \o t
<1>1. /\ IsSeq(u) /\ Len(u) = Len(s) + Len(t)
      /\ \A j \in 1 .. Len(s) : u[j] = s[j]
      /\ \A j \in 1 .. Len(t) : u[Len(s) + j] = t[j]
  BY Concat
<1>2. Len(s) \in Nat /\ Len(t) \in Nat /\ Len(p) \in Nat /\ IsSeq(p) /\ i \in Nat \ {0}
  BY LenIs DEF Holds
<1>3. Holds(p, i, u)
  OBVIOUS
<1> HIDE DEF u
<1>4. Holds(p, i, s)
  BY <1>1, <1>2, <1>3 DEF Holds
<1>5. ASSUME NEW j \in 1 .. Len(t) PROVE p[(i + Len(s)) + j - 1] = t[j]
  <2>1. Len(s) + j \in 1 .. Len(u) /\ i + (Len(s) + j) - 1 = (i + Len(s)) + j - 1
    BY <1>1, <1>2
  <2>2. p[i + (Len(s) + j) - 1] = u[Len(s) + j]
    BY <1>3, <2>1 DEF Holds
  <2> QED
    BY <1>1, <2>1, <2>2
<1>6. Holds(p, i + Len(s), t)
  BY <1>1, <1>2, <1>3, <1>5 DEF Holds
<1> QED
  BY <1>4, <1>6

\* The part of p at which it holds s is s.
LEMMA HoldsSub ==
  ASSUME NEW p, NEW i, NEW s, Holds(p, i, s)
  PROVE  SubSeq(p, i, i + Len(s) - 1) = s
<1>1. /\ IsSeq(p) /\ IsSeq(s) /\ i \in Nat \ {0} /\ Len(s) \in Nat /\ Len(p) \in Nat
      /\ i + Len(s) <= Len(p) + 1 /\ \A j \in 1 .. Len(s) : p[i + j - 1] = s[j]
  BY LenIs DEF Holds
<1>2. i + Len(s) - 1 \in Nat /\ i <= (i + Len(s) - 1) + 1 /\ i + Len(s) - 1 <= Len(p)
        /\ (i + Len(s) - 1) + 1 - i = Len(s)
  BY <1>1
<1> DEFINE u == SubSeq(p, i, i + Len(s) - 1)
<1>3. /\ IsSeq(u) /\ Len(u) = (i + Len(s) - 1) + 1 - i
      /\ \A j \in 1 .. (i + Len(s) - 1) + 1 - i : u[j] = p[i + j - 1]
  BY <1>1, <1>2, Sub, SMTT(40)
<1> HIDE DEF u
<1>4. \A j \in 1 .. Len(u) : u[j] = s[j]
  BY <1>1, <1>2, <1>3
<1>5. u = s
  BY <1>1, <1>2, <1>3, <1>4, SeqExt
<1> QED
  BY <1>5 DEF u

\* The first symbols of what is held.
LEMMA HoldsAt ==
  ASSUME NEW p, NEW i, NEW s, Holds(p, i, s)
  PROVE  /\ Len(s) >= 1 => p[i] = s[1]
         /\ Len(s) >= 2 => p[i + 1] = s[2]
         /\ Len(s) >= 3 => p[i + 2] = s[3]
         /\ Len(s) >= 4 => p[i + 3] = s[4]
         /\ Len(s) >= 5 => p[i + 4] = s[5]
<1>1. Len(s) \in Nat /\ i \in Nat
  BY LenIs DEF Holds
<1>2. i + 1 - 1 = i /\ i + 2 - 1 = i + 1 /\ i + 3 - 1 = i + 2 /\ i + 4 - 1 = i + 3 /\ i + 5 - 1 = i + 4
  BY <1>1
<1>3. \A j \in 1 .. Len(s) : p[i + j - 1] = s[j]
  BY DEF Holds
<1> QED
  BY <1>1, <1>2, <1>3

\* The symbols of what is held at the front.
LEMMA HoldsFirst ==
  ASSUME NEW p, NEW s, Holds(p, 1, s)
  PROVE  \A j \in 1 .. Len(s) : p[j] = s[j]
<1>1. \A j \in 1 .. Len(s) : p[1 + j - 1] = s[j] /\ 1 + j - 1 = j
  BY LenIs DEF Holds
<1> QED
  BY <1>1

\* p is s and then t.
IsJoin(p, s, t) == p = s \o t

\* What a string made of two parts holds.
LEMMA Joined ==
  ASSUME NEW s, NEW t, NEW p, IsJoin(p, s, t), IsSeq(s), IsSeq(t)
  PROVE  /\ IsSeq(p) /\ Len(p) = Len(s) + Len(t) /\ Len(s) \in Nat /\ Len(t) \in Nat
         /\ \A i \in 1 .. Len(s) : p[i] = s[i]
         /\ \A i \in 1 .. Len(t) : p[Len(s) + i] = t[i]
         /\ Holds(p, 1, s) /\ Holds(p, 1 + Len(s), t)
<1>0. p = s \o t
  BY DEF IsJoin
<1>1. IsSeq(p) /\ Len(p) = Len(s) + Len(t) /\ Len(s) \in Nat /\ Len(t) \in Nat
  BY <1>0, Concat, LenIs
<1>2. \A i \in 1 .. Len(s) : p[i] = s[i]
  BY <1>0, Concat
<1>3. \A i \in 1 .. Len(t) : p[Len(s) + i] = t[i]
  BY <1>0, Concat
<1>4. Holds(p, 1, s \o t)
  BY <1>0, <1>1, HoldsAll
<1>5. Holds(p, 1, s) /\ Holds(p, 1 + Len(s), t)
  BY <1>4, HoldsParts
<1> QED
  BY <1>1, <1>2, <1>3, <1>5

----------------------------------------------------------------------------
(* The frame.                                                              *)

\* What encode puts where: version, length, payload.
LEMMA EncodeIs ==
  ASSUME NEW p, IsSeq(p)
  PROVE  /\ IsSeq(encode(p)) /\ Len(encode(p)) = Len(p) + 2
         /\ encode(p)[1] = CODEC_VERSION /\ encode(p)[2] = Len(p)
         /\ Holds(encode(p), 3, p)
<1> DEFINE head == <<CODEC_VERSION, Len(p)>>
<1>1. IsSeq(head) /\ Len(head) = 2 /\ head[1] = CODEC_VERSION /\ head[2] = Len(p)
  BY TupleIs
<1>2. encode(p) = head \o p
  BY DEF encode
<1>3. Len(p) \in Nat
  BY LenIs
<1> HIDE DEF head
<1>4. IsSeq(head \o p) /\ Len(head \o p) = Len(p) + 2
  <2>1. IsSeq(head \o p) /\ Len(head \o p) = Len(head) + Len(p)
    BY <1>1, Concat
  <2> QED
    BY <1>1, <1>3, <2>1
<1>5. Holds(head \o p, 1, head \o p)
  BY <1>4, HoldsAll
<1>6. Holds(head \o p, 1, head) /\ Holds(head \o p, 1 + Len(head), p)
  BY <1>1, <1>5, HoldsParts
<1>7. (head \o p)[1] = head[1] /\ (head \o p)[1 + 1] = head[2]
  <2>1. Len(head) >= 1 /\ Len(head) >= 2
    BY <1>1
  <2> QED
    BY <1>6, <2>1, HoldsAt
<1> QED
  BY <1>1, <1>2, <1>4, <1>6, <1>7

\* decode gives back what encode was given.
LEMMA DecodeEncode ==
  ASSUME NEW p, IsSeq(p)
  PROVE  decode(encode(p)) = Ok(p)
<1> DEFINE b == encode(p)
<1>1. /\ IsSeq(b) /\ Len(b) = Len(p) + 2 /\ b[1] = CODEC_VERSION /\ b[2] = Len(p)
      /\ Holds(b, 3, p) /\ Len(p) \in Nat
  BY EncodeIs, LenIs
<1> HIDE DEF b
<1>2. SubSeq(b, 3, 3 + Len(p) - 1) = p
  BY <1>1, HoldsSub
<1>3. 3 + Len(p) - 1 = Len(b) /\ ~(Len(b) < 2) /\ ~(Len(b) # b[2] + 2)
  BY <1>1
<1>4. decode(b) = Ok(p)
  BY <1>1, <1>2, <1>3 DEF decode
<1> QED
  BY <1>4 DEF b

\* A frame that is cut off or longer than it says is refused.
LEMMA DecodeMisframed ==
  ASSUME NEW p, IsSeq(p), NEW b \in Misframed(encode(p))
  PROVE  decode(b) = Err
<1> DEFINE f == encode(p)
<1>1. IsSeq(f) /\ Len(f) = Len(p) + 2 /\ f[2] = Len(p) /\ Len(p) \in Nat
  BY EncodeIs, LenIs
<1>2. b = SubSeq(f, 1, Len(f) - 1) \/ b = Append(f, 0)
  BY DEF Misframed
<1> HIDE DEF f
<1>3. CASE b = SubSeq(f, 1, Len(f) - 1)
  <2>1. Len(f) - 1 \in Nat /\ 1 <= (Len(f) - 1) + 1 /\ Len(f) - 1 <= Len(f) /\ (Len(f) - 1) + 1 - 1 = Len(p) + 1
    BY <1>1
  <2>2. Len(b) = Len(p) + 1 /\ (Len(b) >= 2 => b[2] = f[1 + 2 - 1])
    BY <1>1, <1>3, <2>1, Sub
  <2> QED
    BY <1>1, <2>2 DEF decode
<1>4. CASE b = Append(f, 0)
  <2>1. b = f \o <<0>>
    BY <1>1, <1>4 DEF IsSeq
  <2>2. IsSeq(<<0>>) /\ Len(<<0>>) = 1 /\ Len(f \o <<0>>) = Len(f) + Len(<<0>>) /\ (f \o <<0>>)[2] = f[2]
    BY <1>1, Concat, TupleIs
  <2>3. Len(b) = Len(p) + 3 /\ b[2] = Len(p)
    BY <1>1, <2>1, <2>2
  <2> QED
    BY <1>1, <2>3 DEF decode
<1> QED
  BY <1>2, <1>3, <1>4

\* A prefixed string is its length and then itself.
LEMMA PrefixedIs ==
  ASSUME NEW s, IsSeq(s)
  PROVE  /\ IsSeq(prefixed(s)) /\ Len(prefixed(s)) = Len(s) + 1 /\ Len(s) \in Nat
         /\ IsSeq(<<Len(s)>>) /\ Len(<<Len(s)>>) = 1
         /\ prefixed(s) = <<Len(s)>> \o s
<1>1. IsSeq(<<Len(s)>>) /\ Len(<<Len(s)>>) = 1 /\ Len(s) \in Nat
  BY TupleIs, LenIs
<1>2. IsSeq(<<Len(s)>> \o s) /\ Len(<<Len(s)>> \o s) = Len(<<Len(s)>>) + Len(s)
  BY <1>1, Concat
<1> QED
  BY <1>1, <1>2 DEF prefixed

\* A prefixed string inside another: its length, its symbols, where it ends.
LEMMA HoldsPrefixed ==
  ASSUME NEW p, NEW i, NEW s, IsSeq(s), Holds(p, i, prefixed(s))
  PROVE  /\ p[i] = Len(s) /\ Holds(p, i + 1, s) /\ i \in Nat /\ i >= 1
         /\ i + 1 + Len(s) <= Len(p) + 1 /\ Len(p) \in Nat
         /\ SubSeq(p, i + 1, i + Len(s)) = s
<1>1. Holds(p, i, <<Len(s)>>) /\ Holds(p, i + Len(<<Len(s)>>), s) /\ Len(<<Len(s)>>) = 1 /\ Len(s) \in Nat
  BY PrefixedIs, HoldsParts
<1>2. p[i] = Len(s) /\ Holds(p, i + 1, s)
  BY <1>1, HoldsAt
<1>3. i \in Nat /\ i >= 1 /\ i + 1 + Len(s) <= Len(p) + 1 /\ Len(p) \in Nat
  BY <1>2, LenIs DEF Holds
<1>4. SubSeq(p, i + 1, (i + 1) + Len(s) - 1) = s
  BY <1>2, HoldsSub
<1>5. (i + 1) + Len(s) - 1 = i + Len(s)
  BY <1>1, <1>3
<1> QED
  BY <1>2, <1>3, <1>4, <1>5

\* take reads the string where a prefixed one is held, and stops behind it.
LEMMA TakePrefixed ==
  ASSUME NEW p, NEW i, NEW s, IsSeq(s), Holds(p, i, prefixed(s))
  PROVE  take(p, i) = Ok([item |-> s, next |-> i + Len(s) + 1])
<1>1. /\ p[i] = Len(s) /\ i \in Nat /\ Len(s) \in Nat /\ Len(p) \in Nat
      /\ i + 1 + Len(s) <= Len(p) + 1 /\ SubSeq(p, i + 1, i + Len(s)) = s
  BY HoldsPrefixed, LenIs
<1>2. ~(i > Len(p)) /\ ~(i + Len(s) > Len(p))
  BY <1>1
<1> QED
  BY <1>1, <1>2 DEF take

----------------------------------------------------------------------------
(* Lists of strings one after the other.                                   *)

\* The recursion behind FlattenSeq.
Flattens(f, seqs, n) ==
    f = [i \in 1 .. n |-> IF i = 1 THEN seqs[i] ELSE f[i - 1] \o seqs[i]]

\* FlattenSeq by that recursion.
LEMMA FlattenIs ==
  ASSUME NEW seqs
  PROVE  FlattenSeq(seqs) = IF Len(seqs) = 0 THEN seqs
                            ELSE (CHOOSE f : Flattens(f, seqs, Len(seqs)))[Len(seqs)]
  BY DEF FlattenSeq, Flattens

\* The recursion has a solution.
LEMMA FlattensExist ==
  ASSUME NEW seqs
  PROVE  \A n \in Nat : \E f : Flattens(f, seqs, n)
<1> DEFINE P == {n \in Nat : \E f : Flattens(f, seqs, n)}
<1>1. 0 \in P
  <2> DEFINE f == [i \in 1 .. 0 |-> {}]
  <2>1. Flattens(f, seqs, 0)
    BY DEF Flattens
  <2> QED
    BY <2>1
<1>2. ASSUME NEW n \in Nat, n \in P PROVE n + 1 \in P
  <2>1. PICK f : Flattens(f, seqs, n)
    BY <1>2
  <2> DEFINE Value(h, i) == IF i = 1 THEN seqs[i] ELSE h[i - 1] \o seqs[i]
  <2>2. \A i \in 1 .. n : f[i] = Value(f, i)
    BY <2>1 DEF Flattens
  <2> DEFINE g == [i \in 1 .. n + 1 |-> IF i = n + 1 THEN Value(f, n + 1) ELSE f[i]]
  <2>3. ASSUME NEW i \in 1 .. n + 1 PROVE g[i] = Value(g, i)
    <3>1. i # 1 => i - 1 \in 1 .. n + 1 /\ i - 1 # n + 1
      OBVIOUS
    <3>2. i # 1 => g[i - 1] = f[i - 1]
      BY <3>1
    <3>3. g[i] = IF i = n + 1 THEN Value(f, n + 1) ELSE f[i]
      OBVIOUS
    <3>4. i # n + 1 => f[i] = Value(f, i)
      BY <2>2
    <3> HIDE DEF g
    <3>5. g[i] = Value(f, i)
      BY <3>3, <3>4
    <3>6. Value(g, i) = Value(f, i)
      BY <3>2
    <3> QED
      BY <3>5, <3>6
  <2>4. g = [i \in 1 .. n + 1 |-> g[i]]
    OBVIOUS
  <2> HIDE DEF g
  <2>5. g = [i \in 1 .. n + 1 |-> Value(g, i)]
    BY <2>3, <2>4
  <2>6. Flattens(g, seqs, n + 1)
    BY <2>5 DEF Flattens
  <2> QED
    BY <2>6
<1> HIDE DEF P
<1>3. \A n \in Nat : n \in P
  BY <1>1, <1>2, NumberInduction
<1> QED
  BY <1>3 DEF P

\* A list of one string, flattened.
LEMMA FlattenOne ==
  ASSUME NEW s, IsSeq(s), Len(s) # 0
  PROVE  Flattens(CHOOSE f : Flattens(f, s, Len(s)), s, Len(s))
<1>1. Len(s) \in Nat
  BY LenIs
<1> QED
  BY <1>1, FlattensExist

\* One string more.
LEMMA FlattenMore ==
  ASSUME NEW s, NEW t, IsSeq(s), IsSeq(t), Len(t) = Len(s) + 1,
         \A i \in 1 .. Len(s) : t[i] = s[i], IsSeq(t[Len(t)])
  PROVE  FlattenSeq(t) = FlattenSeq(s) \o t[Len(t)]
<1> DEFINE n == Len(s)
<1>0. n \in Nat /\ Len(t) \in Nat
  BY LenIs
<1>1. CASE n = 0
  <2>1. FlattenSeq(s) = s /\ s = <<>>
    BY <1>1, TupleIs, SeqExt, FlattenIs
  <2> DEFINE f == CHOOSE c : Flattens(c, t, Len(t))
  <2>2. FlattenSeq(t) = f[Len(t)] /\ Flattens(f, t, Len(t))
    BY <1>1, FlattenIs, FlattenOne
  <2> HIDE DEF f
  <2>3. f[1] = t[1]
    BY <1>1, <2>2 DEF Flattens
  <2>4. <<>> \o t[Len(t)] = t[Len(t)]
    BY ConcatEmptySeq DEF IsSeq
  <2> QED
    BY <1>1, <2>1, <2>2, <2>3, <2>4
<1>2. CASE n # 0
  <2> DEFINE f == CHOOSE c : Flattens(c, t, Len(t))
  <2> DEFINE g == CHOOSE c : Flattens(c, s, Len(s))
  <2>1. FlattenSeq(t) = f[n + 1] /\ Flattens(f, t, n + 1)
    <3>1. Len(t) = n + 1 /\ Len(t) # 0
      BY <1>0
    <3> QED
      BY <3>1, FlattenIs, FlattenOne
  <2>2. FlattenSeq(s) = g[n] /\ Flattens(g, s, n)
    BY <1>2, FlattenIs, FlattenOne
  <2> HIDE DEF f, g
  <2> DEFINE P == {i \in Nat : i + 1 \in 1 .. n => f[i + 1] = g[i + 1]}
  <2>3. \A i \in 1 .. n + 1 : f[i] = IF i = 1 THEN t[i] ELSE f[i - 1] \o t[i]
    BY <2>1 DEF Flattens
  <2>4. \A i \in 1 .. n : g[i] = IF i = 1 THEN s[i] ELSE g[i - 1] \o s[i]
    BY <2>2 DEF Flattens
  <2>5. 0 \in P
    BY <1>0, <1>2, <2>3, <2>4
  <2>6. ASSUME NEW i \in Nat, i \in P PROVE i + 1 \in P
    <3> SUFFICES ASSUME (i + 1) + 1 \in 1 .. n PROVE f[(i + 1) + 1] = g[(i + 1) + 1]
      OBVIOUS
    <3> DEFINE j == (i + 1) + 1
    <3>1. j \in 1 .. n /\ j \in 1 .. n + 1 /\ j # 1 /\ j - 1 = i + 1 /\ i + 1 \in 1 .. n
      BY <1>0
    <3>2. f[i + 1] = g[i + 1] /\ t[j] = s[j]
      BY <2>6, <3>1
    <3> HIDE DEF j
    <3>3. f[j] = f[i + 1] \o t[j] /\ g[j] = g[i + 1] \o s[j]
      BY <2>3, <2>4, <3>1
    <3>4. f[j] = g[j]
      BY <3>2, <3>3
    <3> QED
      BY <3>4 DEF j
  <2> HIDE DEF P
  <2>7. \A i \in Nat : i \in P
    BY <2>5, <2>6, NumberInduction
  <2>8. f[n] = g[n]
    <3>1. n - 1 \in P /\ (n - 1) + 1 \in 1 .. n /\ (n - 1) + 1 = n
      BY <1>0, <1>2, <2>7
    <3> HIDE DEF n
    <3> QED
      BY <3>1 DEF P
  <2>9. f[n + 1] = f[n] \o t[n + 1]
    <3>1. n + 1 \in 1 .. n + 1 /\ n + 1 # 1 /\ (n + 1) - 1 = n
      BY <1>0, <1>2
    <3> QED
      BY <2>3, <3>1
  <2> QED
    BY <2>1, <2>2, <2>8, <2>9
<1> QED
  BY <1>1, <1>2

\* The first k strings of a list, one after the other.
Upto(list, k) == FlattenSeq(SubSeq(list, 1, k))

\* One string more.
LEMMA UptoMore ==
  ASSUME NEW list, Strings(list), NEW k \in Nat, k < Len(list)
  PROVE  Upto(list, k + 1) = Upto(list, k) \o list[k + 1]
<1> DEFINE s == SubSeq(list, 1, k)
<1> DEFINE t == SubSeq(list, 1, k + 1)
<1>0. Len(list) \in Nat /\ IsSeq(list) /\ k + 1 \in 1 .. Len(list)
  BY LenIs DEF Strings
<1>1. IsSeq(s) /\ Len(s) = k /\ \A i \in 1 .. k : s[i] = list[i]
  <2>1. 1 <= k + 1 /\ k <= Len(list) /\ k + 1 - 1 = k /\ \A i \in 1 .. k : 1 + i - 1 = i
    BY <1>0
  <2> QED
    BY <1>0, <2>1, Sub
<1>2. IsSeq(t) /\ Len(t) = k + 1 /\ \A i \in 1 .. k + 1 : t[i] = list[i]
  <2>1. 1 <= (k + 1) + 1 /\ k + 1 <= Len(list) /\ (k + 1) + 1 - 1 = k + 1 /\ k + 1 \in Nat
    BY <1>0
  <2>2. \A i \in 1 .. k + 1 : 1 + i - 1 = i
    BY <1>0
  <2> QED
    BY <1>0, <2>1, <2>2, Sub
<1>3. IsSeq(list[k + 1])
  BY <1>0 DEF Strings
<1> HIDE DEF s, t
<1>4. t[Len(t)] = list[k + 1] /\ \A i \in 1 .. Len(s) : t[i] = s[i]
  <2>1. k + 1 \in 1 .. k + 1 /\ \A i \in 1 .. k : i \in 1 .. k + 1
    OBVIOUS
  <2> QED
    BY <1>1, <1>2, <2>1
<1>5. FlattenSeq(t) = FlattenSeq(s) \o t[Len(t)]
  BY <1>1, <1>2, <1>3, <1>4, FlattenMore
<1> QED
  BY <1>4, <1>5 DEF Upto, s, t

\* Nothing, flattened.
LEMMA FlattenNone == FlattenSeq(<<>>) = <<>>
  BY TupleIs, FlattenIs

\* The first none and the first all.
LEMMA UptoEnds ==
  ASSUME NEW list, Strings(list)
  PROVE  Upto(list, 0) = <<>> /\ Upto(list, Len(list)) = FlattenSeq(list)
<1>1. SubSeq(list, 1, 0) = <<>>
  BY SubSeqEmpty
<1>2. FlattenSeq(<<>>) = <<>>
  BY FlattenNone
<1>3. SubSeq(list, 1, Len(list)) = list
  BY SubSeqFull DEF Strings, IsSeq
<1> QED
  BY <1>1, <1>2, <1>3 DEF Upto

\* Flattened lists are strings.
LEMMA UptoIsSeq ==
  ASSUME NEW list, Strings(list)
  PROVE  /\ \A k \in 0 .. Len(list) : IsSeq(Upto(list, k))
         /\ IsSeq(FlattenSeq(list)) /\ Len(list) \in Nat
<1> DEFINE P == {k \in Nat : k \in 0 .. Len(list) => IsSeq(Upto(list, k))}
<1>0. Len(list) \in Nat
  BY LenIs DEF Strings
<1>1. 0 \in P
  BY UptoEnds, TupleIs
<1>2. ASSUME NEW k \in Nat, k \in P PROVE k + 1 \in P
  <2> SUFFICES ASSUME k + 1 \in 0 .. Len(list) PROVE IsSeq(Upto(list, k + 1))
    OBVIOUS
  <2>1. k < Len(list) /\ k \in 0 .. Len(list) /\ k + 1 \in 1 .. Len(list)
    BY <1>0
  <2>2. IsSeq(Upto(list, k)) /\ IsSeq(list[k + 1])
    BY <1>2, <2>1 DEF Strings
  <2>3. IsSeq(Upto(list, k) \o list[k + 1])
    BY <2>2, Concat
  <2> QED
    BY <2>1, <2>3, UptoMore
<1> HIDE DEF P
<1>3. \A k \in Nat : k \in P
  BY <1>1, <1>2, NumberInduction
<1>4. \A k \in 0 .. Len(list) : IsSeq(Upto(list, k))
  BY <1>0, <1>3 DEF P
<1>5. Len(list) \in 0 .. Len(list)
  BY <1>0
<1> QED
  BY <1>0, <1>4, <1>5, UptoEnds

\* A list of strings is in p where its first strings are.
LEMMA HoldsUpto ==
  ASSUME NEW p, NEW i, NEW list, Strings(list), Holds(p, i, FlattenSeq(list))
  PROVE  \A k \in 0 .. Len(list) : Holds(p, i, Upto(list, k))
<1> DEFINE n == Len(list)
<1> DEFINE P == {j \in Nat : j <= n => Holds(p, i, Upto(list, n - j))}
<1>0. n \in Nat /\ \A k \in 0 .. n : IsSeq(Upto(list, k))
  BY UptoIsSeq
<1>1. 0 \in P
  <2>1. n - 0 = n
    BY <1>0
  <2> QED
    BY <2>1, UptoEnds
<1>2. ASSUME NEW j \in Nat, j \in P PROVE j + 1 \in P
  <2> SUFFICES ASSUME j + 1 <= n PROVE Holds(p, i, Upto(list, n - (j + 1)))
    OBVIOUS
  <2> DEFINE k == n - (j + 1)
  <2>1. k \in Nat /\ k < n /\ k + 1 = n - j /\ j <= n /\ k \in 0 .. n /\ k + 1 \in 1 .. n
    BY <1>0
  <2> HIDE DEF k
  <2>2. Upto(list, k + 1) = Upto(list, k) \o list[k + 1]
    BY <2>1, UptoMore
  <2>3. IsSeq(Upto(list, k)) /\ IsSeq(list[k + 1])
    BY <1>0, <2>1 DEF Strings
  <2>4. Holds(p, i, Upto(list, k + 1))
    BY <1>2, <2>1
  <2>5. Holds(p, i, Upto(list, k))
    BY <2>2, <2>3, <2>4, HoldsParts
  <2> QED
    BY <2>5 DEF k
<1> HIDE DEF P
<1>3. \A j \in Nat : j \in P
  BY <1>1, <1>2, NumberInduction
<1>4. ASSUME NEW k \in 0 .. n PROVE Holds(p, i, Upto(list, k))
  <2>1. n - k \in Nat /\ n - k <= n /\ n - (n - k) = k
    BY <1>0
  <2>2. n - k \in P
    BY <1>3, <2>1
  <2> HIDE DEF n
  <2> QED
    BY <2>1, <2>2 DEF P
<1> QED
  BY <1>4

\* Prefixed strings make a list of strings.
LEMMA PrefixedAllIs ==
  ASSUME NEW list, Strings(list)
  PROVE  /\ Strings([j \in 1 .. Len(list) |-> prefixed(list[j])])
         /\ Len([j \in 1 .. Len(list) |-> prefixed(list[j])]) = Len(list)
         /\ IsSeq(prefixed_all(list))
<1> DEFINE all == [j \in 1 .. Len(list) |-> prefixed(list[j])]
<1>0. Len(list) \in Nat
  BY LenIs DEF Strings
<1>1. IsSeq(all) /\ Len(all) = Len(list)
  BY <1>0, MadeSeq
<1>2. \A j \in 1 .. Len(list) : IsSeq(all[j])
  BY PrefixedIs DEF Strings
<1> HIDE DEF all
<1>3. Strings(all)
  BY <1>1, <1>2 DEF Strings
<1>4. IsSeq(FlattenSeq(all))
  BY <1>3, UptoIsSeq
<1> QED
  BY <1>1, <1>3, <1>4 DEF prefixed_all, all

\* One round of take_all.
TakeMore(p, result) ==
    Then(result, LAMBDA got :
      Then(take(p, got.next), LAMBDA one :
        Ok([items |-> Append(got.items, one.item), next |-> one.next])))

\* The recursion behind take_all.
TakesAll(f, p, i, n) ==
    f = [k \in 0 .. n |-> IF k = 0 THEN Ok([items |-> <<>>, next |-> i])
                          ELSE TakeMore(p, f[k - 1])]

\* take_all by that recursion.
LEMMA TakeAllIs ==
  ASSUME NEW p, NEW i, NEW n
  PROVE  take_all(p, i, n) = (CHOOSE f : TakesAll(f, p, i, n))[n]
  BY DEF take_all, TakesAll, TakeMore

\* A round that finds a string appends it.
LEMMA TakeMoreIs ==
  ASSUME NEW p, NEW got, NEW one, take(p, got.next) = Ok(one)
  PROVE  TakeMore(p, Ok(got)) = Ok([items |-> Append(got.items, one.item), next |-> one.next])
<1> DEFINE Last1(x, y) == Ok([items |-> Append(x.items, y.item), next |-> y.next])
<1> DEFINE First(x) == UNION {Last1(x, y) : y \in take(p, x.next)}
<1>1. TakeMore(p, Ok(got)) = UNION {First(x) : x \in {got}}
  BY DEF TakeMore, Then, Ok
<1>2. First(got) = UNION {Last1(got, y) : y \in {one}}
  BY DEF Ok
<1> HIDE DEF First, Last1
<1>3. UNION {First(x) : x \in {got}} = First(got) /\ UNION {Last1(got, y) : y \in {one}} = Last1(got, one)
  OBVIOUS
<1> QED
  BY <1>1, <1>2, <1>3 DEF Last1

\* take_all gives back the list that prefixed_all wrote, and stops behind it.
LEMMA TakeAllPrefixed ==
  ASSUME NEW p, NEW i, NEW list, Strings(list), Holds(p, i, prefixed_all(list))
  PROVE  take_all(p, i, Len(list)) = Ok([items |-> list, next |-> i + Len(prefixed_all(list))])
<1> DEFINE n == Len(list)
<1> DEFINE all == [j \in 1 .. n |-> prefixed(list[j])]
<1> DEFINE G(k) == [items |-> SubSeq(list, 1, k), next |-> i + Len(Upto(all, k))]
<1> DEFINE g == [k \in 0 .. n |-> Ok(G(k))]
<1>0. /\ n \in Nat /\ IsSeq(list) /\ Strings(all) /\ Len(all) = n
      /\ prefixed_all(list) = FlattenSeq(all) /\ i \in Nat
      /\ \A j \in 1 .. n : all[j] = prefixed(list[j]) /\ IsSeq(list[j])
  BY PrefixedAllIs, LenIs DEF Strings, prefixed_all, Holds
<1> HIDE DEF all
<1>1. \A k \in 0 .. n : Holds(p, i, Upto(all, k)) /\ IsSeq(Upto(all, k)) /\ Len(Upto(all, k)) \in Nat
  BY <1>0, HoldsUpto, UptoIsSeq, LenIs
<1>2. G(0) = [items |-> <<>>, next |-> i] /\ G(n) = [items |-> list, next |-> i + Len(prefixed_all(list))]
  <2>1. SubSeq(list, 1, 0) = <<>> /\ SubSeq(list, 1, n) = list
    BY <1>0, SubSeqEmpty, SubSeqFull DEF IsSeq
  <2>2. Upto(all, 0) = <<>> /\ Upto(all, n) = FlattenSeq(all) /\ Len(<<>>) = 0 /\ i + 0 = i
    BY <1>0, UptoEnds, TupleIs
  <2> QED
    BY <1>0, <2>1, <2>2
<1>3. ASSUME NEW k \in Nat, k < n PROVE TakeMore(p, Ok(G(k))) = Ok(G(k + 1))
  <2> DEFINE s == list[k + 1]
  <2> DEFINE u == Upto(all, k)
  <2>1. /\ k \in 0 .. n /\ k + 1 \in 0 .. n /\ k + 1 \in 1 .. n
        /\ all[k + 1] = prefixed(s) /\ IsSeq(s) /\ IsSeq(prefixed(s)) /\ Len(prefixed(s)) = Len(s) + 1
        /\ Len(s) \in Nat
    <3>1. k \in 0 .. n /\ k + 1 \in 0 .. n /\ k + 1 \in 1 .. n
      BY <1>0, <1>3
    <3>2. all[k + 1] = prefixed(s) /\ IsSeq(s)
      BY <1>0, <3>1
    <3> QED
      BY <3>1, <3>2, PrefixedIs
  <2>2. Upto(all, k + 1) = u \o prefixed(s)
    <3>1. k < Len(all)
      BY <1>0, <1>3
    <3>2. Upto(all, k + 1) = Upto(all, k) \o all[k + 1]
      BY <1>0, <3>1, UptoMore
    <3> QED
      BY <2>1, <3>2
  <2>3. Holds(p, i, Upto(all, k + 1)) /\ IsSeq(u) /\ Len(u) \in Nat
    BY <1>1, <2>1
  <2>4. Holds(p, i + Len(u), prefixed(s))
    BY <2>1, <2>2, <2>3, HoldsParts
  <2>5. take(p, i + Len(u)) = Ok([item |-> s, next |-> (i + Len(u)) + Len(s) + 1])
    BY <2>1, <2>4, TakePrefixed
  <2>6. Len(Upto(all, k + 1)) = Len(u) + (Len(s) + 1)
    <3>1. Len(u \o prefixed(s)) = Len(u) + Len(prefixed(s))
      BY <2>1, <2>3, Concat
    <3> QED
      BY <2>1, <2>2, <3>1
  <2>7. i + Len(Upto(all, k + 1)) = (i + Len(u)) + Len(s) + 1
    <3> DEFINE l == Len(u)
    <3> DEFINE m == Len(s)
    <3>1. l \in Nat /\ m \in Nat /\ i \in Nat /\ Len(Upto(all, k + 1)) = l + (m + 1)
      BY <1>0, <2>1, <2>3, <2>6
    <3> HIDE DEF l, m
    <3>2. i + (l + (m + 1)) = (i + l) + m + 1
      BY <3>1
    <3> QED
      BY <3>1, <3>2 DEF l, m
  <2>8. Append(SubSeq(list, 1, k), s) = SubSeq(list, 1, k + 1)
    <3>1. 1 \in 1 .. n /\ k + 1 \in 1 .. n /\ (k + 1) - 1 = k
      BY <1>0, <2>1
    <3>2. SubSeq(list, 1, k + 1) = SubSeq(list, 1, k) \o <<list[k + 1]>>
      BY <1>0, <3>1, SubSeqRecursiveSecond DEF IsSeq
    <3>3. IsSeq(SubSeq(list, 1, k))
      <4>1. 1 <= k + 1 /\ k <= Len(list)
        BY <1>0, <2>1
      <4>2. 1 \in Nat \ {0} /\ k \in Nat
        OBVIOUS
      <4> HIDE DEF n
      <4> QED
        BY <1>0, <4>1, <4>2, Sub
    <3>4. Append(SubSeq(list, 1, k), s) = SubSeq(list, 1, k) \o <<s>>
      BY <3>3 DEF IsSeq
    <3> QED
      BY <3>2, <3>4
  <2> DEFINE one == [item |-> s, next |-> (i + Len(u)) + Len(s) + 1]
  <2>9. /\ G(k).next = i + Len(u) /\ G(k).items = SubSeq(list, 1, k)
        /\ one.item = s /\ one.next = i + Len(Upto(all, k + 1))
    BY <2>7
  <2>10. take(p, G(k).next) = Ok(one)
    BY <2>5, <2>9
  <2> HIDE DEF one
  <2>11. TakeMore(p, Ok(G(k))) = Ok([items |-> Append(G(k).items, one.item), next |-> one.next])
    BY <2>10, TakeMoreIs
  <2> QED
    BY <2>8, <2>9, <2>11
<1> HIDE DEF G
<1>4. TakesAll(g, p, i, n)
  <2>1. ASSUME NEW k \in 0 .. n
        PROVE  g[k] = IF k = 0 THEN Ok([items |-> <<>>, next |-> i]) ELSE TakeMore(p, g[k - 1])
    <3>1. CASE k = 0
      BY <1>2, <3>1
    <3>2. CASE k # 0
      <4>1. k - 1 \in Nat /\ k - 1 < n /\ (k - 1) + 1 = k /\ k - 1 \in 0 .. n
        BY <1>0, <3>2
      <4>2. TakeMore(p, Ok(G(k - 1))) = Ok(G(k))
        BY <1>3, <4>1
      <4> QED
        BY <3>2, <4>1, <4>2
    <3> QED
      BY <3>1, <3>2
  <2>2. g = [k \in 0 .. n |-> g[k]]
    OBVIOUS
  <2> HIDE DEF g
  <2> QED
    BY <2>1, <2>2 DEF TakesAll
<1> DEFINE f == CHOOSE c : TakesAll(c, p, i, n)
<1>5. TakesAll(f, p, i, n) /\ take_all(p, i, n) = f[n]
  BY <1>4, TakeAllIs
<1>6. \A k \in 0 .. n : g[k] = Ok(G(k))
  OBVIOUS
<1> HIDE DEF f, g
<1> DEFINE P == {k \in Nat : k <= n => f[k] = Ok(G(k))}
<1>7. \A k \in 0 .. n : f[k] = IF k = 0 THEN Ok([items |-> <<>>, next |-> i]) ELSE TakeMore(p, f[k - 1])
  BY <1>5 DEF TakesAll
<1>8. 0 \in P
  BY <1>0, <1>2, <1>7
<1>9. ASSUME NEW k \in Nat, k \in P PROVE k + 1 \in P
  <2> SUFFICES ASSUME k + 1 <= n PROVE f[k + 1] = Ok(G(k + 1))
    OBVIOUS
  <2>1. k < n /\ k <= n /\ k + 1 \in 0 .. n /\ k + 1 # 0 /\ (k + 1) - 1 = k
    BY <1>0
  <2>2. f[k + 1] = TakeMore(p, f[k])
    BY <1>7, <2>1
  <2> QED
    BY <1>3, <1>9, <2>1, <2>2
<1> HIDE DEF P
<1>10. \A k \in Nat : k \in P
  BY <1>8, <1>9, NumberInduction
<1>11. f[n] = Ok(G(n))
  BY <1>0, <1>10 DEF P
<1> QED
  BY <1>2, <1>5, <1>11

----------------------------------------------------------------------------
(* Transactions.                                                           *)

\* Every payload variant decodes to itself.
LEMMA VariantRound ==
  ASSUME NEW p, IsPayload(p)
  PROVE  IsSeq(Variant(p)) /\ DecodeVariant(p.tag, Variant(p)) = Ok(p)
<1>1. CASE p.tag = 0 /\ p = [tag |-> 0, to |-> p.to, amount |-> p.amount]
  <2> DEFINE v == <<p.to, p.amount>>
  <2>1. Variant(p) = v
    BY <1>1 DEF Variant
  <2>2. IsSeq(v) /\ Len(v) = 2 /\ v[1] = p.to /\ v[2] = p.amount
    BY TupleIs
  <2> HIDE DEF v
  <2>3. DecodeVariant(p.tag, v) = Ok([tag |-> 0, to |-> v[1], amount |-> v[2]])
    BY <1>1, <2>2 DEF DecodeVariant
  <2> QED
    BY <1>1, <2>1, <2>2, <2>3
<1>2. CASE p.tag \in 1 .. 4 /\ p = [tag |-> p.tag, validator |-> p.validator, amount |-> p.amount]
  <2> DEFINE v == <<p.validator, p.amount>>
  <2> DEFINE t == p.tag
  <2>0. t \in 1 .. 4 /\ t # 0 /\ t # 5 /\ t # 6 /\ t # 7
    BY <1>2
  <2>1. Variant(p) = v
    BY <2>0 DEF Variant
  <2>2. IsSeq(v) /\ Len(v) = 2 /\ v[1] = p.validator /\ v[2] = p.amount
    BY TupleIs
  <2> HIDE DEF v, t
  <2>3. DecodeVariant(t, v) = Ok([tag |-> t, validator |-> v[1], amount |-> v[2]])
    BY <2>0, <2>2 DEF DecodeVariant
  <2>4. p = [tag |-> t, validator |-> p.validator, amount |-> p.amount]
    BY <1>2 DEF t
  <2> QED
    BY <2>1, <2>2, <2>3, <2>4 DEF t
<1>3. CASE p.tag = 5 /\ p = [tag |-> 5, amount |-> p.amount]
  <2> DEFINE v == <<p.amount>>
  <2>1. Variant(p) = v
    BY <1>3 DEF Variant
  <2>2. IsSeq(v) /\ Len(v) = 1 /\ v[1] = p.amount
    BY TupleIs
  <2> HIDE DEF v
  <2>3. DecodeVariant(p.tag, v) = Ok([tag |-> 5, amount |-> v[1]])
    BY <1>3, <2>2 DEF DecodeVariant
  <2> QED
    BY <1>3, <2>1, <2>2, <2>3
<1>4. CASE p.tag = 6 /\ p = [tag |-> 6, code |-> p.code] /\ IsSeq(p.code)
  <2> DEFINE v == prefixed(p.code)
  <2>1. Variant(p) = v
    BY <1>4 DEF Variant
  <2>2. IsSeq(v) /\ Len(v) = Len(p.code) + 1 /\ Len(p.code) \in Nat
    BY <1>4, PrefixedIs
  <2>3. v[1] = Len(p.code) /\ SubSeq(v, 1 + 1, 1 + Len(p.code)) = p.code
    <3> DEFINE s == p.code
    <3>1. Holds(v, 1, prefixed(s)) /\ IsSeq(s)
      BY <1>4, <2>2, HoldsAll
    <3> HIDE DEF v, s
    <3>2. v[1] = Len(s) /\ SubSeq(v, 1 + 1, 1 + Len(s)) = s
      BY <3>1, HoldsPrefixed
    <3> QED
      BY <3>2 DEF s
  <2> HIDE DEF v
  <2>4. Tail(v) = p.code
    <3>1. v # <<>>
      BY <2>2, TupleIs
    <3>2. Tail(v) = SubSeq(v, 2, Len(v))
      BY <2>2, <3>1, TailIsSubSeq DEF IsSeq
    <3>3. 1 + Len(p.code) = Len(v) /\ 1 + 1 = 2
      BY <2>2
    <3> QED
      BY <2>3, <3>2, <3>3
  <2>5. Len(v) >= 1 /\ Len(v) = 1 + v[1]
    BY <2>2, <2>3
  <2>6. DecodeVariant(p.tag, v) = Ok([tag |-> 6, code |-> Tail(v)])
    BY <1>4, <2>5 DEF DecodeVariant
  <2> QED
    BY <1>4, <2>1, <2>2, <2>4, <2>6
<1>5. CASE p.tag = 7 /\ p = [tag |-> 7, to |-> p.to, data |-> p.data] /\ IsSeq(p.data)
  <2> DEFINE w == prefixed(p.data)
  <2> DEFINE v == <<p.to>> \o w
  <2>1. Variant(p) = v
    BY <1>5 DEF Variant
  <2>2. IsSeq(w) /\ Len(w) = Len(p.data) + 1 /\ Len(p.data) \in Nat
    BY <1>5, PrefixedIs
  <2>3. IsSeq(<<p.to>>) /\ Len(<<p.to>>) = 1
    BY TupleIs
  <2>4. IsSeq(v) /\ Len(v) = Len(<<p.to>>) + Len(w)
    BY <2>2, <2>3, Concat
  <2>5. Holds(v, 1, <<p.to>>) /\ Holds(v, 1 + Len(<<p.to>>), w)
    BY <2>2, <2>3, <2>4, HoldsAll, HoldsParts
  <2> HIDE DEF v
  <2>6. v[1] = p.to /\ 1 + Len(<<p.to>>) = 2 /\ Len(v) = Len(p.data) + 2
    <3> DEFINE e == <<p.to>>
    <3>0. Holds(v, 1, e) /\ Len(e) >= 1 /\ e[1] = p.to
      BY <2>3, <2>5
    <3> HIDE DEF e
    <3>1. v[1] = e[1]
      BY <3>0, HoldsAt
    <3> QED
      BY <2>2, <2>3, <2>4, <3>0, <3>1
  <2>7. v[2] = Len(p.data) /\ SubSeq(v, 2 + 1, 2 + Len(p.data)) = p.data
    <3> DEFINE s == p.data
    <3>1. Holds(v, 2, prefixed(s)) /\ IsSeq(s)
      BY <1>5, <2>5, <2>6
    <3> HIDE DEF s
    <3>2. v[2] = Len(s) /\ SubSeq(v, 2 + 1, 2 + Len(s)) = s
      BY <3>1, HoldsPrefixed
    <3> QED
      BY <3>2 DEF s
  <2>8. Len(v) >= 2 /\ Len(v) = 2 + v[2] /\ 2 + Len(p.data) = Len(v) /\ 2 + 1 = 3
    BY <2>2, <2>6, <2>7
  <2>9. DecodeVariant(p.tag, v) = Ok([tag |-> 7, to |-> v[1], data |-> SubSeq(v, 3, Len(v))])
    BY <1>5, <2>8 DEF DecodeVariant
  <2> QED
    BY <1>5, <2>1, <2>4, <2>6, <2>7, <2>8, <2>9
<1> QED
  BY <1>1, <1>2, <1>3, <1>4, <1>5 DEF IsPayload

\* A transaction decodes to itself (Tx::encode, Tx::decode).
LEMMA TxRound ==
  ASSUME NEW tx, IsTx(tx)
  PROVE  /\ IsSeq(payload_bytes(tx)) /\ IsSeq(tx_encode(tx))
         /\ tx_decode(tx_encode(tx)) = Ok(tx)
<1> DEFINE head == <<tx.chain_id, tx.nonce, tx.gas_limit, tx.max_fee, tx.payload.tag>>
<1> DEFINE v == Variant(tx.payload)
<1> DEFINE raw == head \o v
<1>1. IsSeq(v) /\ DecodeVariant(tx.payload.tag, v) = Ok(tx.payload)
  BY VariantRound DEF IsTx
<1>2. /\ IsSeq(head) /\ Len(head) = 5 /\ head[1] = tx.chain_id /\ head[2] = tx.nonce
      /\ head[3] = tx.gas_limit /\ head[4] = tx.max_fee /\ head[5] = tx.payload.tag
  BY TupleIs
<1>3. payload_bytes(tx) = raw
  BY DEF payload_bytes
<1> HIDE DEF head, v
<1>4. IsSeq(raw) /\ Len(raw) = Len(head) + Len(v) /\ Len(v) \in Nat
  BY <1>1, <1>2, Concat, LenIs
<1>5. Holds(raw, 1, head) /\ Holds(raw, 1 + Len(head), v)
  BY <1>1, <1>2, <1>4, HoldsAll, HoldsParts
<1> HIDE DEF raw
<1>6. /\ raw[1] = tx.chain_id /\ raw[2] = tx.nonce /\ raw[3] = tx.gas_limit
      /\ raw[4] = tx.max_fee /\ raw[5] = tx.payload.tag
  <2>1. \A j \in 1 .. Len(head) : raw[j] = head[j]
    BY <1>5, HoldsFirst
  <2>2. raw[1] = head[1] /\ raw[2] = head[2] /\ raw[3] = head[3] /\ raw[4] = head[4] /\ raw[5] = head[5]
    BY <1>2, <2>1
  <2> QED
    BY <1>2, <2>2
<1>7. SubSeq(raw, 6, Len(raw)) = v
  <2>1. SubSeq(raw, 1 + Len(head), (1 + Len(head)) + Len(v) - 1) = v
    BY <1>5, HoldsSub
  <2>2. 1 + Len(head) = 6 /\ (1 + Len(head)) + Len(v) - 1 = Len(raw)
    BY <1>2, <1>4
  <2> QED
    BY <2>1, <2>2
<1> DEFINE H(payload) ==
      Ok([chain_id |-> raw[1], nonce |-> raw[2], gas_limit |-> raw[3],
          max_fee |-> raw[4], payload |-> payload])
<1> DEFINE G(q) ==
      IF Len(q) < 5 THEN Err
      ELSE Then(DecodeVariant(q[5], SubSeq(q, 6, Len(q))), LAMBDA payload :
             Ok([chain_id |-> q[1], nonce |-> q[2], gas_limit |-> q[3],
                 max_fee |-> q[4], payload |-> payload]))
<1>8. tx_decode(tx_encode(tx)) = UNION {G(q) : q \in decode(tx_encode(tx))}
  BY DEF tx_decode, Then
<1>9. decode(tx_encode(tx)) = {raw}
  BY <1>3, <1>4, DecodeEncode DEF tx_encode, Ok
<1>10. G(raw) = UNION {H(payload) : payload \in {tx.payload}}
  <2>1. ~(Len(raw) < 5)
    BY <1>2, <1>4
  <2>2. DecodeVariant(raw[5], SubSeq(raw, 6, Len(raw))) = {tx.payload}
    BY <1>1, <1>6, <1>7 DEF Ok
  <2> QED
    BY <2>1, <2>2 DEF Then
<1>11. H(tx.payload) = Ok(tx)
  <2>1. H(tx.payload) = Ok([chain_id |-> tx.chain_id, nonce |-> tx.nonce,
                            gas_limit |-> tx.gas_limit, max_fee |-> tx.max_fee,
                            payload |-> tx.payload])
    BY <1>6
  <2> QED
    BY <2>1 DEF IsTx
<1> HIDE DEF G, H
<1>12. UNION {G(q) : q \in {raw}} = G(raw)
  OBVIOUS
<1>13. UNION {H(payload) : payload \in {tx.payload}} = H(tx.payload)
  OBVIOUS
<1> QED
  BY <1>3, <1>4, <1>8, <1>9, <1>10, <1>11, <1>12, <1>13, EncodeIs DEF tx_encode

\* A signed transaction decodes to itself.
LEMMA SignedTxRound ==
  ASSUME NEW s, IsSignedTx(s)
  PROVE  /\ IsSeq(encode_signed_tx(s))
         /\ decode_signed_tx(encode_signed_tx(s)) = Ok(s)
<1> DEFINE b == tx_encode(s.tx)
<1> DEFINE u == prefixed(b)
<1> DEFINE v == <<s.signature, s.public_key>>
<1> DEFINE p == u \o v
<1>1. IsSeq(b) /\ tx_decode(b) = Ok(s.tx) /\ Len(b) \in Nat
  BY TxRound, LenIs DEF IsSignedTx
<1>2. IsSeq(u) /\ Len(u) = Len(b) + 1
  BY <1>1, PrefixedIs
<1>3. IsSeq(v) /\ Len(v) = 2 /\ v[1] = s.signature /\ v[2] = s.public_key
  BY TupleIs
<1>4. encode_signed_tx(s) = encode(p) /\ IsJoin(p, u, v)
  BY DEF encode_signed_tx, IsJoin
<1>5. /\ IsSeq(p) /\ Len(p) = Len(u) + Len(v) /\ Holds(p, 1, u)
      /\ \A i \in 1 .. Len(v) : p[Len(u) + i] = v[i]
  <2> HIDE DEF u, v, p
  <2>1. IsSeq(u) /\ IsSeq(v)
    BY <1>2, <1>3
  <2> QED
    BY <1>4, <2>1, Joined
<1>6. Holds(p, 1, prefixed(b))
  BY <1>5
<1>7. p[1] = Len(b) /\ SubSeq(p, 1 + 1, 1 + Len(b)) = b
  <2> HIDE DEF p, b, v
  <2> QED
    BY <1>1, <1>6, HoldsPrefixed
<1> HIDE DEF u, v, b, p
<1>8. Len(p) = 3 + p[1] /\ ~(Len(p) < 3) /\ Len(p) - 1 = Len(u) + 1 /\ Len(p) = Len(u) + 2
  BY <1>1, <1>2, <1>3, <1>5, <1>7
<1>9. p[Len(p) - 1] = s.signature /\ p[Len(p)] = s.public_key
  <2>1. p[Len(u) + 1] = v[1] /\ p[Len(u) + 2] = v[2]
    BY <1>3, <1>5
  <2> QED
    BY <1>3, <1>8, <2>1
<1>10. SubSeq(p, 2, 1 + p[1]) = b
  BY <1>7
<1> DEFINE H(tx) == Ok([tx |-> tx, signature |-> p[Len(p) - 1], public_key |-> p[Len(p)]])
<1> DEFINE G(q) ==
      IF Len(q) < 3 \/ Len(q) # 3 + q[1] THEN Err
      ELSE Then(tx_decode(SubSeq(q, 2, 1 + q[1])), LAMBDA tx :
             Ok([tx |-> tx, signature |-> q[Len(q) - 1], public_key |-> q[Len(q)]]))
<1>11. decode_signed_tx(encode(p)) = UNION {G(q) : q \in decode(encode(p))}
  BY DEF decode_signed_tx, Then
<1>12. decode(encode(p)) = {p}
  BY <1>5, DecodeEncode DEF Ok
<1>13. G(p) = UNION {H(tx) : tx \in {s.tx}}
  <2>1. tx_decode(SubSeq(p, 2, 1 + p[1])) = {s.tx}
    BY <1>1, <1>10 DEF Ok
  <2> QED
    BY <1>8, <2>1 DEF Then
<1>14. H(s.tx) = Ok(s)
  <2>1. H(s.tx) = Ok([tx |-> s.tx, signature |-> s.signature, public_key |-> s.public_key])
    BY <1>9
  <2> QED
    BY <2>1 DEF IsSignedTx
<1> HIDE DEF G, H
<1>15. UNION {G(q) : q \in {p}} = G(p) /\ UNION {H(tx) : tx \in {s.tx}} = H(s.tx)
  OBVIOUS
<1> QED
  BY <1>4, <1>5, <1>11, <1>12, <1>13, <1>14, <1>15, EncodeIs

----------------------------------------------------------------------------
(* Headers and bodies.                                                     *)

\* A header is read back from the bytes that are hashed.
LEMMA HeaderRound ==
  ASSUME NEW h, IsHeader(h)
  PROVE  /\ IsSeq(hash_preimage(h)) /\ Len(hash_preimage(h)) = 9
         /\ header_from_preimage(hash_preimage(h)) = Ok(h)
<1> DEFINE u == <<h.fields.height, h.fields.round, h.fields.proposer, h.fields.timestamp_ms>>
<1> DEFINE v == <<h.tx_root, h.state_root, h.receipts_root, h.validators_hash, h.da_root>>
<1> DEFINE p == u \o v
<1>1. hash_preimage(h) = p /\ IsJoin(p, u, v)
  BY DEF hash_preimage, field_bytes, IsJoin
<1>2. /\ IsSeq(u) /\ Len(u) = 4 /\ u[1] = h.fields.height /\ u[2] = h.fields.round
      /\ u[3] = h.fields.proposer /\ u[4] = h.fields.timestamp_ms
  BY TupleIs
<1>3. /\ IsSeq(v) /\ Len(v) = 5 /\ v[1] = h.tx_root /\ v[2] = h.state_root
      /\ v[3] = h.receipts_root /\ v[4] = h.validators_hash /\ v[5] = h.da_root
  BY TupleIs
<1> HIDE DEF u, v, p
<1>4. /\ IsSeq(p) /\ Len(p) = Len(u) + Len(v)
      /\ \A i \in 1 .. Len(u) : p[i] = u[i]
      /\ \A i \in 1 .. Len(v) : p[Len(u) + i] = v[i]
  <2>1. IsSeq(u) /\ IsSeq(v)
    BY <1>2, <1>3
  <2> QED
    BY <1>1, <2>1, Joined
<1>5. /\ Len(p) = 9 /\ p[1] = u[1] /\ p[2] = u[2] /\ p[3] = u[3] /\ p[4] = u[4]
      /\ p[4 + 1] = v[1] /\ p[4 + 2] = v[2] /\ p[4 + 3] = v[3] /\ p[4 + 4] = v[4] /\ p[4 + 5] = v[5]
  BY <1>2, <1>3, <1>4
<1>6. /\ p[5] = h.tx_root /\ p[6] = h.state_root /\ p[7] = h.receipts_root
      /\ p[8] = h.validators_hash /\ p[9] = h.da_root
  BY <1>3, <1>5
<1>7. fields_of(p) = h.fields
  <2>1. fields_of(p) = [height |-> h.fields.height, round |-> h.fields.round,
                        proposer |-> h.fields.proposer, timestamp_ms |-> h.fields.timestamp_ms]
    BY <1>2, <1>5 DEF fields_of
  <2> QED
    BY <2>1 DEF IsHeader, IsFields
<1>8. header_from_preimage(p) =
        Ok([fields |-> h.fields, tx_root |-> h.tx_root, state_root |-> h.state_root,
            receipts_root |-> h.receipts_root, validators_hash |-> h.validators_hash,
            da_root |-> h.da_root])
  BY <1>5, <1>6, <1>7 DEF header_from_preimage
<1>9. header_from_preimage(p) = Ok(h)
  BY <1>8 DEF IsHeader
<1> QED
  BY <1>1, <1>4, <1>5, <1>9

\* The transactions of a body decode to themselves, all of them.
LEMMA DecodeTxs ==
  ASSUME NEW txs, IsSeq(txs), \A i \in 1 .. Len(txs) : IsSignedTx(txs[i])
  PROVE  /\ Strings([i \in 1 .. Len(txs) |-> encode_signed_tx(txs[i])])
         /\ Len([i \in 1 .. Len(txs) |-> encode_signed_tx(txs[i])]) = Len(txs)
         /\ DecodeEach([i \in 1 .. Len(txs) |-> encode_signed_tx(txs[i])], decode_signed_tx)
              = Ok(txs)
<1> DEFINE n == Len(txs)
<1> DEFINE items == [i \in 1 .. n |-> encode_signed_tx(txs[i])]
<1> DEFINE results == [i \in DOMAIN items |-> decode_signed_tx(items[i])]
<1> DEFINE G(r) == IF \E i \in DOMAIN items : r[i] = Err THEN Err
                   ELSE Ok([i \in DOMAIN items |-> CHOOSE x \in r[i] : TRUE])
<1>0. n \in Nat /\ DOMAIN txs = 1 .. n /\ DOMAIN items = 1 .. n
  BY LenIs
<1>1. \A i \in 1 .. n : items[i] = encode_signed_tx(txs[i])
  OBVIOUS
<1>2. \A i \in 1 .. n : IsSeq(items[i]) /\ decode_signed_tx(items[i]) = Ok(txs[i])
  BY <1>1, SignedTxRound
<1>3. IsSeq(items) /\ Len(items) = n
  BY <1>0, MadeSeq
<1>4. Strings(items)
  BY <1>2, <1>3 DEF Strings
<1>5. DecodeEach(items, decode_signed_tx) = UNION {G(r) : r \in {results}}
  BY DEF DecodeEach, Then, Ok
<1> HIDE DEF items
<1>6. \A i \in 1 .. n : results[i] = {txs[i]}
  BY <1>0, <1>2 DEF Ok
<1> HIDE DEF results
<1>7. G(results) = Ok([i \in 1 .. n |-> CHOOSE x \in results[i] : TRUE])
  BY <1>0, <1>6 DEF Err
<1>8. \A i \in 1 .. n : (CHOOSE x \in results[i] : TRUE) = txs[i]
  BY <1>6
<1>9. [i \in 1 .. n |-> CHOOSE x \in results[i] : TRUE] = [i \in 1 .. n |-> txs[i]]
  BY <1>8
<1>10. [i \in 1 .. n |-> txs[i]] = txs
  BY <1>0 DEF IsSeq
<1> HIDE DEF G
<1>11. UNION {G(r) : r \in {results}} = G(results)
  OBVIOUS
<1>12. DecodeEach(items, decode_signed_tx) = Ok(txs)
  BY <1>5, <1>7, <1>9, <1>10, <1>11
<1> QED
  BY <1>3, <1>4, <1>12 DEF items

\* A body decodes to itself (encode_block_body, decode_block_body).
LEMMA BodyRound ==
  ASSUME NEW b, IsBlock(b)
  PROVE  /\ IsSeq(encode_block_body(b))
         /\ decode_block_body(encode_block_body(b)) = Ok(b)
<1> DEFINE f == b.header_fields
<1> DEFINE u == <<f.height, f.round, f.proposer, f.timestamp_ms>>
<1> DEFINE c == <<Len(b.txs)>>
<1> DEFINE items == [i \in 1 .. Len(b.txs) |-> encode_signed_tx(b.txs[i])]
<1> DEFINE l == prefixed_all(items)
<1> DEFINE p == (u \o c) \o l
<1>1. encode_block_body(b) = encode(p)
  BY DEF encode_block_body, field_bytes
<1>2. Strings(items) /\ Len(items) = Len(b.txs) /\ DecodeEach(items, decode_signed_tx) = Ok(b.txs)
  BY DecodeTxs DEF IsBlock
<1>3. IsSeq(u) /\ Len(u) = 4 /\ u[1] = f.height /\ u[2] = f.round /\ u[3] = f.proposer /\ u[4] = f.timestamp_ms
  BY TupleIs
<1>4. IsSeq(c) /\ Len(c) = 1 /\ c[1] = Len(b.txs)
  BY TupleIs
<1> HIDE DEF items, u, c
<1>5. IsSeq(l) /\ Len(l) \in Nat
  BY <1>2, PrefixedAllIs, LenIs
<1> HIDE DEF l
<1> DEFINE w == u \o c
<1>6. IsJoin(p, w, l) /\ IsJoin(w, u, c)
  BY DEF IsJoin
<1> HIDE DEF w, p
<1>7. /\ IsSeq(w) /\ Len(w) = Len(u) + Len(c) /\ \A i \in 1 .. Len(u) : w[i] = u[i]
      /\ \A i \in 1 .. Len(c) : w[Len(u) + i] = c[i]
  <2>1. IsSeq(u) /\ IsSeq(c)
    BY <1>3, <1>4
  <2> QED
    BY <1>6, <2>1, Joined
<1>8. Len(w) = 5 /\ w[4 + 1] = c[1]
  BY <1>3, <1>4, <1>7
<1>9. w[1] = u[1] /\ w[2] = u[2] /\ w[3] = u[3] /\ w[4] = u[4] /\ w[5] = c[1]
  BY <1>3, <1>7, <1>8
<1>10. /\ IsSeq(p) /\ Len(p) = Len(w) + Len(l) /\ Holds(p, 1 + Len(w), l)
       /\ \A i \in 1 .. Len(w) : p[i] = w[i]
  <2>1. IsSeq(w) /\ IsSeq(l)
    BY <1>5, <1>7
  <2> QED
    BY <1>6, <2>1, Joined
<1>11. Holds(p, 6, l)
  <2>1. 1 + Len(w) = 6
    BY <1>8
  <2> QED
    BY <1>10, <2>1
<1>12. p[1] = w[1] /\ p[2] = w[2] /\ p[3] = w[3] /\ p[4] = w[4] /\ p[5] = w[5]
  BY <1>8, <1>10
<1>13. fields_of(p) = f /\ p[5] = Len(items) /\ ~(Len(p) < 5) /\ 6 + Len(l) = Len(p) + 1
  <2>1. fields_of(p) = [height |-> f.height, round |-> f.round,
                        proposer |-> f.proposer, timestamp_ms |-> f.timestamp_ms]
    BY <1>3, <1>9, <1>12 DEF fields_of
  <2>2. fields_of(p) = f
    BY <2>1 DEF IsBlock, IsFields
  <2> QED
    BY <1>2, <1>4, <1>5, <1>8, <1>9, <1>10, <1>12, <2>2
<1> DEFINE rest == [items |-> items, next |-> 6 + Len(l)]
<1>14. take_all(p, 6, p[5]) = {rest} /\ rest.items = items /\ rest.next = Len(p) + 1
  <2>1. take_all(p, 6, Len(items)) = Ok([items |-> items, next |-> 6 + Len(l)])
    BY <1>2, <1>11, TakeAllPrefixed DEF l
  <2> QED
    BY <1>13, <2>1 DEF Ok
<1> HIDE DEF rest
<1> DEFINE K(txs) == Ok([header_fields |-> fields_of(p), txs |-> txs])
<1> DEFINE H(raw) == IF raw.next # Len(p) + 1 THEN Err
                     ELSE Then(DecodeEach(raw.items, decode_signed_tx), LAMBDA txs :
                            Ok([header_fields |-> fields_of(p), txs |-> txs]))
<1> DEFINE G(q) ==
      IF Len(q) < 5 THEN Err
      ELSE Then(take_all(q, 6, q[5]), LAMBDA raw :
             IF raw.next # Len(q) + 1 THEN Err
             ELSE Then(DecodeEach(raw.items, decode_signed_tx), LAMBDA txs :
                    Ok([header_fields |-> fields_of(q), txs |-> txs])))
<1>15. decode_block_body(encode(p)) = UNION {G(q) : q \in decode(encode(p))}
  BY DEF decode_block_body, Then
<1>16. decode(encode(p)) = {p}
  BY <1>10, DecodeEncode DEF Ok
<1>17. G(p) = UNION {H(raw) : raw \in {rest}}
  BY <1>13, <1>14 DEF Then
<1>18. H(rest) = UNION {K(txs) : txs \in {b.txs}}
  BY <1>2, <1>14 DEF Then, Ok
<1>19. K(b.txs) = Ok(b)
  <2>1. K(b.txs) = Ok([header_fields |-> f, txs |-> b.txs])
    BY <1>13
  <2> QED
    BY <2>1 DEF IsBlock
<1> HIDE DEF G, H, K
<1>20. UNION {G(q) : q \in {p}} = G(p) /\ UNION {H(raw) : raw \in {rest}} = H(rest)
         /\ UNION {K(txs) : txs \in {b.txs}} = K(b.txs)
  OBVIOUS
<1> QED
  BY <1>1, <1>10, <1>15, <1>16, <1>17, <1>18, <1>19, <1>20, EncodeIs

----------------------------------------------------------------------------
(* Gossip.                                                                 *)

\* A vote decodes to itself, the shorter one for nil too.
LEMMA VoteRound ==
  ASSUME NEW v, IsVote(v)
  PROVE  /\ \E p : IsSeq(p) /\ encode_vote(v) = encode(p)
         /\ decode_vote(encode_vote(v)) = Ok(v)
<1> DEFINE a == <<v.signer, v.height, v.round, v.kind>>
<1> DEFINE m == IF v.block = Absent THEN <<0>> ELSE <<1, v.block[1]>>
<1> DEFINE z == <<v.signature>>
<1> DEFINE w == a \o m
<1> DEFINE p == w \o z
<1>1. encode_vote(v) = encode(p) /\ IsJoin(p, w, z) /\ IsJoin(w, a, m)
  BY DEF encode_vote, IsJoin
<1>2. /\ IsSeq(a) /\ Len(a) = 4 /\ a[1] = v.signer /\ a[2] = v.height /\ a[3] = v.round /\ a[4] = v.kind
  BY TupleIs
<1>3. IsSeq(z) /\ Len(z) = 1 /\ z[1] = v.signature
  BY TupleIs
<1>4. /\ IsSeq(m) /\ Len(m) = 1 + m[1] /\ m[1] \in {0, 1}
      /\ v.block = IF m[1] = 0 THEN Absent ELSE Some(m[2])
  <2>1. CASE v.block = Absent
    <3>1. m = <<0>>
      BY <2>1
    <3> HIDE DEF m
    <3> QED
      BY <2>1, <3>1, TupleIs
  <2>2. CASE v.block # Absent
    <3> DEFINE x == v.block[1]
    <3>1. m = <<1, x>> /\ v.block = Some(x)
      BY <2>2 DEF IsVote
    <3> HIDE DEF m, x
    <3>2. m[1] = 1 /\ m[2] = x /\ IsSeq(m) /\ Len(m) = 2
      BY <3>1, TupleIs
    <3> QED
      BY <3>1, <3>2
  <2> QED
    BY <2>1, <2>2
<1> HIDE DEF a, m, z, w, p
<1>5. /\ IsSeq(w) /\ Len(w) = Len(a) + Len(m) /\ \A i \in 1 .. Len(a) : w[i] = a[i]
      /\ \A i \in 1 .. Len(m) : w[Len(a) + i] = m[i]
  <2>1. IsSeq(a) /\ IsSeq(m)
    BY <1>2, <1>4
  <2> QED
    BY <1>1, <2>1, Joined
<1>6. /\ IsSeq(p) /\ Len(p) = Len(w) + Len(z) /\ \A i \in 1 .. Len(w) : p[i] = w[i]
      /\ \A i \in 1 .. Len(z) : p[Len(w) + i] = z[i]
  <2>1. IsSeq(w) /\ IsSeq(z)
    BY <1>3, <1>5
  <2> QED
    BY <1>1, <2>1, Joined
<1>7. Len(w) = 5 + m[1] /\ Len(p) = 6 + m[1] /\ Len(w) \in Nat /\ Len(p) = Len(w) + 1
  BY <1>2, <1>3, <1>4, <1>5, <1>6
<1>8. /\ p[1] = v.signer /\ p[2] = v.height /\ p[3] = v.round /\ p[4] = v.kind /\ p[5] = m[1]
      /\ (m[1] = 1 => p[6] = m[2])
  <2>1. w[1] = a[1] /\ w[2] = a[2] /\ w[3] = a[3] /\ w[4] = a[4]
    BY <1>2, <1>5
  <2>2. w[4 + 1] = m[1] /\ (m[1] = 1 => w[4 + 2] = m[2])
    <3>1. Len(m) \in Nat /\ 1 \in 1 .. Len(m) /\ (m[1] = 1 => 2 \in 1 .. Len(m))
      BY <1>4
    <3> QED
      BY <1>2, <1>5, <3>1
  <2>3. p[1] = w[1] /\ p[2] = w[2] /\ p[3] = w[3] /\ p[4] = w[4] /\ p[5] = w[5] /\ (m[1] = 1 => p[6] = w[6])
    <3>1. /\ 1 \in 1 .. Len(w) /\ 2 \in 1 .. Len(w) /\ 3 \in 1 .. Len(w) /\ 4 \in 1 .. Len(w)
          /\ 5 \in 1 .. Len(w) /\ (m[1] = 1 => 6 \in 1 .. Len(w))
      BY <1>4, <1>7
    <3> QED
      BY <1>6, <3>1
  <2> QED
    BY <1>2, <2>1, <2>2, <2>3
<1>9. p[Len(p)] = v.signature
  <2>1. p[Len(w) + 1] = z[1]
    BY <1>3, <1>6
  <2> QED
    BY <1>3, <1>7, <2>1
<1>10. ~(Len(p) < 6 \/ p[4] \notin {0, 1} \/ p[5] \notin {0, 1} \/ Len(p) # 6 + p[5])
  BY <1>4, <1>7, <1>8 DEF IsVote
<1> DEFINE G(q) ==
      IF Len(q) < 6 \/ q[4] \notin {0, 1} \/ q[5] \notin {0, 1} \/ Len(q) # 6 + q[5] THEN Err
      ELSE Ok([signer |-> q[1], height |-> q[2], round |-> q[3], kind |-> q[4],
               block |-> IF q[5] = 0 THEN Absent ELSE Some(q[6]), signature |-> q[Len(q)]])
<1>11. decode_vote(encode(p)) = UNION {G(q) : q \in decode(encode(p))}
  BY DEF decode_vote, Then
<1>12. decode(encode(p)) = {p}
  BY <1>6, DecodeEncode DEF Ok
<1>13. (IF p[5] = 0 THEN Absent ELSE Some(p[6])) = v.block
  BY <1>4, <1>8
<1>14. G(p) = Ok([signer |-> v.signer, height |-> v.height, round |-> v.round, kind |-> v.kind,
                  block |-> v.block, signature |-> v.signature])
  BY <1>8, <1>9, <1>10, <1>13
<1>15. G(p) = Ok(v)
  BY <1>14 DEF IsVote
<1> HIDE DEF G
<1>16. UNION {G(q) : q \in {p}} = G(p)
  OBVIOUS
<1> QED
  BY <1>1, <1>6, <1>11, <1>12, <1>15, <1>16

\* A proposal decodes to itself.
LEMMA ProposalRound ==
  ASSUME NEW v, IsProposal(v)
  PROVE  /\ \E p : IsSeq(p) /\ encode_proposal(v) = encode(p)
         /\ decode_proposal(encode_proposal(v)) = Ok(v)
<1> DEFINE a == <<v.height, v.round>>
<1> DEFINE h == hash_preimage(v.header)
<1> DEFINE m == prefixed(h)
<1> DEFINE z == <<v.app_hash, v.proposer, v.vrf_source, v.vrf_proof, v.signature>>
<1> DEFINE w == a \o m
<1> DEFINE p == w \o z
<1>1. encode_proposal(v) = encode(p) /\ IsJoin(p, w, z) /\ IsJoin(w, a, m)
  BY DEF encode_proposal, IsJoin
<1>2. IsSeq(a) /\ Len(a) = 2 /\ a[1] = v.height /\ a[2] = v.round
  BY TupleIs
<1>3. /\ IsSeq(z) /\ Len(z) = 5 /\ z[1] = v.app_hash /\ z[2] = v.proposer /\ z[3] = v.vrf_source
      /\ z[4] = v.vrf_proof /\ z[5] = v.signature
  BY TupleIs
<1>4. IsSeq(h) /\ Len(h) = 9 /\ header_from_preimage(h) = Ok(v.header)
  BY HeaderRound DEF IsProposal
<1>5. IsSeq(m) /\ Len(m) = Len(h) + 1
  BY <1>4, PrefixedIs
<1> HIDE DEF a, h, z, w, p
<1>6. /\ IsSeq(w) /\ Len(w) = Len(a) + Len(m) /\ \A i \in 1 .. Len(a) : w[i] = a[i]
  <2>1. IsSeq(a) /\ IsSeq(m)
    BY <1>2, <1>5
  <2> HIDE DEF m
  <2> QED
    BY <1>1, <2>1, Joined
<1>7. /\ IsSeq(p) /\ Len(p) = Len(w) + Len(z) /\ \A i \in 1 .. Len(w) : p[i] = w[i]
      /\ \A i \in 1 .. Len(z) : p[Len(w) + i] = z[i]
  <2>1. IsSeq(w) /\ IsSeq(z)
    BY <1>3, <1>6
  <2> QED
    BY <1>1, <2>1, Joined
<1>8. Holds(p, 3, m)
  <2>1. Holds(p, 1, w)
    BY <1>1, <1>3, <1>6, Joined
  <2>2. Holds(p, 1, a \o m)
    BY <1>1, <2>1 DEF IsJoin
  <2>3. Holds(p, 1 + Len(a), m)
    BY <1>2, <1>5, <2>2, HoldsParts
  <2>4. 1 + Len(a) = 3
    BY <1>2
  <2> QED
    BY <2>3, <2>4
<1>9. p[3] = Len(h) /\ SubSeq(p, 3 + 1, 3 + Len(h)) = h
  <2>1. IsSeq(h)
    BY <1>4
  <2>2. Holds(p, 3, prefixed(h))
    BY <1>8
  <2> QED
    BY <2>1, <2>2, HoldsPrefixed
<1> HIDE DEF m
<1>10. Len(w) = 12 /\ Len(p) = 17 /\ p[3] = 9 /\ SubSeq(p, 4, 3 + p[3]) = h
  BY <1>2, <1>3, <1>4, <1>5, <1>6, <1>7, <1>9
<1>11. p[1] = v.height /\ p[2] = v.round
  BY <1>2, <1>6, <1>7, <1>10
<1>12. p[13] = v.app_hash /\ p[14] = v.proposer /\ p[15] = v.vrf_source /\ p[16] = v.vrf_proof /\ p[17] = v.signature
  <2>1. p[12 + 1] = z[1] /\ p[12 + 2] = z[2] /\ p[12 + 3] = z[3] /\ p[12 + 4] = z[4] /\ p[12 + 5] = z[5]
    BY <1>3, <1>7, <1>10
  <2> QED
    BY <1>3, <2>1
<1> DEFINE H(header) ==
      Ok([height |-> p[1], round |-> p[2], header |-> header,
          app_hash |-> p[Len(p) - 4], proposer |-> p[Len(p) - 3], vrf_source |-> p[Len(p) - 2],
          vrf_proof |-> p[Len(p) - 1], signature |-> p[Len(p)]])
<1> DEFINE G(q) ==
      IF Len(q) < 3 \/ Len(q) # 8 + q[3] THEN Err
      ELSE Then(header_from_preimage(SubSeq(q, 4, 3 + q[3])), LAMBDA header :
             Ok([height |-> q[1], round |-> q[2], header |-> header,
                 app_hash |-> q[Len(q) - 4], proposer |-> q[Len(q) - 3],
                 vrf_source |-> q[Len(q) - 2], vrf_proof |-> q[Len(q) - 1],
                 signature |-> q[Len(q)]]))
<1>13. decode_proposal(encode(p)) = UNION {G(q) : q \in decode(encode(p))}
  BY DEF decode_proposal, Then
<1>14. decode(encode(p)) = {p}
  BY <1>7, DecodeEncode DEF Ok
<1>15. G(p) = UNION {H(header) : header \in {v.header}}
  <2>1. header_from_preimage(SubSeq(p, 4, 3 + p[3])) = {v.header}
    BY <1>4, <1>10 DEF Ok
  <2>2. ~(Len(p) < 3 \/ Len(p) # 8 + p[3])
    BY <1>10
  <2> QED
    BY <2>1, <2>2 DEF Then
<1>16. H(v.header) = Ok(v)
  <2>1. H(v.header) = Ok([height |-> v.height, round |-> v.round, header |-> v.header,
            app_hash |-> v.app_hash, proposer |-> v.proposer, vrf_source |-> v.vrf_source,
            vrf_proof |-> v.vrf_proof, signature |-> v.signature])
    <3>1. Len(p) - 4 = 13 /\ Len(p) - 3 = 14 /\ Len(p) - 2 = 15 /\ Len(p) - 1 = 16 /\ Len(p) = 17
      BY <1>10
    <3> QED
      BY <1>11, <1>12, <3>1
  <2> QED
    BY <2>1 DEF IsProposal
<1> HIDE DEF G, H
<1>17. UNION {G(q) : q \in {p}} = G(p) /\ UNION {H(header) : header \in {v.header}} = H(v.header)
  OBVIOUS
<1> QED
  BY <1>1, <1>7, <1>13, <1>14, <1>15, <1>16, <1>17

\* A gossiped header decodes to itself.
LEMMA HeaderFrameRound ==
  ASSUME NEW h, IsHeader(h)
  PROVE  /\ \E p : IsSeq(p) /\ encode_header(h) = encode(p)
         /\ decode_header(encode_header(h)) = Ok(h)
<1> DEFINE p == hash_preimage(h)
<1>1. IsSeq(p) /\ header_from_preimage(p) = Ok(h) /\ encode_header(h) = encode(p)
  BY HeaderRound DEF encode_header
<1>2. decode(encode(p)) = {p}
  BY <1>1, DecodeEncode DEF Ok
<1>3. decode_header(encode(p)) = UNION {header_from_preimage(q) : q \in {p}}
  BY <1>2 DEF decode_header, Then
<1> HIDE DEF p
<1>4. UNION {header_from_preimage(q) : q \in {p}} = header_from_preimage(p)
  OBVIOUS
<1> QED
  BY <1>1, <1>3, <1>4

\* ProvenShard: a shard and its Merkle proof.
IsChunk(c) ==
    /\ c = [shard |-> c.shard, proof |-> c.proof]
    /\ c.shard = [index |-> c.shard.index, payload |-> c.shard.payload]
    /\ c.proof = [leaf_index |-> c.proof.leaf_index, siblings |-> c.proof.siblings]
    /\ IsSeq(c.shard.payload) /\ IsSeq(c.proof.siblings)

\* A chunk decodes to itself.
LEMMA ChunkRound ==
  ASSUME NEW c, IsChunk(c)
  PROVE  /\ \E p : IsSeq(p) /\ encode_da_chunk(c) = encode(p)
         /\ decode_da_chunk(encode_da_chunk(c)) = Ok(c)
<1> DEFINE s == c.shard.payload
<1> DEFINE t == c.proof.siblings
<1> DEFINE a == <<c.shard.index>>
<1> DEFINE b == prefixed(s)
<1> DEFINE d == <<c.proof.leaf_index>>
<1> DEFINE e == prefixed(t)
<1> DEFINE w == a \o b
<1> DEFINE x == w \o d
<1> DEFINE p == x \o e
<1>1. encode_da_chunk(c) = encode(p) /\ IsJoin(p, x, e) /\ IsJoin(x, w, d) /\ IsJoin(w, a, b)
  BY DEF encode_da_chunk, IsJoin
<1>2. IsSeq(s) /\ IsSeq(t) /\ Len(s) \in Nat /\ Len(t) \in Nat
  BY LenIs DEF IsChunk
<1>3. IsSeq(a) /\ Len(a) = 1 /\ a[1] = c.shard.index /\ IsSeq(d) /\ Len(d) = 1 /\ d[1] = c.proof.leaf_index
  BY TupleIs
<1> HIDE DEF s, t, a, d, w, x, p
<1>4. IsSeq(b) /\ Len(b) = Len(s) + 1 /\ IsSeq(e) /\ Len(e) = Len(t) + 1
  BY <1>2, PrefixedIs
<1> HIDE DEF b, e
<1>5. IsSeq(w) /\ Len(w) = Len(a) + Len(b) /\ Holds(w, 1, a) /\ Holds(w, 1 + Len(a), b)
  <2>1. IsSeq(a) /\ IsSeq(b)
    BY <1>3, <1>4
  <2> QED
    BY <1>1, <2>1, Joined
<1>6. IsSeq(x) /\ Len(x) = Len(w) + Len(d)
  <2>1. IsSeq(w) /\ IsSeq(d)
    BY <1>3, <1>5
  <2> QED
    BY <1>1, <2>1, Joined
<1>7. IsSeq(p) /\ Len(p) = Len(x) + Len(e) /\ Holds(p, 1, x) /\ Holds(p, 1 + Len(x), e)
  <2>1. IsSeq(x) /\ IsSeq(e)
    BY <1>4, <1>6
  <2> QED
    BY <1>1, <2>1, Joined
<1>8. Holds(p, 1, w) /\ Holds(p, 1 + Len(w), d)
  BY <1>1, <1>3, <1>5, <1>7, HoldsParts DEF IsJoin
<1>9. Holds(p, 1, a) /\ Holds(p, 1 + Len(a), b)
  BY <1>1, <1>3, <1>4, <1>8, HoldsParts DEF IsJoin
<1>10. /\ Len(w) = Len(s) + 2 /\ Len(x) = Len(s) + 3 /\ Len(p) = Len(s) + 3 + (Len(t) + 1)
       /\ 1 + Len(a) = 2 /\ 1 + Len(w) = Len(s) + 3 /\ 1 + Len(x) = Len(s) + 4
  BY <1>2, <1>3, <1>4, <1>5, <1>6, <1>7
<1>11. p[1] = c.shard.index
  <2>1. \A j \in 1 .. Len(a) : p[j] = a[j]
    BY <1>9, HoldsFirst
  <2> QED
    BY <1>3, <2>1
<1>12. p[2] = Len(s) /\ SubSeq(p, 2 + 1, 2 + Len(s)) = s
  <2>1. Holds(p, 2, prefixed(s))
    BY <1>9, <1>10 DEF b
  <2> QED
    BY <1>2, <2>1, HoldsPrefixed
<1> DEFINE i == 3 + p[2]
<1>13. i = Len(s) + 3 /\ i \in Nat /\ i - 1 = 2 + Len(s) /\ i + 1 = Len(s) + 4
  BY <1>2, <1>12
<1> HIDE DEF i
<1>14. p[i] = c.proof.leaf_index
  <2>1. Holds(p, i, d)
    BY <1>8, <1>10, <1>13
  <2>2. 1 \in 1 .. Len(d)
    BY <1>3
  <2>3. p[i + 1 - 1] = d[1]
    BY <1>13, <2>1, <2>2, HoldsAt
  <2>4. i + 1 - 1 = i
    BY <1>13
  <2> QED
    BY <1>3, <2>3, <2>4
<1>15. p[i + 1] = Len(t) /\ SubSeq(p, (i + 1) + 1, (i + 1) + Len(t)) = t
  <2>1. Holds(p, i + 1, prefixed(t))
    BY <1>7, <1>10, <1>13 DEF e
  <2> QED
    BY <1>2, <2>1, HoldsPrefixed
<1>16. /\ i + 1 + p[i + 1] = Len(p) /\ (i + 1) + 1 = i + 2 /\ (i + 1) + Len(t) = Len(p)
       /\ ~(Len(p) < 2 \/ 2 + p[2] + 2 > Len(p))
  BY <1>2, <1>10, <1>12, <1>13, <1>15
<1> DEFINE G(q) ==
      IF Len(q) < 2 \/ 2 + q[2] + 2 > Len(q) THEN Err
      ELSE LET k == 3 + q[2]
           IN  IF k + 1 + q[k + 1] # Len(q) THEN Err
               ELSE Ok([shard |-> [index |-> q[1], payload |-> SubSeq(q, 3, k - 1)],
                        proof |-> [leaf_index |-> q[k], siblings |-> SubSeq(q, k + 2, Len(q))]])
<1>17. decode_da_chunk(encode(p)) = UNION {G(q) : q \in decode(encode(p))}
  BY DEF decode_da_chunk, Then
<1>18. decode(encode(p)) = {p}
  BY <1>7, DecodeEncode DEF Ok
<1>19. G(p) = Ok([shard |-> [index |-> p[1], payload |-> SubSeq(p, 3, i - 1)],
                  proof |-> [leaf_index |-> p[i], siblings |-> SubSeq(p, i + 2, Len(p))]])
  BY <1>16 DEF i
<1>20. SubSeq(p, 3, i - 1) = s /\ SubSeq(p, i + 2, Len(p)) = t
  <2>1. SubSeq(p, 3, 2 + Len(s)) = s
    BY <1>12
  <2>2. SubSeq(p, i + 2, Len(p)) = t
    BY <1>15, <1>16
  <2> QED
    BY <1>13, <2>1, <2>2
<1>21. G(p) = Ok(c)
  <2>1. [index |-> p[1], payload |-> SubSeq(p, 3, i - 1)] = c.shard
    BY <1>11, <1>20 DEF IsChunk, s
  <2>2. [leaf_index |-> p[i], siblings |-> SubSeq(p, i + 2, Len(p))] = c.proof
    BY <1>14, <1>20 DEF IsChunk, t
  <2>3. [shard |-> c.shard, proof |-> c.proof] = c
    BY DEF IsChunk
  <2> HIDE DEF G
  <2> QED
    BY <1>19, <2>1, <2>2, <2>3
<1> HIDE DEF G
<1>22. UNION {G(q) : q \in {p}} = G(p)
  OBVIOUS
<1> QED
  BY <1>1, <1>7, <1>17, <1>18, <1>21, <1>22

\* Where encode_body_offer puts the header, the body, the hash and the receipts.
LEMMA OfferLayout ==
  ASSUME NEW o, IsOffer(o),
         NEW inner, inner = encode_body_offer(o),
         NEW h, h = hash_preimage(o.header), NEW body, body = encode_block_body(o.block)
  PROVE  /\ IsSeq(inner) /\ IsSeq(h) /\ IsSeq(body)
         /\ take(inner, 1) = Ok([item |-> h, next |-> Len(h) + 2])
         /\ take(inner, Len(h) + 2) = Ok([item |-> body, next |-> Len(h) + Len(body) + 3])
         /\ inner[Len(h) + Len(body) + 3] = o.app_hash
         /\ inner[Len(h) + Len(body) + 4] = Len(o.receipts)
         /\ Len(h) + Len(body) + 4 <= Len(inner)
         /\ Len(h) \in Nat /\ Len(body) \in Nat /\ Len(inner) \in Nat
         /\ take_all(inner, Len(h) + Len(body) + 5, Len(o.receipts))
              = Ok([items |-> o.receipts, next |-> Len(inner) + 1])
<1> DEFINE a == prefixed(h)
<1> DEFINE b == prefixed(body)
<1> DEFINE c == <<o.app_hash, Len(o.receipts)>>
<1> DEFINE d == prefixed_all(o.receipts)
<1> DEFINE ab == a \o b
<1> DEFINE abc == ab \o c
<1>1. IsJoin(ab, a, b) /\ IsJoin(abc, ab, c) /\ IsJoin(inner, abc, d)
  BY DEF IsJoin, encode_body_offer
<1>2. IsSeq(h)
  BY HeaderRound DEF IsOffer
<1>3. IsSeq(body)
  BY BodyRound DEF IsOffer
<1>4. IsSeq(a) /\ Len(a) = Len(h) + 1 /\ Len(h) \in Nat
  BY <1>2, PrefixedIs
<1>5. IsSeq(b) /\ Len(b) = Len(body) + 1 /\ Len(body) \in Nat
  BY <1>3, PrefixedIs
<1>6. IsSeq(c) /\ Len(c) = 2 /\ c[1] = o.app_hash /\ c[2] = Len(o.receipts)
  BY TupleIs
<1>7. IsSeq(d)
  BY PrefixedAllIs DEF IsOffer
<1> HIDE DEF a, b, c, d, ab, abc
<1>8. IsSeq(ab) /\ Len(ab) = Len(a) + Len(b)
  <2>1. IsSeq(a) /\ IsSeq(b)
    BY <1>4, <1>5
  <2> QED
    BY <1>1, <2>1, Joined
<1>9. IsSeq(abc) /\ Len(abc) = Len(ab) + Len(c)
  <2>1. IsSeq(ab) /\ IsSeq(c)
    BY <1>6, <1>8
  <2> QED
    BY <1>1, <2>1, Joined
<1>10. IsSeq(inner) /\ Len(inner) = Len(abc) + Len(d) /\ Len(d) \in Nat
       /\ Holds(inner, 1, abc) /\ Holds(inner, 1 + Len(abc), d)
  <2>1. IsSeq(abc) /\ IsSeq(d)
    BY <1>7, <1>9
  <2> QED
    BY <1>1, <2>1, Joined
<1>11. Holds(inner, 1, ab) /\ Holds(inner, 1 + Len(ab), c)
  <2>1. IsSeq(ab) /\ IsSeq(c)
    BY <1>6, <1>8
  <2> QED
    BY <1>1, <1>10, <2>1, HoldsParts DEF IsJoin
<1>12. Holds(inner, 1, a) /\ Holds(inner, 1 + Len(a), b)
  <2>1. IsSeq(a) /\ IsSeq(b)
    BY <1>4, <1>5
  <2> QED
    BY <1>1, <1>11, <2>1, HoldsParts DEF IsJoin
<1>13. /\ 1 + Len(a) = Len(h) + 2 /\ 1 + Len(ab) = Len(h) + Len(body) + 3
       /\ 1 + Len(abc) = Len(h) + Len(body) + 5
       /\ (1 + Len(abc)) + Len(d) = Len(inner) + 1
  BY <1>4, <1>5, <1>6, <1>8, <1>9, <1>10
<1>14. take(inner, 1) = Ok([item |-> h, next |-> Len(h) + 2])
  <2>1. Holds(inner, 1, prefixed(h))
    BY <1>12 DEF a
  <2>2. take(inner, 1) = Ok([item |-> h, next |-> 1 + Len(h) + 1])
    BY <1>2, <2>1, TakePrefixed
  <2>3. 1 + Len(h) + 1 = Len(h) + 2
    BY <1>4
  <2> QED
    BY <2>2, <2>3
<1>15. take(inner, Len(h) + 2) = Ok([item |-> body, next |-> Len(h) + Len(body) + 3])
  <2>1. Holds(inner, 1 + Len(a), prefixed(body))
    BY <1>12 DEF b
  <2>2. take(inner, 1 + Len(a)) = Ok([item |-> body, next |-> 1 + Len(a) + Len(body) + 1])
    BY <1>3, <2>1, TakePrefixed
  <2>3. 1 + Len(a) + Len(body) + 1 = Len(h) + Len(body) + 3
    BY <1>4, <1>5
  <2> QED
    BY <1>13, <2>2, <2>3
<1>16. /\ inner[Len(h) + Len(body) + 3] = o.app_hash
       /\ inner[Len(h) + Len(body) + 4] = Len(o.receipts)
  <2>1. inner[1 + Len(ab)] = c[1] /\ inner[(1 + Len(ab)) + 1] = c[2]
    <3>1. Len(c) >= 1 /\ Len(c) >= 2
      BY <1>6
    <3> QED
      BY <1>11, <3>1, HoldsAt
  <2>2. (1 + Len(ab)) + 1 = Len(h) + Len(body) + 4
    BY <1>13, <1>4, <1>5
  <2> QED
    BY <1>6, <1>13, <2>1, <2>2
<1>17. take_all(inner, Len(h) + Len(body) + 5, Len(o.receipts))
              = Ok([items |-> o.receipts, next |-> Len(inner) + 1])
  <2>1. Strings(o.receipts)
    BY DEF IsOffer
  <2>2. Holds(inner, 1 + Len(abc), prefixed_all(o.receipts))
    BY <1>10 DEF d
  <2>3. take_all(inner, 1 + Len(abc), Len(o.receipts))
              = Ok([items |-> o.receipts, next |-> (1 + Len(abc)) + Len(prefixed_all(o.receipts))])
    BY <2>1, <2>2, TakeAllPrefixed
  <2> QED
    BY <1>13, <2>3 DEF d
<1>18. Len(h) + Len(body) + 4 <= Len(inner) /\ Len(inner) \in Nat
  BY <1>4, <1>5, <1>6, <1>8, <1>9, <1>10
<1> QED
  BY <1>2, <1>3, <1>4, <1>5, <1>10, <1>14, <1>15, <1>16, <1>17, <1>18

\* A body offer decodes to itself.
LEMMA OfferRound ==
  ASSUME NEW o, IsOffer(o)
  PROVE  IsSeq(encode_body_offer(o)) /\ decode_body_offer(encode_body_offer(o)) = Ok(o)
<1> DEFINE inner == encode_body_offer(o)
<1> DEFINE h == hash_preimage(o.header)
<1> DEFINE body == encode_block_body(o.block)
<1> DEFINE i == Len(h) + Len(body) + 3
<1>1. /\ IsSeq(inner) /\ IsSeq(h) /\ IsSeq(body)
      /\ take(inner, 1) = Ok([item |-> h, next |-> Len(h) + 2])
      /\ take(inner, Len(h) + 2) = Ok([item |-> body, next |-> i])
      /\ inner[i] = o.app_hash
      /\ inner[Len(h) + Len(body) + 4] = Len(o.receipts)
      /\ Len(h) + Len(body) + 4 <= Len(inner)
      /\ Len(h) \in Nat /\ Len(body) \in Nat /\ Len(inner) \in Nat
      /\ take_all(inner, Len(h) + Len(body) + 5, Len(o.receipts))
           = Ok([items |-> o.receipts, next |-> Len(inner) + 1])
  BY OfferLayout
<1>2. header_from_preimage(h) = Ok(o.header)
  BY HeaderRound DEF IsOffer
<1>3. decode_block_body(body) = Ok(o.block)
  BY BodyRound DEF IsOffer
<1> DEFINE D4(header, got, block, rest) ==
      IF rest.next # Len(inner) + 1 THEN Err
      ELSE Ok([header |-> header, block |-> block, app_hash |-> inner[got.next],
               receipts |-> rest.items])
<1> DEFINE D3(header, got, block) ==
      IF got.next + 1 > Len(inner) THEN Err
      ELSE UNION {D4(header, got, block, rest) :
                    rest \in take_all(inner, got.next + 2, inner[got.next + 1])}
<1> DEFINE D2(header, got) ==
      UNION {D3(header, got, block) : block \in decode_block_body(got.item)}
<1> DEFINE D1(pre, header) == UNION {D2(header, got) : got \in take(inner, pre.next)}
<1> DEFINE D0(pre) == UNION {D1(pre, header) : header \in header_from_preimage(pre.item)}
<1>4. decode_body_offer(inner) = UNION {D0(pre) : pre \in take(inner, 1)}
  BY DEF decode_body_offer, Then
<1> DEFINE pre == [item |-> h, next |-> Len(h) + 2]
<1> DEFINE got == [item |-> body, next |-> i]
<1> DEFINE rest == [items |-> o.receipts, next |-> Len(inner) + 1]
<1> HIDE DEF inner, h, body
<1>5. i + 1 = Len(h) + Len(body) + 4 /\ i + 2 = Len(h) + Len(body) + 5 /\ ~(i + 1 > Len(inner))
  BY <1>1
<1> HIDE DEF i
<1>6. D4(o.header, got, o.block, rest) = Ok(o)
  <2>1. D4(o.header, got, o.block, rest)
          = Ok([header |-> o.header, block |-> o.block, app_hash |-> o.app_hash,
                receipts |-> o.receipts])
    BY <1>1
  <2> QED
    BY <2>1 DEF IsOffer
<1> HIDE DEF D4
<1>7. D3(o.header, got, o.block) = UNION {D4(o.header, got, o.block, r) : r \in {rest}}
  BY <1>1, <1>5 DEF Ok
<1> HIDE DEF D3
<1>8. D2(o.header, got) = UNION {D3(o.header, got, b) : b \in {o.block}}
  BY <1>3 DEF Ok
<1> HIDE DEF D2, got
<1>9. D1(pre, o.header) = UNION {D2(o.header, g) : g \in {got}}
  BY <1>1 DEF Ok, got
<1> HIDE DEF D1
<1>10. D0(pre) = UNION {D1(pre, x) : x \in {o.header}}
  BY <1>2 DEF Ok
<1> HIDE DEF D0, pre, rest
<1>11. decode_body_offer(inner) = UNION {D0(x) : x \in {pre}}
  BY <1>1, <1>4 DEF Ok, pre
<1>12. decode_body_offer(inner) = D0(pre)
  BY <1>11
<1>13. D0(pre) = D1(pre, o.header)
  BY <1>10
<1>14. D1(pre, o.header) = D2(o.header, got)
  BY <1>9
<1>15. D2(o.header, got) = D3(o.header, got, o.block)
  BY <1>8
<1>16. D3(o.header, got, o.block) = D4(o.header, got, o.block, rest)
  BY <1>7
<1> QED
  BY <1>1, <1>6, <1>12, <1>13, <1>14, <1>15, <1>16 DEF inner

\* A frame gives back its kind and what it holds (encode_frame, decode_frame).
LEMMA FrameRound ==
  ASSUME NEW k \in DOMAIN Kinds, NEW inner, IsSeq(inner)
  PROVE  /\ IsSeq(<<Kinds[k]>> \o inner) /\ encode_frame(k, inner) = encode(<<Kinds[k]>> \o inner)
         /\ decode_frame(encode_frame(k, inner)) = Ok([kind |-> k, inner |-> inner])
<1> DEFINE a == <<Kinds[k]>>
<1> DEFINE p == a \o inner
<1>1. IsSeq(a) /\ Len(a) = 1 /\ a[1] = Kinds[k]
  BY TupleIs
<1>2. IsJoin(p, a, inner) /\ encode_frame(k, inner) = encode(p)
  BY DEF IsJoin, encode_frame
<1> HIDE DEF a, p
<1>3. /\ IsSeq(p) /\ Len(p) = Len(a) + Len(inner)
      /\ \A j \in 1 .. Len(a) : p[j] = a[j]
      /\ Len(inner) \in Nat /\ Holds(p, 1 + Len(a), inner)
  <2>1. IsSeq(a)
    BY <1>1
  <2> QED
    BY <1>2, <2>1, Joined
<1>4. /\ DOMAIN Kinds = {"Tx", "Proposal", "Vote", "Block", "Evidence", "Header", "DaChunk"}
      /\ \A x \in DOMAIN Kinds : Kinds[x] \in 1 .. 7
      /\ \A x, y \in DOMAIN Kinds : Kinds[x] = Kinds[y] => x = y
  BY DEF Kinds
<1>5. p[1] = Kinds[k] /\ Len(p) = Len(inner) + 1
  BY <1>1, <1>3
<1>6. p # <<>>
  BY <1>3, <1>5, TupleIs
<1>7. (CHOOSE x \in DOMAIN Kinds : Kinds[x] = p[1]) = k
  BY <1>4, <1>5
<1>8. Tail(p) = inner
  <2>1. SubSeq(p, 2, 1 + Len(inner)) = inner
    <3>1. Holds(p, 2, inner)
      BY <1>1, <1>3
    <3>2. SubSeq(p, 2, 2 + Len(inner) - 1) = inner
      BY <3>1, HoldsSub
    <3>3. 2 + Len(inner) - 1 = 1 + Len(inner)
      BY <1>3
    <3> QED
      BY <3>2, <3>3
  <2>2. p \in Seq({p[i] : i \in DOMAIN p})
    BY <1>3 DEF IsSeq
  <2>3. Tail(p) = SubSeq(p, 2, Len(p))
    BY <1>6, <2>2, HeadTailProperties
  <2> QED
    BY <1>3, <1>5, <2>1, <2>3
<1> DEFINE G(q) ==
      IF q = <<>> \/ q[1] \notin 1 .. 7 THEN Err
      ELSE Ok([kind |-> CHOOSE x \in DOMAIN Kinds : Kinds[x] = q[1], inner |-> Tail(q)])
<1>9. decode_frame(encode(p)) = UNION {G(q) : q \in decode(encode(p))}
  BY DEF decode_frame, Then
<1>10. decode(encode(p)) = {p}
  BY <1>3, DecodeEncode DEF Ok
<1>11. G(p) = Ok([kind |-> k, inner |-> inner])
  BY <1>4, <1>5, <1>6, <1>7, <1>8
<1> HIDE DEF G
<1>12. UNION {G(q) : q \in {p}} = G(p)
  OBVIOUS
<1> QED
  BY <1>2, <1>3, <1>9, <1>10, <1>11, <1>12 DEF a, p

\* A frame that is cut off or has bytes after it is refused.
LEMMA FrameMisframed ==
  ASSUME NEW k \in DOMAIN Kinds, NEW inner, IsSeq(inner),
         NEW b \in Misframed(encode_frame(k, inner))
  PROVE  decode_frame(b) = Err
<1>1. decode(b) = {}
  BY FrameRound, DecodeMisframed DEF Err
<1> QED
  BY <1>1 DEF decode_frame, Then, Err

\* A receipt encodes to a string.
LEMMA ReceiptIs ==
  ASSUME NEW r, IsSeq(r.events), \A i \in 1 .. Len(r.events) : IsSeq(EventBytes(r.events[i]))
  PROVE  IsSeq(receipt_encode(r))
<1> DEFINE a == <<r.success, r.gas_used, r.reason, Len(r.events)>>
<1> DEFINE list == [i \in 1 .. Len(r.events) |-> EventBytes(r.events[i])]
<1> DEFINE b == FlattenSeq(list)
<1>1. IsSeq(a)
  BY TupleIs
<1>2. Len(r.events) \in Nat
  BY LenIs
<1>3. IsSeq(list) /\ Len(list) = Len(r.events)
  <2>1. list = [i \in 1 .. Len(r.events) |-> list[i]]
    OBVIOUS
  <2> HIDE DEF list
  <2> QED
    BY <1>2, <2>1, MadeSeq
<1>4. Strings(list)
  BY <1>3 DEF Strings
<1> HIDE DEF list
<1>5. IsSeq(b)
  BY <1>4, UptoIsSeq
<1>6. receipt_encode(r) = encode(a \o b)
  BY DEF receipt_encode, list
<1> HIDE DEF a, b
<1>7. IsSeq(a \o b)
  BY <1>1, <1>5, Concat
<1> QED
  BY <1>6, <1>7, EncodeIs

\* So is the receipt of any transaction.
LEMMA ReceiptOfIs ==
  ASSUME NEW tx
  PROVE  IsSeq(ReceiptOf(tx))
<1> DEFINE e == [kind |-> "Stake", from |-> tx.public_key, amount |-> 1]
<1> DEFINE r == [success |-> 1, gas_used |-> tx.tx.gas_limit, reason |-> 0, events |-> <<e>>]
<1>1. EventBytes(e) = <<1, tx.public_key, 1>>
  BY DEF EventBytes
<1>2. IsSeq(EventBytes(e))
  BY <1>1, TupleIs
<1>3. r.events = <<e>> /\ ReceiptOf(tx) = receipt_encode(r)
  BY DEF ReceiptOf
<1> HIDE DEF e, r
<1>4. IsSeq(<<e>>) /\ Len(<<e>>) = 1
  BY TupleIs
<1>5. \A i \in 1 .. Len(r.events) : IsSeq(EventBytes(r.events[i]))
  BY <1>2, <1>3, <1>4
<1>6. IsSeq(receipt_encode(r))
  BY <1>3, <1>4, <1>5, ReceiptIs
<1> QED
  BY <1>3, <1>6

\* What the assumption on the bodies says of one of them.
LEMMA BodyIs ==
  ASSUME NEW h \in Heights
  PROVE  /\ IsSeq(Bodies[h + 1]) /\ Len(Bodies[h + 1]) \in Nat /\ h \in Nat /\ h + 1 \in 1 .. Len(Bodies)
         /\ \A i \in 1 .. Len(Bodies[h + 1]) : IsSignedTx(Bodies[h + 1][i]) /\ ingest_tx(Bodies[h + 1][i])
<1>1. Len(Bodies) \in Nat
  BY BodiesAssumption, LenIs
<1>2. h + 1 \in 1 .. Len(Bodies) /\ h \in Nat
  BY <1>1 DEF Heights
<1>3. IsSeq(Bodies[h + 1])
  BY <1>2, BodiesAssumption
<1> QED
  BY <1>2, <1>3, BodiesAssumption, LenIs

\* The committed offer of a height is one.
LEMMA CommittedIs ==
  ASSUME NEW h \in Heights
  PROVE  /\ IsHeader(CommittedHeader(h)) /\ IsBlock(BlockAt(h)) /\ Strings(ReceiptsAt(h))
         /\ IsOffer(Committed(h)) /\ Chain[h] = Committed(h)
<1>1. IsFields(FieldsAt(h))
  BY DEF IsFields, FieldsAt
<1>2. IsHeader(CommittedHeader(h))
  <2>1. CommittedHeader(h).fields = FieldsAt(h)
    BY DEF CommittedHeader
  <2>2. CommittedHeader(h) = [fields |-> CommittedHeader(h).fields, tx_root |-> CommittedHeader(h).tx_root,
            state_root |-> CommittedHeader(h).state_root,
            receipts_root |-> CommittedHeader(h).receipts_root,
            validators_hash |-> CommittedHeader(h).validators_hash,
            da_root |-> CommittedHeader(h).da_root]
    BY DEF CommittedHeader
  <2> QED
    BY <1>1, <2>1, <2>2 DEF IsHeader
<1>3. IsBlock(BlockAt(h))
  <2>1. BlockAt(h).header_fields = FieldsAt(h) /\ BlockAt(h).txs = Bodies[h + 1]
        /\ BlockAt(h) = [header_fields |-> BlockAt(h).header_fields, txs |-> BlockAt(h).txs]
    BY DEF BlockAt
  <2> QED
    BY <1>1, <2>1, BodyIs DEF IsBlock
<1>4. Strings(ReceiptsAt(h))
  <2> DEFINE f == ReceiptsAt(h)
  <2> DEFINE n == Len(Bodies[h + 1])
  <2>1. n \in Nat
    BY BodyIs
  <2>2. f = [i \in 1 .. n |-> f[i]]
    BY DEF ReceiptsAt
  <2>3. \A i \in 1 .. n : f[i] = ReceiptOf(Bodies[h + 1][i])
    BY DEF ReceiptsAt
  <2> HIDE DEF f, n
  <2>4. IsSeq(f) /\ Len(f) = n
    BY <2>1, <2>2, MadeSeq
  <2>5. \A i \in 1 .. Len(f) : IsSeq(f[i])
    BY <2>3, <2>4, ReceiptOfIs
  <2> QED
    BY <2>4, <2>5 DEF Strings, f
<1>5. Committed(h).header = CommittedHeader(h) /\ Committed(h).block = BlockAt(h)
      /\ Committed(h).receipts = ReceiptsAt(h)
      /\ Committed(h) = [header |-> Committed(h).header, block |-> Committed(h).block,
            receipts |-> Committed(h).receipts, app_hash |-> Committed(h).app_hash]
  BY DEF Committed
<1>6. IsOffer(Committed(h))
  BY <1>2, <1>3, <1>4, <1>5 DEF IsOffer
<1> QED
  BY <1>2, <1>3, <1>4, <1>6 DEF Chain

\* The offer a frame decodes to, if it does.
OfferIn(frame) ==
    Then(decode_frame(frame), LAMBDA f :
      IF f.kind = "Block" THEN decode_body_offer(f.inner) ELSE Err)

\* The frame of an offer decodes to it, and a misframed one to nothing.
LEMMA OfferInFrame ==
  ASSUME NEW o, IsOffer(o)
  PROVE  /\ OfferIn(OfferFrame(o)) = {o}
         /\ \A b \in Misframed(OfferFrame(o)) : OfferIn(b) = {}
<1> DEFINE inner == encode_body_offer(o)
<1>1. IsSeq(inner) /\ decode_body_offer(inner) = {o}
  BY OfferRound DEF Ok
<1>2. "Block" \in DOMAIN Kinds
  BY DEF Kinds
<1> HIDE DEF inner
<1>3. decode_frame(OfferFrame(o)) = {[kind |-> "Block", inner |-> inner]}
  BY <1>1, <1>2, FrameRound DEF OfferFrame, inner, Ok
<1> DEFINE G(f) == IF f.kind = "Block" THEN decode_body_offer(f.inner) ELSE Err
<1>4. \A b : OfferIn(b) = UNION {G(f) : f \in decode_frame(b)}
  BY DEF OfferIn, Then
<1> DEFINE r == [kind |-> "Block", inner |-> inner]
<1>5. G(r) = {o}
  BY <1>1
<1> HIDE DEF G
<1>6. OfferIn(OfferFrame(o)) = UNION {G(f) : f \in {r}}
  BY <1>3, <1>4
<1> HIDE DEF r
<1>7. OfferIn(OfferFrame(o)) = {o}
  BY <1>5, <1>6
<1>8. \A b \in Misframed(OfferFrame(o)) : decode_frame(b) = {}
  BY <1>1, <1>2, FrameMisframed DEF OfferFrame, inner, Err
<1>9. \A b \in Misframed(OfferFrame(o)) : OfferIn(b) = {}
  BY <1>4, <1>8
<1> QED
  BY <1>7, <1>9

\* What peers may offer: the committed blocks and the stray ones.
Offered == {Chain[h] : h \in Heights} \cup Stray

\* Each is an offer of some height.
LEMMA OfferedIs ==
  ASSUME NEW o \in Offered
  PROVE  IsOffer(o) /\ o.header.fields.height \in Nat
<1>1. CASE o \in Stray
  BY <1>1, SyncAssumption
<1>2. ASSUME NEW h \in Heights, o = Chain[h] PROVE IsOffer(o) /\ o.header.fields.height \in Nat
  <2>1. IsOffer(Chain[h]) /\ Chain[h] = Committed(h)
    BY CommittedIs
  <2>2. Committed(h).header.fields.height = h
    BY DEF Committed, CommittedHeader, FieldsAt
  <2>3. h \in Nat
    BY BodyIs
  <2> QED
    BY <1>2, <2>1, <2>2, <2>3
<1> QED
  BY <1>1, <1>2 DEF Offered

\* handle_block keeps the offer that the frame decodes to, if it does.
LEMMA HandleIs ==
  ASSUME NEW frame, handle_block(frame)
  PROVE  IF OfferIn(frame) = {} THEN UNCHANGED <<sync_offers, store, node, adopted>>
         ELSE \E offer \in OfferIn(frame) :
                /\ sync_offers' = Insert(sync_offers, offer.header.fields.height,
                                         [offer |-> offer, frame |-> frame])
                /\ try_catchup([h \in DOMAIN sync_offers' |-> sync_offers'[h].offer])
  BY Zenon DEF handle_block, OfferIn, Err

\* handle_block on the frame of an offer keeps it and tries to catch up.
LEMMA HandleOffer ==
  ASSUME NEW o \in Offered, handle_block(OfferFrame(o))
  PROVE  /\ sync_offers' = Put(sync_offers, o.header.fields.height, [offer |-> o, frame |-> OfferFrame(o)])
         /\ try_catchup([k \in DOMAIN sync_offers' |-> sync_offers'[k].offer])
<1>1. OfferIn(OfferFrame(o)) = {o}
  BY OfferedIs, OfferInFrame
<1>2. \E offer \in OfferIn(OfferFrame(o)) :
         /\ sync_offers' = Insert(sync_offers, offer.header.fields.height,
                                  [offer |-> offer, frame |-> OfferFrame(o)])
         /\ try_catchup([k \in DOMAIN sync_offers' |-> sync_offers'[k].offer])
  BY <1>1, HandleIs
<1> QED
  BY <1>1, <1>2 DEF Insert

\* handle_block on a misframed one changes nothing.
LEMMA HandleMisframed ==
  ASSUME NEW h \in Heights, NEW f \in Misframed(ChainFrames[h]), handle_block(f)
  PROVE  UNCHANGED <<sync_offers, store, node, adopted>>
<1>1. ChainFrames[h] = OfferFrame(Chain[h]) /\ IsOffer(Chain[h])
  BY CommittedIs DEF ChainFrames
<1>2. OfferIn(f) = {}
  BY <1>1, OfferInFrame
<1> QED
  BY <1>2, HandleIs

\* A frame of a block, from a validator or not.
Delivery == (\E h \in Heights : DeliverOffer(h)) \/ (\E f \in StrayFrames : DeliverStray(f))

\* No other step touches what the follower catches up with, or the chunk it heard.
LEMMA NoDelivery ==
  ASSUME [Next]_vars, ~Delivery
  PROVE  /\ UNCHANGED <<sync_offers, node, adopted>>
         /\ (\E f \in Frames : Hear(f)) \/ UNCHANGED heard
<1>1. CASE UNCHANGED vars
  BY <1>1 DEF vars
<1>2. CASE Publish
  BY <1>2 DEF Publish
<1>3. ASSUME NEW h \in Heights, bootstrap([height |-> h, header_hash |-> hash_preimage(Chain[h].header)])
      PROVE  UNCHANGED <<sync_offers, node, adopted, heard>>
  BY <1>3 DEF bootstrap
<1>4. ASSUME NEW f \in Frames, Hear(f) PROVE UNCHANGED <<sync_offers, node, adopted>>
  <2>1. UNCHANGED <<topics, published, sync_offers, store, node, adopted, held, damage>>
    BY <1>4, Zenon DEF Hear
  <2> QED
    BY <2>1
<1>5. ASSUME NEW f, HearChunk(f) PROVE UNCHANGED <<sync_offers, node, adopted, heard>>
  BY <1>5 DEF HearChunk
<1> QED
  BY <1>1, <1>2, <1>3, <1>4, <1>5 DEF Next, Delivery

\* What a delivery does to the follower: nothing, or an offer is kept.
LEMMA Delivered ==
  ASSUME Delivery
  PROVE  /\ UNCHANGED <<topics, published, held, heard>>
         /\ \/ UNCHANGED <<sync_offers, store, node, adopted>>
            \/ \E o \in Offered :
                  /\ sync_offers' = Put(sync_offers, o.header.fields.height,
                                        [offer |-> o, frame |-> OfferFrame(o)])
                  /\ try_catchup([k \in DOMAIN sync_offers' |-> sync_offers'[k].offer])
<1>1. ASSUME NEW h \in Heights, DeliverOffer(h)
      PROVE  /\ UNCHANGED <<topics, published, held, heard>>
             /\ \E o \in Offered : handle_block(OfferFrame(o))
  <2>1. ChainFrames[h] = OfferFrame(Chain[h]) /\ Chain[h] \in Offered
    BY DEF ChainFrames, Offered
  <2> QED
    BY <1>1, <2>1 DEF DeliverOffer
<1>2. ASSUME NEW f \in StrayFrames, DeliverStray(f)
      PROVE  /\ UNCHANGED <<topics, published, held, heard>>
             /\ \/ UNCHANGED <<sync_offers, store, node, adopted>>
                \/ \E o \in Offered : handle_block(OfferFrame(o))
  <2>1. handle_block(f) /\ UNCHANGED <<topics, published, held, heard>>
    BY <1>2 DEF DeliverStray
  <2>2. CASE \E h \in Heights : f \in Misframed(ChainFrames[h])
    BY <2>1, <2>2, HandleMisframed
  <2>3. CASE \E o \in Stray : f = OfferFrame(o)
    BY <2>1, <2>3 DEF Offered
  <2> QED
    BY <2>2, <2>3 DEF StrayFrames
<1> QED
  BY <1>1, <1>2, HandleOffer DEF Delivery

\* Inductive: the follower keeps under a height only offers of that height, with
\* the frame they came in, and finitely many.
OffersHeard ==
    /\ IsFiniteSet(DOMAIN sync_offers)
    /\ \A h \in DOMAIN sync_offers :
          /\ sync_offers[h].offer \in Offered
          /\ sync_offers[h].offer.header.fields.height = h
          /\ sync_offers[h].frame = OfferFrame(sync_offers[h].offer)

\* OffersHeard is inductive.
LEMMA OffersHeardStep ==
  ASSUME OffersHeard, [Next]_vars
  PROVE  OffersHeard'
<1>0. CASE UNCHANGED sync_offers
  BY <1>0 DEF OffersHeard
<1>1. CASE Delivery
  <2>1. ASSUME NEW o \in Offered,
               sync_offers' = Put(sync_offers, o.header.fields.height,
                                  [offer |-> o, frame |-> OfferFrame(o)])
        PROVE  OffersHeard'
    <3> DEFINE h == o.header.fields.height
    <3> HIDE DEF h
    <3>1. sync_offers' = Put(sync_offers, h, [offer |-> o, frame |-> OfferFrame(o)])
      BY <2>1 DEF h
    <3>2. DOMAIN sync_offers' = DOMAIN sync_offers \cup {h}
      BY <3>1 DEF Put
    <3>3. IsFiniteSet(DOMAIN sync_offers')
      BY <3>2, FS_AddElement DEF OffersHeard
    <3>4. ASSUME NEW k \in DOMAIN sync_offers'
          PROVE  /\ sync_offers'[k].offer \in Offered
                 /\ sync_offers'[k].offer.header.fields.height = k
                 /\ sync_offers'[k].frame = OfferFrame(sync_offers'[k].offer)
      <4>1. CASE k = h
        <5>1. sync_offers'[k] = [offer |-> o, frame |-> OfferFrame(o)]
          BY <3>1, <4>1 DEF Put
        <5>2. sync_offers'[k].offer = o /\ sync_offers'[k].frame = OfferFrame(o)
          BY <5>1
        <5> QED
          BY <2>1, <4>1, <5>2 DEF h
      <4>2. CASE k # h
        <5>1. k \in DOMAIN sync_offers /\ sync_offers'[k] = sync_offers[k]
          BY <3>1, <3>2, <4>2 DEF Put
        <5> QED
          BY <5>1 DEF OffersHeard
      <4> QED
        BY <4>1, <4>2
    <3> QED
      BY <3>3, <3>4 DEF OffersHeard
  <2> QED
    BY <1>0, <1>1, <2>1, Delivered
<1>2. CASE ~Delivery
  <2>1. UNCHANGED sync_offers
    BY <1>2, NoDelivery
  <2> QED
    BY <1>0, <2>1
<1> QED
  BY <1>1, <1>2

\* The payload of a message.
Inner(m) ==
    CASE m[1] = "Tx" -> encode_signed_tx(m[2])
      [] m[1] = "Header" -> encode_header(m[2])
      [] m[1] = "Vote" -> encode_vote(m[2])
      [] m[1] = "Proposal" -> encode_proposal(m[2])

\* A message of one of the kinds that a gate or a decoder is for.
IsMessage(m) ==
    \/ m[1] = "Tx" /\ IsSignedTx(m[2])
    \/ m[1] = "Header" /\ IsHeader(m[2])
    \/ m[1] = "Vote" /\ IsVote(m[2])
    \/ m[1] = "Proposal" /\ IsProposal(m[2])

\* The gate of its kind lets it in.
Passes(m) ==
    /\ m[1] = "Tx" => ingest_tx(m[2])
    /\ m[1] = "Vote" => ingest_validator_vote(m[2])
    /\ m[1] = "Proposal" => ingest_validator_proposal(m[2])

\* What is ingested of a message is that message, if the gate lets it in.
LEMMA Gates ==
  ASSUME NEW m, IsMessage(m)
  PROVE  /\ m[1] \in DOMAIN Kinds /\ IsSeq(Inner(m)) /\ FrameOf(m) = encode_frame(m[1], Inner(m))
         /\ \A x \in ingest(m[1], Inner(m)) : x = m[2] /\ Passes(m)
<1>0. {"Tx", "Header", "Vote", "Proposal"} \subseteq DOMAIN Kinds
  BY DEF Kinds
<1>1. FrameOf(m) = encode_frame(m[1], Inner(m))
  BY DEF FrameOf, Inner
<1>2. CASE m[1] = "Tx" /\ IsSignedTx(m[2])
  <2>1. Inner(m) = encode_signed_tx(m[2])
    BY <1>2 DEF Inner
  <2>2. IsSeq(encode_signed_tx(m[2])) /\ decode_signed_tx(encode_signed_tx(m[2])) = {m[2]}
    BY <1>2, SignedTxRound DEF Ok
  <2>3. ingest("Tx", encode_signed_tx(m[2]))
          = {x \in decode_signed_tx(encode_signed_tx(m[2])) : ingest_tx(x)}
    BY DEF ingest, Gate
  <2>4. \A x \in ingest(m[1], Inner(m)) : x = m[2] /\ ingest_tx(m[2])
    BY <1>2, <2>1, <2>2, <2>3
  <2> QED
    BY <1>0, <1>1, <1>2, <2>1, <2>2, <2>4 DEF Passes
<1>3. CASE m[1] = "Vote" /\ IsVote(m[2])
  <2>1. Inner(m) = encode_vote(m[2])
    BY <1>3 DEF Inner
  <2>2. decode_vote(encode_vote(m[2])) = {m[2]}
    BY <1>3, VoteRound DEF Ok
  <2>3. ingest("Vote", encode_vote(m[2])) = {x \in decode_vote(encode_vote(m[2])) : ingest_validator_vote(x)}
    BY DEF ingest, Gate
  <2>4. IsSeq(encode_vote(m[2]))
    BY <1>3, VoteRound, EncodeIs
  <2>5. \A x \in ingest(m[1], Inner(m)) : x = m[2] /\ ingest_validator_vote(m[2])
    BY <1>3, <2>1, <2>2, <2>3
  <2> QED
    BY <1>0, <1>1, <1>3, <2>1, <2>4, <2>5 DEF Passes
<1>4. CASE m[1] = "Proposal" /\ IsProposal(m[2])
  <2>1. Inner(m) = encode_proposal(m[2])
    BY <1>4 DEF Inner
  <2>2. decode_proposal(encode_proposal(m[2])) = {m[2]}
    BY <1>4, ProposalRound DEF Ok
  <2>3. ingest("Proposal", encode_proposal(m[2]))
          = {x \in decode_proposal(encode_proposal(m[2])) : ingest_validator_proposal(x)}
    BY DEF ingest, Gate
  <2>4. IsSeq(encode_proposal(m[2]))
    BY <1>4, ProposalRound, EncodeIs
  <2>5. \A x \in ingest(m[1], Inner(m)) : x = m[2] /\ ingest_validator_proposal(m[2])
    BY <1>4, <2>1, <2>2, <2>3
  <2> QED
    BY <1>0, <1>1, <1>4, <2>1, <2>4, <2>5 DEF Passes
<1>5. CASE m[1] = "Header" /\ IsHeader(m[2])
  <2>1. Inner(m) = encode_header(m[2])
    BY <1>5 DEF Inner
  <2>2. decode_header(encode_header(m[2])) = {m[2]}
    BY <1>5, HeaderFrameRound DEF Ok
  <2>3. ingest("Header", encode_header(m[2])) = decode_header(encode_header(m[2]))
    BY DEF ingest
  <2>4. IsSeq(encode_header(m[2]))
    BY <1>5, HeaderFrameRound, EncodeIs
  <2>5. \A x \in ingest(m[1], Inner(m)) : x = m[2]
    BY <1>5, <2>1, <2>2, <2>3
  <2> QED
    BY <1>0, <1>1, <1>5, <2>1, <2>4, <2>5 DEF Passes
<1> QED
  BY <1>2, <1>3, <1>4, <1>5 DEF IsMessage

\* What the gossip handler makes of a frame.
Ingested(frame) ==
    Then(decode_frame(frame), LAMBDA f :
      {[kind |-> f.kind, message |-> m, frame |-> frame] : m \in ingest(f.kind, f.inner)})

\* The frame of a message gives that message or nothing, a misframed one nothing.
LEMMA IngestedIs ==
  ASSUME NEW m, IsMessage(m)
  PROVE  /\ \A x \in Ingested(FrameOf(m)) :
               Passes(m) /\ x = [kind |-> m[1], message |-> m[2], frame |-> FrameOf(m)]
         /\ \A b \in Misframed(FrameOf(m)) : Ingested(b) = {}
<1> DEFINE F == FrameOf(m)
<1> DEFINE r == [kind |-> m[1], inner |-> Inner(m)]
<1> DEFINE G(b, f) == {[kind |-> f.kind, message |-> x, frame |-> b] : x \in ingest(f.kind, f.inner)}
<1>1. m[1] \in DOMAIN Kinds /\ IsSeq(Inner(m)) /\ F = encode_frame(m[1], Inner(m))
  BY Gates
<1>2. decode_frame(F) = {r}
  BY <1>1, FrameRound DEF Ok
<1>3. \A b \in Misframed(F) : decode_frame(b) = {}
  BY <1>1, FrameMisframed DEF Err
<1>4. \A b : Ingested(b) = UNION {G(b, f) : f \in decode_frame(b)}
  BY DEF Ingested, Then
<1>5. r.kind = m[1] /\ r.inner = Inner(m)
  OBVIOUS
<1> HIDE DEF F, r
<1>6. \A x \in G(F, r) : Passes(m) /\ x = [kind |-> m[1], message |-> m[2], frame |-> F]
  BY <1>5, Gates
<1> HIDE DEF G
<1>7. \A x \in Ingested(F) : Passes(m) /\ x = [kind |-> m[1], message |-> m[2], frame |-> F]
  BY <1>2, <1>4, <1>6
<1>8. \A b \in Misframed(F) : Ingested(b) = {}
  BY <1>3, <1>4
<1> QED
  BY <1>7, <1>8 DEF F

\* The transaction is signed.
LEMMA TheTxIs == IsSignedTx(TheTx) /\ ingest_tx(TheTx)
<1>1. Len(Bodies) \in Nat /\ 1 \in 1 .. Len(Bodies)
  BY BodiesAssumption, LenIs
<1>2. IsSeq(Bodies[1])
  BY <1>1, BodiesAssumption
<1>3. 1 \in 1 .. Len(Bodies[1])
  BY <1>2, BodiesAssumption, LenIs
<1> QED
  BY <1>1, <1>3, BodiesAssumption DEF TheTx

\* The votes that are sent, with their signatures.
LEMMA TheVoteIs ==
  \E s, b :
     /\ TheVote.signer = s /\ b = Some(b[1])
     /\ TheVote = [signer |-> s, height |-> 0, round |-> 0, kind |-> 1, block |-> b,
                   signature |-> Signature(s, <<"vote", 0, 0, 1, b>>)]
     /\ NilVote = [signer |-> s, height |-> 0, round |-> 0, kind |-> 1, block |-> Absent,
                   signature |-> Signature(s, <<"vote", 0, 0, 1, Absent>>)]
<1> DEFINE s == CHOOSE v \in Validators : TRUE
<1> DEFINE b == Some(hash_preimage(CommittedHeader(0)))
<1> DEFINE g == Signature(s, <<"vote", 0, 0, 1, b>>)
<1>1. TheVote = [signer |-> s, height |-> 0, round |-> 0, kind |-> 1, block |-> b, signature |-> g]
  <2> DEFINE v == [height |-> 0, round |-> 0, kind |-> 1, block |-> b, signer |-> s, signature |-> 0]
  <2>1. TheVote = [v EXCEPT !.signature = Signature(v.signer, VoteMessage(v))]
    BY DEF TheVote
  <2>2. v.signer = s /\ VoteMessage(v) = <<"vote", 0, 0, 1, b>>
    BY DEF VoteMessage
  <2> HIDE DEF b, s
  <2>3. TheVote = [v EXCEPT !.signature = g]
    BY <2>1, <2>2
  <2> HIDE DEF g
  <2> QED
    BY <2>3
<1>2. b = Some(b[1])
  BY DEF Some
<1> HIDE DEF b, g, s
<1>3. NilVote = [signer |-> s, height |-> 0, round |-> 0, kind |-> 1, block |-> Absent,
                 signature |-> Signature(s, <<"vote", 0, 0, 1, Absent>>)]
  <2> DEFINE v == [height |-> 0, round |-> 0, kind |-> 1, block |-> Absent, signer |-> s, signature |-> g]
  <2>1. v = [TheVote EXCEPT !.block = Absent]
    BY <1>1
  <2>2. NilVote = [v EXCEPT !.signature = Signature(v.signer, VoteMessage(v))]
    BY <2>1 DEF NilVote
  <2>3. v.signer = s /\ VoteMessage(v) = <<"vote", 0, 0, 1, Absent>>
    BY DEF VoteMessage
  <2> DEFINE n == Signature(s, <<"vote", 0, 0, 1, Absent>>)
  <2>4. NilVote = [v EXCEPT !.signature = n]
    BY <2>2, <2>3
  <2> HIDE DEF n
  <2>5. NilVote = [signer |-> s, height |-> 0, round |-> 0, kind |-> 1, block |-> Absent, signature |-> n]
    BY <2>4
  <2> QED
    BY <2>5 DEF n
<1>4. TheVote.signer = s
  BY <1>1
<1> QED
  BY <1>1, <1>2, <1>3, <1>4 DEF g

\* The proposal that is sent, with its signature.
LEMMA TheProposalIs ==
  /\ IsProposal(TheProposal) /\ TheProposal.header = CommittedHeader(0)
  /\ TheProposal.height = 0 /\ TheProposal.round = 0
  /\ TheProposal.signature = Signature(TheProposal.proposer, proposal_message(CommittedHeader(0)))
  /\ IsHeader(CommittedHeader(0))
  /\ CommittedHeader(0).fields.height = 0 /\ CommittedHeader(0).fields.round = 0
<1> DEFINE h == CommittedHeader(0)
<1> DEFINE s == TheVote.signer
<1> DEFINE a == app_hash(WorldAt(1))
<1> DEFINE g == Signature(s, proposal_message(h))
<1>1. TheProposal = [height |-> 0, round |-> 0, header |-> h, app_hash |-> a, proposer |-> s,
                     vrf_source |-> s, vrf_proof |-> 0, signature |-> g]
  BY DEF TheProposal
<1>2. IsHeader(h) /\ h.fields.height = 0 /\ h.fields.round = 0
  <2>1. 0 \in Heights
    BY BodiesAssumption, LenIs DEF Heights
  <2>2. h.fields.height = 0 /\ h.fields.round = 0
    BY DEF CommittedHeader, FieldsAt
  <2> QED
    BY <2>1, <2>2, CommittedIs
<1> HIDE DEF h, s, a, g
<1> DEFINE p == TheProposal
<1>3. /\ p.header = h /\ p.height = 0 /\ p.round = 0 /\ p.signature = g /\ p.proposer = s
      /\ p = [height |-> p.height, round |-> p.round, header |-> p.header,
              app_hash |-> p.app_hash, proposer |-> p.proposer, vrf_source |-> p.vrf_source,
              vrf_proof |-> p.vrf_proof, signature |-> p.signature]
  BY <1>1
<1> HIDE DEF p
<1>4. IsProposal(p)
  BY <1>2, <1>3 DEF IsProposal
<1> QED
  BY <1>2, <1>3, <1>4 DEF p, h, g

\* What is sent or forged is a message.
LEMMA MessageIs ==
  ASSUME NEW m \in Sent \cup Forged
  PROVE  IsMessage(m)
<1>1. CASE m \in Forged
  BY <1>1, ForgedAssumption DEF IsMessage
<1>2. CASE m \in Sent
  <2>1. IsSignedTx(TheTx) /\ IsProposal(TheProposal) /\ IsHeader(CommittedHeader(0))
    BY TheTxIs, TheProposalIs
  <2>2. IsVote(TheVote) /\ IsVote(NilVote)
    <3>1. PICK s, b :
             /\ b = Some(b[1])
             /\ TheVote = [signer |-> s, height |-> 0, round |-> 0, kind |-> 1, block |-> b,
                           signature |-> Signature(s, <<"vote", 0, 0, 1, b>>)]
             /\ NilVote = [signer |-> s, height |-> 0, round |-> 0, kind |-> 1, block |-> Absent,
                           signature |-> Signature(s, <<"vote", 0, 0, 1, Absent>>)]
      BY TheVoteIs
    <3>2. IsVote(TheVote)
      BY <3>1 DEF IsVote
    <3>3. IsVote(NilVote)
      BY <3>1 DEF IsVote
    <3> QED
      BY <3>2, <3>3
  <2> QED
    BY <1>2, <2>1, <2>2 DEF Sent, IsMessage
<1> QED
  BY <1>1, <1>2

\* What HeardIntact says of a message.
Genuine(kind, m) ==
    /\ kind = "Tx" => m = TheTx \/ m.public_key = Outsider
    /\ kind = "Vote" => m \in {TheVote, NilVote}
    /\ kind = "Proposal" =>
          /\ m.proposer = TheProposal.proposer /\ m.header = TheProposal.header
          /\ m.height = TheProposal.height /\ m.round = TheProposal.round

\* A signed transaction is the one that was sent, or of the key of another.
LEMMA TxGenuine ==
  ASSUME NEW s, IsSignedTx(s), ingest_tx(s),
         s.signature = TheTx.signature \/ MadeBy(Outsider, s.signature)
  PROVE  s = TheTx \/ s.public_key = Outsider
<1> DEFINE t == TheTx
<1>1. /\ s = [tx |-> s.tx, signature |-> s.signature, public_key |-> s.public_key]
      /\ t = [tx |-> t.tx, signature |-> t.signature, public_key |-> t.public_key]
      /\ IsTx(s.tx) /\ IsTx(t.tx)
      /\ s.signature = Signature(s.public_key, tx_encode(s.tx))
      /\ t.signature = Signature(t.public_key, tx_encode(t.tx))
  BY TheTxIs DEF IsSignedTx, ingest_tx
<1> HIDE DEF t
<1>2. CASE s.signature = t.signature
  <2>1. s.public_key = t.public_key /\ tx_encode(s.tx) = tx_encode(t.tx)
    BY <1>1, <1>2 DEF Signature
  <2>2. tx_decode(tx_encode(s.tx)) = {s.tx} /\ tx_decode(tx_encode(t.tx)) = {t.tx}
    BY <1>1, TxRound DEF Ok
  <2>3. s.tx = t.tx
    BY <2>1, <2>2
  <2>4. s = t
    BY <1>1, <1>2, <2>1, <2>3
  <2> QED
    BY <2>4 DEF t
<1>3. CASE MadeBy(Outsider, s.signature)
  <2> DEFINE x == s.signature[3]
  <2>1. s.signature = Signature(Outsider, x)
    BY <1>3 DEF MadeBy
  <2> HIDE DEF x
  <2> QED
    BY <1>1, <2>1 DEF Signature
<1> QED
  BY <1>2, <1>3 DEF t

\* A signature made with a key is of that key and of the one message.
LEMMA SignatureIs ==
  ASSUME NEW k, NEW x, NEW l, NEW y, Signature(k, x) = Signature(l, y)
  PROVE  k = l /\ x = y
  BY DEF Signature

\* A vote and a proposal sign different things.
LEMMA DomainsDiffer ==
  \A v, h : VoteMessage(v) # proposal_message(h)
<1> SUFFICES ASSUME NEW v, NEW h, VoteMessage(v) = proposal_message(h) PROVE FALSE
  OBVIOUS
<1>1. VoteMessage(v)[1] = "vote" /\ proposal_message(h)[1] = "proposal"
  BY DEF VoteMessage, proposal_message
<1> QED
  BY <1>1

\* A validator's vote is one that was sent.
LEMMA VoteGenuine ==
  ASSUME NEW v, IsVote(v), ingest_validator_vote(v),
         v.signature \in BlsSeen \/ MadeBy(Outsider, v.signature)
  PROVE  v \in {TheVote, NilVote}
<1>1. PICK s, b :
         /\ TheVote = [signer |-> s, height |-> 0, round |-> 0, kind |-> 1, block |-> b,
                       signature |-> Signature(s, <<"vote", 0, 0, 1, b>>)]
         /\ NilVote = [signer |-> s, height |-> 0, round |-> 0, kind |-> 1, block |-> Absent,
                       signature |-> Signature(s, <<"vote", 0, 0, 1, Absent>>)]
  BY TheVoteIs
<1>2. /\ v = [signer |-> v.signer, height |-> v.height, round |-> v.round, kind |-> v.kind,
              block |-> v.block, signature |-> v.signature]
      /\ v.signer \in Validators
      /\ v.signature = Signature(v.signer, VoteMessage(v))
      /\ VoteMessage(v) = <<"vote", v.height, v.round, v.kind, v.block>>
  BY DEF IsVote, ingest_validator_vote, VoteMessage
<1>3. ASSUME NEW c, v.signature = Signature(s, <<"vote", 0, 0, 1, c>>)
      PROVE  v = [signer |-> s, height |-> 0, round |-> 0, kind |-> 1, block |-> c,
                  signature |-> Signature(s, <<"vote", 0, 0, 1, c>>)]
  <2>1. v.signer = s /\ <<"vote", v.height, v.round, v.kind, v.block>> = <<"vote", 0, 0, 1, c>>
    BY <1>2, <1>3, SignatureIs
  <2>2. v.height = 0 /\ v.round = 0 /\ v.kind = 1 /\ v.block = c
    BY <2>1
  <2> DEFINE g == Signature(s, <<"vote", 0, 0, 1, c>>)
  <2> HIDE DEF g
  <2>3. v.signature = g
    BY <1>3 DEF g
  <2>4. v = [signer |-> s, height |-> 0, round |-> 0, kind |-> 1, block |-> c, signature |-> g]
    BY <1>2, <2>1, <2>2, <2>3
  <2> QED
    BY <2>4 DEF g
<1>4. CASE v.signature = TheVote.signature
  <2>1. TheVote.signature = Signature(s, <<"vote", 0, 0, 1, b>>)
    BY <1>1
  <2> QED
    BY <1>1, <1>3, <1>4, <2>1
<1>5. CASE v.signature = NilVote.signature
  <2>1. NilVote.signature = Signature(s, <<"vote", 0, 0, 1, Absent>>)
    BY <1>1
  <2> QED
    BY <1>1, <1>3, <1>5, <2>1
<1>6. v.signature # TheProposal.signature
  BY <1>2, TheProposalIs, SignatureIs, DomainsDiffer
<1>7. ~MadeBy(Outsider, v.signature)
  <2>1. v.signer # Outsider
    BY <1>2, SyncAssumption
  <2> QED
    BY <1>2, <2>1, SignatureIs DEF MadeBy
<1> QED
  BY <1>4, <1>5, <1>6, <1>7 DEF BlsSeen

\* A validator's proposal has the header that was signed.
LEMMA ProposalGenuine ==
  ASSUME NEW p, IsProposal(p), ingest_validator_proposal(p),
         p.signature \in BlsSeen \/ MadeBy(Outsider, p.signature)
  PROVE  Genuine("Proposal", p)
<1> DEFINE h == CommittedHeader(0)
<1>1. /\ p.proposer \in Validators /\ IsHeader(p.header)
      /\ p.height = p.header.fields.height /\ p.round = p.header.fields.round
      /\ p.signature = Signature(p.proposer, proposal_message(p.header))
  BY DEF IsProposal, ingest_validator_proposal
<1>2. PICK s, b :
         /\ TheVote = [signer |-> s, height |-> 0, round |-> 0, kind |-> 1, block |-> b,
                       signature |-> Signature(s, <<"vote", 0, 0, 1, b>>)]
         /\ NilVote = [signer |-> s, height |-> 0, round |-> 0, kind |-> 1, block |-> Absent,
                       signature |-> Signature(s, <<"vote", 0, 0, 1, Absent>>)]
  BY TheVoteIs
<1>3. \A c : p.signature # Signature(s, <<"vote", 0, 0, 1, c>>)
  <2>1. ASSUME NEW c, p.signature = Signature(s, <<"vote", 0, 0, 1, c>>) PROVE FALSE
    <3>1. proposal_message(p.header) = <<"vote", 0, 0, 1, c>>
      <4>1. Signature(p.proposer, proposal_message(p.header)) = Signature(s, <<"vote", 0, 0, 1, c>>)
        BY <1>1, <2>1
      <4> QED
        BY <4>1 DEF Signature
    <3>2. proposal_message(p.header)[1] = "proposal" /\ <<"vote", 0, 0, 1, c>>[1] = "vote"
      BY DEF proposal_message
    <3> QED
      BY <3>1, <3>2
  <2> QED
    BY <2>1, Zenon
<1>4. p.signature # TheVote.signature /\ p.signature # NilVote.signature
  <2>1. TheVote.signature = Signature(s, <<"vote", 0, 0, 1, b>>)
        /\ NilVote.signature = Signature(s, <<"vote", 0, 0, 1, Absent>>)
    BY <1>2
  <2> QED
    BY <1>3, <2>1
<1>5. ~MadeBy(Outsider, p.signature)
  <2>1. p.proposer # Outsider
    BY <1>1, SyncAssumption
  <2> QED
    BY <1>1, <2>1, SignatureIs DEF MadeBy
<1>6. p.signature = TheProposal.signature
  BY <1>4, <1>5 DEF BlsSeen
<1>7. p.proposer = TheProposal.proposer /\ proposal_message(p.header) = proposal_message(h)
  <2>1. Signature(p.proposer, proposal_message(p.header)) = Signature(TheProposal.proposer, proposal_message(h))
    BY <1>1, <1>6, TheProposalIs
  <2> QED
    BY <2>1, SignatureIs
<1>8. p.header = h
  <2>1. hash_preimage(p.header) = hash_preimage(h)
    BY <1>7 DEF proposal_message
  <2>2. header_from_preimage(hash_preimage(p.header)) = {p.header}
        /\ header_from_preimage(hash_preimage(h)) = {h}
    BY <1>1, TheProposalIs, HeaderRound DEF Ok
  <2> QED
    BY <2>1, <2>2
<1> QED
  BY <1>1, <1>7, <1>8, TheProposalIs DEF Genuine

\* So whatever passes a gate is genuine.
LEMMA PassesGenuine ==
  ASSUME NEW m \in Sent \cup Forged, Passes(m)
  PROVE  Genuine(m[1], m[2])
<1>1. CASE m \in Sent
  BY <1>1 DEF Sent, Genuine
<1>2. CASE m \in Forged
  <2>1. CASE m[1] = "Tx"
    <3>1. IsSignedTx(m[2]) /\ ingest_tx(m[2])
          /\ (m[2].signature = TheTx.signature \/ MadeBy(Outsider, m[2].signature))
      BY <1>2, <2>1, ForgedAssumption DEF Passes
    <3> QED
      BY <2>1, <3>1, TxGenuine DEF Genuine
  <2>2. CASE m[1] = "Vote"
    <3>1. IsVote(m[2]) /\ ingest_validator_vote(m[2])
          /\ (m[2].signature \in BlsSeen \/ MadeBy(Outsider, m[2].signature))
      BY <1>2, <2>2, ForgedAssumption DEF Passes
    <3> QED
      BY <2>2, <3>1, VoteGenuine DEF Genuine
  <2>3. CASE m[1] = "Proposal"
    <3>1. IsProposal(m[2]) /\ ingest_validator_proposal(m[2])
          /\ (m[2].signature \in BlsSeen \/ MadeBy(Outsider, m[2].signature))
      BY <1>2, <2>3, ForgedAssumption DEF Passes
    <3> QED
      BY <2>3, <3>1, ProposalGenuine
  <2>4. CASE m[1] \notin {"Tx", "Vote", "Proposal"}
    BY <2>4 DEF Genuine
  <2> QED
    BY <2>1, <2>2, <2>3, <2>4
<1> QED
  BY <1>1, <1>2

\* Inductive: what was just heard has the frame of a genuine message.
HeardGenuine ==
    heard # None =>
        heard.frame = FrameOf(<<heard.kind, heard.message>>) /\ Genuine(heard.kind, heard.message)

\* What a frame gives.
LEMMA FramesGive ==
  ASSUME NEW f \in Frames, NEW x \in Ingested(f)
  PROVE  x.frame = FrameOf(<<x.kind, x.message>>) /\ Genuine(x.kind, x.message)
<1>1. ASSUME NEW m \in Sent \cup Forged, f = FrameOf(m)
      PROVE  x.frame = FrameOf(<<x.kind, x.message>>) /\ Genuine(x.kind, x.message)
  <2>1. Passes(m) /\ x = [kind |-> m[1], message |-> m[2], frame |-> FrameOf(m)]
    BY <1>1, MessageIs, IngestedIs
  <2>2. m = <<m[1], m[2]>>
    <3>1. CASE m \in Sent
      BY <3>1 DEF Sent
    <3>2. CASE m \in Forged
      BY <3>2, ForgedAssumption
    <3> QED
      BY <3>1, <3>2
  <2>3. x.kind = m[1] /\ x.message = m[2] /\ x.frame = FrameOf(m)
    BY <2>1
  <2>4. x.frame = FrameOf(<<x.kind, x.message>>)
    BY <2>2, <2>3
  <2>5. Genuine(x.kind, x.message)
    BY <2>1, <2>3, PassesGenuine
  <2> QED
    BY <2>4, <2>5
<1>2. ASSUME NEW m \in Sent, f \in Misframed(FrameOf(m)) PROVE FALSE
  BY <1>2, MessageIs, IngestedIs
<1> QED
  BY <1>1, <1>2 DEF Frames

\* The step of the theorem below.
LEMMA HeardStep ==
  ASSUME OffersHeard, HeardGenuine, [Next]_vars
  PROVE  OffersHeard' /\ HeardGenuine'
<1>1. OffersHeard'
  BY OffersHeardStep
<1>2. CASE \E f \in Frames : Hear(f)
  <2>1. PICK f \in Frames : Hear(f)
    BY <1>2
  <2>2. IF Ingested(f) = Err THEN heard' = None ELSE heard' \in Ingested(f)
    BY <2>1, Zenon DEF Hear, Ingested
  <2>3. CASE heard' = None
    BY <1>1, <2>3 DEF HeardGenuine
  <2>4. CASE heard' \in Ingested(f)
    <3>1. heard'.frame = FrameOf(<<heard'.kind, heard'.message>>) /\ Genuine(heard'.kind, heard'.message)
      BY <2>4, FramesGive
    <3> QED
      BY <1>1, <3>1 DEF HeardGenuine
  <2> QED
    BY <2>2, <2>3, <2>4
<1>3. CASE Delivery
  BY <1>1, <1>3, Delivered DEF HeardGenuine
<1>4. CASE ~(\E f \in Frames : Hear(f)) /\ ~Delivery
  <2>1. UNCHANGED heard
    BY <1>4, NoDelivery
  <2> QED
    BY <1>1, <2>1 DEF HeardGenuine
<1> QED
  BY <1>2, <1>3, <1>4

\* Whatever is made of the messages on their way, by those who have only the
\* signatures they saw and keys of their own, what a topic's gate takes has the
\* canonical frame and is what was sent, as far as its signature covers it
\* (decode_frame, the decoders of the kinds and the gates of ingest), for every
\* chain of bodies and all forged messages.
THEOREM SyncHeardIntact == Spec => []HeardIntact
<1> DEFINE Inv == OffersHeard /\ HeardGenuine
<1>1. Init => Inv
  <2> SUFFICES ASSUME Init PROVE Inv
    OBVIOUS
  <2>1. DOMAIN sync_offers = {} /\ heard = None
    BY DEF Init
  <2>2. IsFiniteSet({})
    BY FS_EmptySet
  <2> QED
    BY <2>1, <2>2 DEF OffersHeard, HeardGenuine
<1>2. Inv /\ [Next]_vars => Inv'
  BY HeardStep
<1>3. Inv => HeardIntact
  BY DEF HeardIntact, OffersHeard, HeardGenuine, Genuine
<1> QED
  BY <1>1, <1>2, <1>3, PTL DEF Spec

\* One list more, flattened.
LEMMA RunsMore ==
  ASSUME NEW f, NEW n \in Nat, \A h \in 1 .. n + 1 : IsSeq(f[h])
  PROVE  /\ FlattenSeq([h \in 1 .. n + 1 |-> f[h]]) = FlattenSeq([h \in 1 .. n |-> f[h]]) \o f[n + 1]
         /\ IsSeq(FlattenSeq([h \in 1 .. n |-> f[h]])) /\ IsSeq(f[n + 1])
<1> DEFINE s == [h \in 1 .. n |-> f[h]]
<1> DEFINE t == [h \in 1 .. n + 1 |-> f[h]]
<1>1. IsSeq(s) /\ Len(s) = n
  <2>1. s = [h \in 1 .. n |-> s[h]]
    OBVIOUS
  <2> HIDE DEF s
  <2> QED
    BY <2>1, MadeSeq
<1>2. IsSeq(t) /\ Len(t) = n + 1
  <2>1. t = [h \in 1 .. n + 1 |-> t[h]] /\ n + 1 \in Nat
    OBVIOUS
  <2> HIDE DEF t
  <2> QED
    BY <2>1, MadeSeq
<1>3. n + 1 \in 1 .. n + 1 /\ \A h \in 1 .. n : h \in 1 .. n + 1
  OBVIOUS
<1>4. \A h \in 1 .. n : t[h] = s[h] /\ IsSeq(s[h])
  BY <1>3
<1>5. t[n + 1] = f[n + 1] /\ IsSeq(f[n + 1])
  BY <1>3
<1> HIDE DEF s, t
<1>6. Len(t) = Len(s) + 1 /\ IsSeq(t[Len(t)]) /\ \A i \in 1 .. Len(s) : t[i] = s[i]
  BY <1>1, <1>2, <1>4, <1>5
<1>7. FlattenSeq(t) = FlattenSeq(s) \o t[Len(t)]
  <2>1. IsSeq(s) /\ IsSeq(t)
    BY <1>1, <1>2
  <2> QED
    BY <2>1, <1>6, FlattenMore
<1>8. Strings(s)
  BY <1>1, <1>4 DEF Strings
<1>9. IsSeq(FlattenSeq(s))
  BY <1>8, UptoIsSeq
<1> QED
  BY <1>2, <1>5, <1>7, <1>9 DEF s, t

\* The transactions without their signatures.
TxsOf(txs) == [i \in 1 .. Len(txs) |-> txs[i].tx]

\* They are a list.
LEMMA TxsOfIs ==
  ASSUME NEW txs, IsSeq(txs)
  PROVE  IsSeq(TxsOf(txs)) /\ <<>> \o TxsOf(txs) = TxsOf(txs)
<1> DEFINE f == TxsOf(txs)
<1>1. f = [i \in 1 .. Len(txs) |-> f[i]] /\ Len(txs) \in Nat
  BY LenIs DEF TxsOf
<1> HIDE DEF f
<1>2. IsSeq(f)
  BY <1>1, MadeSeq
<1>3. <<>> \o f = f
  BY <1>2, ConcatEmptySeq DEF IsSeq
<1> QED
  BY <1>2, <1>3 DEF f

\* Replaying offers whose hashes all come out right, each with the committed block
\* or the committed app hash, gives the committed state.
LEMMA ReplayIs ==
  ASSUME NEW n \in Nat, NEW blocks,
         \A h \in 0 .. n - 1 :
            /\ h \in Heights /\ IsOffer(blocks[h])
            /\ blocks[h].block = BlockAt(h) \/ blocks[h].app_hash = app_hash(WorldAt(h + 1)),
         \A h \in 0 .. n - 1 : app_hash(Replayed(blocks, h + 1)) = blocks[h].app_hash
  PROVE  Replayed(blocks, n) = WorldAt(n)
<1> DEFINE r == [h \in 1 .. n |-> apply_block(<<>>, blocks[h - 1].block)]
<1> DEFINE w == [h \in 1 .. n |-> TxsOf(Bodies[h])]
<1> DEFINE R(m) == FlattenSeq([h \in 1 .. m |-> r[h]])
<1> DEFINE W(m) == FlattenSeq([h \in 1 .. m |-> w[h]])
<1>1. \A m \in 0 .. n : Replayed(blocks, m) = R(m) /\ WorldAt(m) = W(m)
  <2> SUFFICES ASSUME NEW m \in 0 .. n PROVE Replayed(blocks, m) = R(m) /\ WorldAt(m) = W(m)
    OBVIOUS
  <2>1. \A h \in 1 .. m : h \in 1 .. n
    OBVIOUS
  <2>2. [h \in 1 .. m |-> r[h]] = [h \in 1 .. m |-> apply_block(<<>>, blocks[h - 1].block)]
    BY <2>1
  <2>3. [h \in 1 .. m |-> w[h]] = [h \in 1 .. m |-> TxsOf(Bodies[h])]
    BY <2>1
  <2> HIDE DEF r, w
  <2>4. Replayed(blocks, m) = R(m)
    BY <2>2 DEF Replayed
  <2>5. WorldAt(m) = W(m)
    BY <2>3 DEF WorldAt, TxsOf
  <2> QED
    BY <2>4, <2>5
<1>2. \A h \in 1 .. n : /\ h - 1 \in 0 .. n - 1 /\ h - 1 \in Heights /\ (h - 1) + 1 = h
                        /\ IsSeq(r[h]) /\ IsSeq(w[h])
                        /\ blocks[h - 1].block = BlockAt(h - 1) => r[h] = w[h]
  <2> SUFFICES ASSUME NEW h \in 1 .. n
               PROVE  /\ h - 1 \in 0 .. n - 1 /\ h - 1 \in Heights /\ (h - 1) + 1 = h
                      /\ IsSeq(r[h]) /\ IsSeq(w[h])
                      /\ blocks[h - 1].block = BlockAt(h - 1) => r[h] = w[h]
    OBVIOUS
  <2>1. h - 1 \in 0 .. n - 1 /\ (h - 1) + 1 = h
    OBVIOUS
  <2>2. h - 1 \in Heights
    BY <2>1
  <2>3. IsOffer(blocks[h - 1])
    BY <2>1
  <2> DEFINE b == blocks[h - 1].block
  <2>4. IsSeq(b.txs)
    BY <2>3 DEF IsOffer, IsBlock
  <2>5. r[h] = <<>> \o TxsOf(b.txs) /\ w[h] = TxsOf(Bodies[h])
    BY DEF apply_block, TxsOf
  <2>6. IsSeq(Bodies[h])
    BY <2>1, <2>2, BodyIs
  <2> HIDE DEF r, w, b
  <2>7. r[h] = TxsOf(b.txs) /\ IsSeq(r[h]) /\ IsSeq(w[h])
    BY <2>4, <2>5, <2>6, TxsOfIs
  <2>8. b = BlockAt(h - 1) => b.txs = Bodies[h]
    BY <2>1 DEF BlockAt
  <2>9. b = BlockAt(h - 1) => r[h] = w[h]
    BY <2>5, <2>7, <2>8
  <2> QED
    BY <2>1, <2>2, <2>7, <2>9 DEF b
<1> HIDE DEF r, w
<1>3. ASSUME NEW m \in Nat, m < n
      PROVE  /\ R(m + 1) = R(m) \o r[m + 1] /\ W(m + 1) = W(m) \o w[m + 1]
             /\ IsSeq(R(m)) /\ IsSeq(W(m)) /\ IsSeq(r[m + 1]) /\ IsSeq(w[m + 1])
  <2>1. \A h \in 1 .. m + 1 : h \in 1 .. n
    BY <1>3
  <2>2. \A h \in 1 .. m + 1 : IsSeq(r[h]) /\ IsSeq(w[h])
    BY <1>2, <2>1
  <2> QED
    BY <2>2, RunsMore
<1> DEFINE P == {m \in Nat : m <= n => R(m) = W(m)}
<1>4. 0 \in P
  <2>1. [h \in 1 .. 0 |-> r[h]] = [h \in 1 .. 0 |-> w[h]]
    OBVIOUS
  <2> QED
    BY <2>1
<1>5. ASSUME NEW m \in Nat, m \in P PROVE m + 1 \in P
  <2> SUFFICES ASSUME m + 1 <= n PROVE R(m + 1) = W(m + 1)
    OBVIOUS
  <2>1. m < n /\ m \in 0 .. n - 1 /\ m + 1 \in 1 .. n /\ m <= n /\ (m + 1) - 1 = m /\ m + 1 \in 0 .. n
    OBVIOUS
  <2>2. R(m) = W(m)
    BY <1>5, <2>1
  <2>3. app_hash(R(m + 1)) = blocks[m].app_hash
    BY <1>1, <2>1
  <2>4. \/ blocks[m].app_hash = app_hash(WorldAt(m + 1))
        \/ blocks[m].block = BlockAt(m)
    BY <2>1
  <2>5. CASE blocks[m].app_hash = app_hash(WorldAt(m + 1))
    <3>1. app_hash(R(m + 1)) = app_hash(W(m + 1))
      BY <1>1, <2>1, <2>3, <2>5
    <3> HIDE DEF R, W
    <3> QED
      BY <3>1 DEF app_hash
  <2>6. CASE blocks[m].block = BlockAt(m)
    <3>1. r[m + 1] = w[m + 1]
      BY <1>2, <2>1, <2>6
    <3>2. R(m + 1) = R(m) \o r[m + 1] /\ W(m + 1) = W(m) \o w[m + 1]
      BY <1>3, <2>1
    <3> HIDE DEF R, W
    <3> QED
      BY <2>2, <3>1, <3>2
  <2> QED
    BY <2>4, <2>5, <2>6
<1> HIDE DEF P
<1>6. \A m \in Nat : m \in P
  BY <1>4, <1>5, NumberInduction
<1>7. R(n) = W(n)
  BY <1>6 DEF P
<1> QED
  BY <1>1, <1>7

\* Offers from height 0 on, n of them.
Run(offers, n) ==
    /\ n \in Nat /\ n > 0 /\ DOMAIN offers = 0 .. n - 1
    /\ \A h \in 0 .. n - 1 : offers[h].header.fields.height = h

\* The state they lead to.
LeadsTo(x, offers, n) ==
    /\ x.height = n /\ x.world = Replayed(offers, n)
    /\ \A h \in 0 .. n - 1 : app_hash(Replayed(offers, h + 1)) = offers[h].app_hash
    /\ x.last_hash = hash_preimage(offers[n - 1].header)
    /\ x.last_ts = offers[n - 1].header.fields.timestamp_ms

\* Adopting what was synced gives the replay of the offers and their tip.
LEMMA AdoptIs ==
  ASSUME NEW n, NEW offers, Run(offers, n),
         NEW st, NEW x \in Adopt(wire_sync(st, offers), offers)
  PROVE  LeadsTo(x, offers, n)
<1>0. /\ n \in Nat /\ n > 0 /\ DOMAIN offers = 0 .. n - 1
      /\ \A h \in 0 .. n - 1 : offers[h].header.fields.height = h
  BY DEF Run
<1> DEFINE su == wire_sync(st, offers)
<1> DEFINE t == n - 1
<1>1. Max(DOMAIN offers) = t /\ t \in 0 .. n - 1 /\ t + 1 = n
  <2>1. t \in 0 .. n - 1 /\ (\A y \in 0 .. n - 1 : t >= y) /\ t + 1 = n
    BY <1>0
  <2>2. \A z \in 0 .. n - 1 : (\A y \in 0 .. n - 1 : z >= y) => z = t
    BY <1>0
  <2> HIDE DEF t
  <2> QED
    BY <1>0, <2>1, <2>2 DEF Max
<1> HIDE DEF t
<1>2. su.tip[1] = t
  BY <1>1 DEF wire_sync, Some
<1>3. \A h \in 0 .. n - 1 : su.blocks[h] = offers[h]
  BY <1>0 DEF wire_sync, PutAll
<1>4. ASSUME NEW k \in 0 .. n PROVE Replayed(su.blocks, k) = Replayed(offers, k)
  <2> DEFINE B == su.blocks
  <2>1. \A h \in 1 .. k : B[h - 1] = offers[h - 1]
    <3>1. \A h \in 1 .. k : h - 1 \in 0 .. n - 1
      BY <1>0
    <3> QED
      BY <1>3, <3>1
  <2> HIDE DEF B
  <2>2. [h \in 1 .. k |-> apply_block(<<>>, B[h - 1].block)]
          = [h \in 1 .. k |-> apply_block(<<>>, offers[h - 1].block)]
    BY <2>1
  <2>3. Replayed(B, k) = Replayed(offers, k)
    BY <2>2 DEF Replayed
  <2> QED
    BY <2>3 DEF B
<1> DEFINE last == offers[t]
<1>5. last.header.fields.height = t
  BY <1>0, <1>1
<1> DEFINE G(o, world) == Ok([world |-> world, height |-> o.header.fields.height + 1,
                              last_hash |-> hash_preimage(o.header),
                              last_ts |-> o.header.fields.timestamp_ms])
<1>6. x \in UNION {G(offers[Max(DOMAIN offers)], world) : world \in replay_from_genesis(su)}
  BY Zenon DEF Adopt, Then
<1>7. PICK world \in replay_from_genesis(su) : x \in G(last, world)
  <2> HIDE DEF G, su, last
  <2>1. PICK world \in replay_from_genesis(su) : x \in G(offers[Max(DOMAIN offers)], world)
    BY <1>6
  <2>2. offers[Max(DOMAIN offers)] = last
    BY <1>1 DEF last
  <2> QED
    BY <2>1, <2>2
<1>8. world = Replayed(su.blocks, t + 1)
      /\ \A h \in 0 .. t : app_hash(Replayed(su.blocks, h + 1)) = su.blocks[h].app_hash
  BY <1>2, <1>7 DEF replay_from_genesis, Ok, Err
<1> HIDE DEF su
<1>9. world = Replayed(offers, n)
  <2>1. n \in 0 .. n
    BY <1>0
  <2> QED
    BY <1>1, <1>4, <1>8, <2>1
<1>10. \A h \in 0 .. n - 1 : app_hash(Replayed(offers, h + 1)) = offers[h].app_hash
  <2>1. ASSUME NEW h \in 0 .. n - 1
        PROVE  app_hash(Replayed(offers, h + 1)) = offers[h].app_hash
    <3>1. h + 1 \in 0 .. n /\ h \in 0 .. t
      BY <1>0, <1>1
    <3>2. app_hash(Replayed(su.blocks, h + 1)) = su.blocks[h].app_hash
      BY <1>8, <3>1
    <3> QED
      BY <1>3, <1>4, <3>1, <3>2
  <2> QED
    BY <2>1
<1>11. x = [world |-> world, height |-> last.header.fields.height + 1,
            last_hash |-> hash_preimage(last.header),
            last_ts |-> last.header.fields.timestamp_ms]
  BY <1>7 DEF Ok
<1>12. x.height = n /\ x.world = world /\ x.last_hash = hash_preimage(last.header)
       /\ x.last_ts = last.header.fields.timestamp_ms
  BY <1>0, <1>1, <1>5, <1>11
<1> QED
  BY <1>9, <1>10, <1>12 DEF t, LeadsTo

\* Inductive: FollowerFollows, of offers that are kept.
Follows ==
    /\ node.height \in Nat
    /\ \A h \in DOMAIN adopted : adopted[h] \in Offered
    /\ FollowerFollows

\* A catch-up that adopts offers leaves the node where they lead.
LEMMA CatchUpFollows ==
  ASSUME NEW n \in Nat, n > 0, NEW offers, DOMAIN offers = 0 .. n - 1,
         \A h \in 0 .. n - 1 : offers[h] \in Offered /\ offers[h].header.fields.height = h,
         headers_then_bodies(offers), adopted' = offers,
         node' \in Adopt(wire_sync(store, offers), offers)
  PROVE  Follows'
<1>1. /\ node'.height = n /\ node'.world = Replayed(offers, n)
      /\ \A h \in 0 .. n - 1 : app_hash(Replayed(offers, h + 1)) = offers[h].app_hash
      /\ node'.last_hash = hash_preimage(offers[n - 1].header)
      /\ node'.last_ts = offers[n - 1].header.fields.timestamp_ms
  <2>1. Run(offers, n)
    BY DEF Run
  <2>2. LeadsTo(node', offers, n)
    BY <2>1, AdoptIs, Zenon
  <2> QED
    BY <2>2 DEF LeadsTo
<1>2. \A h \in 0 .. n - 1 : ingest_block(offers[h].header, offers[h].block, offers[h].receipts)
  BY DEF headers_then_bodies
<1>3. ASSUME \A h \in 0 .. n - 1 :
                /\ h \in Heights
                /\ offers[h].block = BlockAt(h) \/ offers[h].app_hash = Chain[h].app_hash
      PROVE  node'.world = WorldAt(n)
  <2>1. ASSUME NEW h \in 0 .. n - 1
        PROVE  /\ h \in Heights /\ IsOffer(offers[h])
               /\ offers[h].block = BlockAt(h) \/ offers[h].app_hash = app_hash(WorldAt(h + 1))
    <3>1. h \in Heights /\ (offers[h].block = BlockAt(h) \/ offers[h].app_hash = Chain[h].app_hash)
      BY <1>3
    <3>2. Chain[h].app_hash = app_hash(WorldAt(h + 1))
      <4>1. Chain[h] = Committed(h)
        BY <3>1, CommittedIs
      <4>2. Committed(h).app_hash = app_hash(WorldAt(h + 1))
        BY DEF Committed
      <4> QED
        BY <4>1, <4>2
    <3>3. IsOffer(offers[h])
      BY OfferedIs
    <3> QED
      BY <3>1, <3>2, <3>3
  <2>2. Replayed(offers, n) = WorldAt(n)
    BY <1>1, <2>1, ReplayIs
  <2> QED
    BY <1>1, <2>2
<1>4. FollowerFollows'
  BY <1>1, <1>2, <1>3 DEF FollowerFollows
<1> QED
  BY <1>1, <1>4 DEF Follows

\* Follows is preserved by every step.
LEMMA FollowsStep ==
  ASSUME OffersHeard, Follows, [Next]_vars
  PROVE  Follows'
<1>0. CASE UNCHANGED <<node, adopted>>
  <2>1. node' = node /\ adopted' = adopted
    BY <1>0
  <2> QED
    BY <2>1 DEF Follows, FollowerFollows
<1>1. CASE Delivery
  <2>1. ASSUME NEW o \in Offered,
               sync_offers' = Put(sync_offers, o.header.fields.height,
                                  [offer |-> o, frame |-> OfferFrame(o)]),
               try_catchup([k \in DOMAIN sync_offers' |-> sync_offers'[k].offer])
        PROVE  Follows'
    <3> DEFINE offers == [k \in DOMAIN sync_offers' |-> sync_offers'[k].offer]
    <3>1. OffersHeard'
      BY OffersHeardStep
    <3>2. /\ IsFiniteSet(DOMAIN offers)
          /\ \A k \in DOMAIN offers : offers[k] \in Offered /\ offers[k].header.fields.height = k
      BY <3>1 DEF OffersHeard
    <3>3. o.header.fields.height \in DOMAIN offers /\ o.header.fields.height \in Nat
      BY <2>1, OfferedIs DEF Put
    <3>4. try_catchup(offers)
      BY <2>1
    <3> HIDE DEF offers
    <3>5. CASE UNCHANGED <<node, adopted>>
      BY <1>0, <3>5
    <3>6. CASE /\ Contiguous(offers) /\ headers_then_bodies(offers) /\ adopted' = offers
               /\ node' \in Adopt(wire_sync(store, offers), offers)
      <4> DEFINE n == Cardinality(DOMAIN offers)
      <4>1. DOMAIN offers = 0 .. n - 1
        BY <3>6 DEF Contiguous
      <4>2. n \in Nat
        BY <3>2, FS_CardinalityType
      <4> HIDE DEF n
      <4>3. n > 0
        BY <3>3, <4>1, <4>2
      <4>4. \A h \in 0 .. n - 1 : offers[h] \in Offered /\ offers[h].header.fields.height = h
        BY <3>2, <4>1
      <4> QED
        BY <3>6, <4>1, <4>2, <4>3, <4>4, CatchUpFollows
    <3> QED
      BY <3>4, <3>5, <3>6 DEF try_catchup
  <2> QED
    BY <1>0, <1>1, <2>1, Delivered
<1>2. CASE ~Delivery
  <2>1. UNCHANGED <<node, adopted>>
    BY <1>2, NoDelivery
  <2> QED
    BY <1>0, <2>1
<1> QED
  BY <1>1, <1>2

\* Whatever peers offer, the follower's state is the replay of a chain of blocks
\* that belong to their headers and app hashes, and it is the committed state
\* unless one of them is another block than the committed one, under another app
\* hash (handle_block, try_catchup, wire_sync and replay), for every chain of
\* bodies and all stray offers.
THEOREM SyncFollowerFollows == Spec => []FollowerFollows
<1> DEFINE Inv == OffersHeard /\ HeardGenuine /\ Follows
<1>1. Init => Inv
  <2> SUFFICES ASSUME Init PROVE Inv
    OBVIOUS
  <2>1. /\ DOMAIN sync_offers = {} /\ heard = None /\ DOMAIN adopted = {}
        /\ node.height = 0 /\ node.world = <<>>
    BY DEF Init
  <2>2. IsFiniteSet({})
    BY FS_EmptySet
  <2>3. OffersHeard /\ HeardGenuine
    BY <2>1, <2>2 DEF OffersHeard, HeardGenuine
  <2>4. \A b : Replayed(b, 0) = <<>>
    <3> SUFFICES ASSUME NEW b PROVE Replayed(b, 0) = <<>>
      OBVIOUS
    <3> DEFINE e == [h \in 1 .. 0 |-> apply_block(<<>>, b[h - 1].block)]
    <3>1. e = <<>>
      OBVIOUS
    <3> HIDE DEF e
    <3>2. FlattenSeq(<<>>) = <<>>
      BY FlattenNone
    <3> QED
      BY <3>1, <3>2 DEF Replayed, e
  <2>5. WorldAt(0) = <<>>
    <3> DEFINE e == [h \in 1 .. 0 |-> [i \in 1 .. Len(Bodies[h]) |-> Bodies[h][i].tx]]
    <3>1. e = <<>>
      OBVIOUS
    <3> HIDE DEF e
    <3> QED
      BY <3>1, FlattenNone DEF WorldAt, e
  <2>6. 0 .. 0 - 1 = {} /\ ~(0 > 0)
    OBVIOUS
  <2>7. FollowerFollows
    BY <2>1, <2>4, <2>5, <2>6 DEF FollowerFollows
  <2> QED
    BY <2>1, <2>3, <2>7 DEF Follows
<1>2. Inv /\ [Next]_vars => Inv'
  BY HeardStep, FollowsStep
<1>3. Inv => FollowerFollows
  BY DEF Follows
<1> QED
  BY <1>1, <1>2, <1>3, PTL DEF Spec

----------------------------------------------------------------------------
(* Erasure coding.                                                         *)

\* Two parts one after the other.
LEMMA SubJoin ==
  ASSUME NEW s, IsSeq(s), NEW a \in Nat, NEW b \in Nat, a <= b, b <= Len(s)
  PROVE  SubSeq(s, 1, a) \o SubSeq(s, a + 1, b) = SubSeq(s, 1, b)
<1> DEFINE u == SubSeq(s, 1, a)
<1> DEFINE v == SubSeq(s, a + 1, b)
<1> DEFINE w == SubSeq(s, 1, b)
<1>0. Len(s) \in Nat
  BY LenIs
<1>1. IsSeq(u) /\ Len(u) = a + 1 - 1 /\ \A i \in 1 .. a + 1 - 1 : u[i] = s[1 + i - 1]
  <2>1. 1 \in Nat \ {0} /\ 1 <= a + 1 /\ a <= Len(s)
    BY <1>0
  <2> QED
    BY <2>1, Sub
<1>2. IsSeq(v) /\ Len(v) = b + 1 - (a + 1) /\ \A i \in 1 .. b + 1 - (a + 1) : v[i] = s[(a + 1) + i - 1]
  <2>1. a + 1 \in Nat \ {0} /\ a + 1 <= b + 1
    OBVIOUS
  <2> QED
    BY <2>1, Sub
<1>3. IsSeq(w) /\ Len(w) = b + 1 - 1 /\ \A i \in 1 .. b + 1 - 1 : w[i] = s[1 + i - 1]
  <2>1. 1 \in Nat \ {0} /\ 1 <= b + 1
    OBVIOUS
  <2> QED
    BY <2>1, Sub
<1> HIDE DEF u, v, w
<1>4. /\ IsSeq(u) /\ Len(u) = a /\ IsSeq(v) /\ Len(v) = b - a /\ IsSeq(w) /\ Len(w) = b
      /\ \A i \in 1 .. a : u[i] = s[i]
      /\ \A i \in 1 .. b - a : v[i] = s[a + i]
      /\ \A i \in 1 .. b : w[i] = s[i]
  <2>1. Len(u) = a /\ Len(v) = b - a /\ Len(w) = b
    BY <1>1, <1>2, <1>3
  <2>2. \A i \in 1 .. a : u[i] = s[i]
    BY <1>1
  <2>3. \A i \in 1 .. b - a : v[i] = s[a + i]
    <3> SUFFICES ASSUME NEW i \in 1 .. b - a PROVE v[i] = s[a + i]
      OBVIOUS
    <3>1. i \in 1 .. b + 1 - (a + 1) /\ (a + 1) + i - 1 = a + i
      OBVIOUS
    <3> QED
      BY <1>2, <3>1
  <2>4. \A i \in 1 .. b : w[i] = s[i]
    BY <1>3
  <2> QED
    BY <1>1, <1>2, <1>3, <2>1, <2>2, <2>3, <2>4
<1> DEFINE p == u \o v
<1>5. /\ IsSeq(p) /\ Len(p) = Len(u) + Len(v)
      /\ \A i \in 1 .. Len(u) : p[i] = u[i]
      /\ \A i \in 1 .. Len(v) : p[Len(u) + i] = v[i]
  <2>1. IsSeq(u) /\ IsSeq(v)
    BY <1>4
  <2> QED
    BY <2>1, Concat
<1> HIDE DEF p
<1>6. Len(p) = b
  BY <1>4, <1>5
<1>7. \A i \in 1 .. b : p[i] = w[i]
  <2> SUFFICES ASSUME NEW i \in 1 .. b PROVE p[i] = s[i]
    BY <1>4
  <2>1. CASE i <= a
    BY <1>4, <1>5, <2>1
  <2>2. CASE i > a
    <3>1. i - a \in 1 .. b - a /\ a + (i - a) = i
      BY <2>2
    <3>2. p[a + (i - a)] = v[i - a] /\ v[i - a] = s[a + (i - a)]
      BY <1>4, <1>5, <3>1
    <3> QED
      BY <3>1, <3>2
  <2> QED
    BY <2>1, <2>2
<1>8. p = w
  <2>1. IsSeq(p) /\ IsSeq(w) /\ Len(p) = Len(w) /\ \A i \in 1 .. Len(p) : p[i] = w[i]
    BY <1>4, <1>5, <1>6, <1>7
  <2> QED
    BY <2>1, SeqExt
<1> QED
  BY <1>8 DEF p, u, v, w

\* Division with rest.
LEMMA Division ==
  ASSUME NEW a \in Nat, NEW k \in Nat, k > 0
  PROVE  a \div k \in Nat /\ (a \div k) * k <= a /\ a < (a \div k) * k + k
  OBVIOUS

\* Products the provers need a hint for.
LEMMA Product ==
  ASSUME NEW q \in Nat, NEW k \in Nat
  PROVE  /\ (k + 1) * q = k * q + q /\ k * q \in Nat /\ k * q = q * k /\ 0 * q = 0
         /\ k > 0 => (q * k) \div k = q
         /\ \A j \in Nat : j <= k => j * q <= k * q
  OBVIOUS

\* The width of a shard.
PaddedWidth(d) == (1 + Len(d) + DATA_SHARDS - 1) \div DATA_SHARDS

\* The padded data fills the data shards and starts with its length.
LEMMA PaddedIs ==
  ASSUME NEW d, IsSeq(d)
  PROVE  /\ IsSeq(Padded(d)) /\ PaddedWidth(d) \in Nat /\ Len(d) \in Nat
         /\ Len(Padded(d)) = PaddedWidth(d) * DATA_SHARDS /\ Len(Padded(d)) >= 1 + Len(d)
         /\ Padded(d)[1] = Len(d) /\ SubSeq(Padded(d), 2, 1 + Len(d)) = d
<1> DEFINE k == DATA_SHARDS
<1> DEFINE n == Len(d)
<1> DEFINE q == PaddedWidth(d)
<1>1. k \in Nat /\ k > 0 /\ n \in Nat
  BY SyncAssumption, LenIs
<1>2. q \in Nat /\ q * k <= n + k /\ n + k < q * k + k /\ q * k \in Nat
  <2>1. 1 + n + k - 1 = n + k /\ n + k \in Nat
    BY <1>1
  <2>2. q = (n + k) \div k
    BY <2>1 DEF PaddedWidth
  <2> HIDE DEF q, n, k
  <2>3. q \in Nat /\ q * k <= n + k /\ n + k < q * k + k
    BY <1>1, <2>1, <2>2, Division
  <2>4. q * k \in Nat
    BY <1>1, <2>3, Product
  <2> QED
    BY <2>3, <2>4
<1>3. pad_len(Len(d), DATA_SHARDS) = q * k
  BY DEF pad_len, PaddedWidth
<1> DEFINE z == q * k - 1 - n
<1> DEFINE zeros == [i \in 1 .. z |-> 0]
<1> DEFINE m == prefixed(d)
<1> DEFINE p == Padded(d)
<1>4. IsJoin(p, m, zeros)
  BY <1>3 DEF Padded, prefixed, IsJoin
<1> HIDE DEF q, k, n
<1>5. z \in Nat
  BY <1>1, <1>2
<1> HIDE DEF z
<1>6. IsSeq(zeros) /\ Len(zeros) = z
  <2>1. zeros = [i \in 1 .. z |-> zeros[i]]
    OBVIOUS
  <2> HIDE DEF zeros
  <2> QED
    BY <1>5, <2>1, MadeSeq
<1>7. IsSeq(m) /\ Len(m) = n + 1
  BY PrefixedIs DEF n
<1> HIDE DEF zeros, m, p
<1>8. IsSeq(p) /\ Len(p) = Len(m) + Len(zeros) /\ Holds(p, 1, m)
  <2>1. IsSeq(m) /\ IsSeq(zeros)
    BY <1>6, <1>7
  <2> QED
    BY <1>4, <2>1, Joined
<1>9. Len(p) = q * k /\ Len(p) >= 1 + n
  <2> DEFINE r == q * k
  <2>1. r \in Nat /\ z = r - 1 - n
    BY <1>2 DEF z
  <2> HIDE DEF r
  <2>2. Len(p) = r /\ Len(p) >= 1 + n
    BY <1>1, <1>5, <1>6, <1>7, <1>8, <2>1
  <2> QED
    BY <2>2 DEF r
<1>10. p[1] = n /\ SubSeq(p, 2, 1 + n) = d
  <2>1. Holds(p, 1, prefixed(d))
    BY <1>8 DEF m
  <2>2. p[1] = Len(d) /\ SubSeq(p, 1 + 1, 1 + Len(d)) = d
    BY <2>1, HoldsPrefixed
  <2> QED
    BY <2>2 DEF n
<1> QED
  BY <1>1, <1>2, <1>8, <1>9, <1>10 DEF p, q, k, n

\* The data shards.
RsData(d) ==
    LET size == Len(Padded(d)) \div DATA_SHARDS
    IN  [i \in 1 .. DATA_SHARDS |-> SubSeq(Padded(d), (i - 1) * size + 1, ((i - 1) + 1) * size)]

\* They are the padded data, cut.
LEMMA RsDataIs ==
  ASSUME NEW d, IsSeq(d)
  PROVE  Strings(RsData(d)) /\ Len(RsData(d)) = DATA_SHARDS /\ FlattenSeq(RsData(d)) = Padded(d)
<1> DEFINE k == DATA_SHARDS
<1> DEFINE p == Padded(d)
<1> DEFINE q == PaddedWidth(d)
<1> DEFINE f == RsData(d)
<1>1. k \in Nat /\ k > 0
  BY SyncAssumption
<1>2. IsSeq(p) /\ q \in Nat /\ Len(p) = q * k
  BY PaddedIs
<1> HIDE DEF p, q, k
<1>3. Len(p) \div k = q
  BY <1>1, <1>2, Product
<1>4. f = [i \in 1 .. k |-> SubSeq(p, (i - 1) * q + 1, ((i - 1) + 1) * q)]
  BY <1>3 DEF RsData, k, p
<1> HIDE DEF f
<1>5. IsSeq(f) /\ Len(f) = k
  <2>1. f = [i \in 1 .. k |-> f[i]]
    BY <1>4
  <2> QED
    BY <1>1, <2>1, MadeSeq
<1>6. ASSUME NEW m \in Nat, m < k
      PROVE  /\ f[m + 1] = SubSeq(p, m * q + 1, (m + 1) * q)
             /\ m * q \in Nat /\ (m + 1) * q = m * q + q /\ (m + 1) * q <= Len(p)
  <2>1. m + 1 \in 1 .. k /\ (m + 1) - 1 = m /\ m + 1 <= k /\ m + 1 \in Nat
    BY <1>1, <1>6
  <2>2. f[m + 1] = SubSeq(p, m * q + 1, (m + 1) * q)
    BY <1>4, <2>1
  <2>3. m * q \in Nat /\ (m + 1) * q = m * q + q
    BY <1>2, Product
  <2>4. (m + 1) * q <= k * q /\ k * q = q * k
    BY <1>1, <1>2, <2>1, Product
  <2> QED
    BY <1>2, <2>2, <2>3, <2>4
<1>7. \A i \in 1 .. k : IsSeq(f[i])
  <2> SUFFICES ASSUME NEW i \in 1 .. k PROVE IsSeq(f[i])
    OBVIOUS
  <2> DEFINE m == i - 1
  <2>1. m \in Nat /\ m < k /\ m + 1 = i
    BY <1>1
  <2> HIDE DEF m
  <2>2. /\ f[i] = SubSeq(p, m * q + 1, (m + 1) * q)
        /\ m * q \in Nat /\ (m + 1) * q = m * q + q /\ (m + 1) * q <= Len(p)
    BY <1>6, <2>1
  <2> DEFINE a == m * q + 1
  <2> DEFINE b == (m + 1) * q
  <2>3. a \in Nat \ {0} /\ b \in Nat /\ a <= b + 1 /\ b <= Len(p)
    BY <1>2, <2>2
  <2> HIDE DEF a, b
  <2>4. IsSeq(SubSeq(p, a, b))
    BY <1>2, <2>3, Sub
  <2> QED
    BY <2>2, <2>4 DEF a, b
<1> DEFINE F(m) == FlattenSeq([h \in 1 .. m |-> f[h]])
<1> DEFINE P == {m \in Nat : m <= k => F(m) = SubSeq(p, 1, m * q)}
<1>8. 0 \in P
  <2>1. 0 * q = 0
    BY <1>2, Product
  <2>2. SubSeq(p, 1, 0) = <<>>
    BY <1>2 DEF IsSeq
  <2>3. [h \in 1 .. 0 |-> f[h]] = <<>>
    OBVIOUS
  <2>4. FlattenSeq(<<>>) = <<>>
    BY FlattenIs, TupleIs
  <2> QED
    BY <2>1, <2>2, <2>3, <2>4
<1>9. ASSUME NEW m \in Nat, m \in P PROVE m + 1 \in P
  <2> SUFFICES ASSUME m + 1 <= k PROVE F(m + 1) = SubSeq(p, 1, (m + 1) * q)
    OBVIOUS
  <2>1. m < k /\ m <= k /\ \A h \in 1 .. m + 1 : h \in 1 .. k
    BY <1>1
  <2>2. F(m) = SubSeq(p, 1, m * q)
    BY <1>9, <2>1
  <2>3. /\ f[m + 1] = SubSeq(p, m * q + 1, (m + 1) * q)
        /\ m * q \in Nat /\ (m + 1) * q = m * q + q /\ (m + 1) * q <= Len(p)
    BY <1>6, <2>1
  <2>4. F(m + 1) = F(m) \o f[m + 1]
    <3>1. \A h \in 1 .. m + 1 : IsSeq(f[h])
      BY <1>7, <2>1
    <3> QED
      BY <3>1, RunsMore
  <2> DEFINE a == m * q
  <2> DEFINE b == (m + 1) * q
  <2>5. a \in Nat /\ b \in Nat /\ a <= b /\ b <= Len(p)
    BY <1>2, <2>3
  <2> HIDE DEF a, b
  <2>6. SubSeq(p, 1, a) \o SubSeq(p, a + 1, b) = SubSeq(p, 1, b)
    BY <1>2, <2>5, SubJoin
  <2> HIDE DEF F
  <2> QED
    BY <2>2, <2>3, <2>4, <2>6 DEF a, b
<1> HIDE DEF P
<1>10. k \in P
  BY <1>1, <1>8, <1>9, NumberInduction
<1>11. F(k) = SubSeq(p, 1, Len(p))
  BY <1>1, <1>2, <1>10, Product DEF P
<1>12. SubSeq(p, 1, Len(p)) = p
  BY <1>2, HoldsAll, HoldsSub, LenIs
<1>13. [h \in 1 .. k |-> f[h]] = f
  BY <1>4
<1>14. FlattenSeq(f) = p
  BY <1>11, <1>12, <1>13
<1>15. Strings(f)
  BY <1>5, <1>7 DEF Strings
<1> QED
  BY <1>5, <1>14, <1>15 DEF f, k, p

\* The parity shards.
RsParity(d) == [j \in 1 .. PARITY_SHARDS |-> <<"parity", j, RsData(d)>>]

\* rs_encode gives the data shards and then the parity shards.
LEMMA RsEncodeIs ==
  ASSUME NEW d, IsSeq(d)
  PROVE  /\ Shards \in Nat /\ Shards > 1 /\ DATA_SHARDS \in Nat /\ DATA_SHARDS > 0
         /\ DATA_SHARDS < Shards
         /\ \A i \in 1 .. DATA_SHARDS : rs_encode(d)[i] = RsData(d)[i]
         /\ \A i \in 1 .. Shards : i > DATA_SHARDS => rs_encode(d)[i][3] = RsData(d)
         /\ \A i \in 1 .. Shards : IsSeq(rs_encode(d)[i])
<1> DEFINE a == RsData(d)
<1> DEFINE b == RsParity(d)
<1> DEFINE e == rs_encode(d)
<1>1. /\ Shards \in Nat /\ Shards > 1 /\ DATA_SHARDS \in Nat /\ DATA_SHARDS > 0
      /\ PARITY_SHARDS \in Nat /\ Shards = DATA_SHARDS + PARITY_SHARDS /\ DATA_SHARDS < Shards
  BY SyncAssumption DEF Shards
<1>2. IsJoin(e, a, b)
  BY DEF rs_encode, RsData, RsParity, IsJoin
<1>3. Strings(a) /\ Len(a) = DATA_SHARDS
  BY RsDataIs
<1>4. IsSeq(b) /\ Len(b) = PARITY_SHARDS
  <2>1. b = [j \in 1 .. PARITY_SHARDS |-> b[j]]
    BY DEF RsParity
  <2> HIDE DEF b
  <2> QED
    BY <1>1, <2>1, MadeSeq
<1>5. \A j \in 1 .. PARITY_SHARDS : b[j] = <<"parity", j, a>>
  BY DEF RsParity
<1> HIDE DEF a, b, e
<1>6. IsSeq(a) /\ \A i \in 1 .. Len(a) : IsSeq(a[i])
  BY <1>3 DEF Strings
<1>7. /\ \A i \in 1 .. Len(a) : e[i] = a[i]
      /\ \A i \in 1 .. Len(b) : e[Len(a) + i] = b[i]
  <2>1. IsSeq(a) /\ IsSeq(b)
    BY <1>4, <1>6
  <2> QED
    BY <1>2, <2>1, Joined
<1>8. \A i \in 1 .. DATA_SHARDS : e[i] = a[i]
  BY <1>3, <1>7
<1>9. ASSUME NEW i \in 1 .. Shards, i > DATA_SHARDS
      PROVE  e[i] = <<"parity", i - DATA_SHARDS, a>>
  <2>1. i - DATA_SHARDS \in 1 .. PARITY_SHARDS /\ DATA_SHARDS + (i - DATA_SHARDS) = i
    BY <1>1, <1>9
  <2>2. e[DATA_SHARDS + (i - DATA_SHARDS)] = b[i - DATA_SHARDS]
    BY <1>3, <1>4, <1>7, <2>1
  <2> QED
    BY <1>5, <2>1, <2>2
<1>10. \A i \in 1 .. Shards : i > DATA_SHARDS => e[i][3] = a
  BY <1>9
<1>11. ASSUME NEW i \in 1 .. Shards PROVE IsSeq(e[i])
  <2>1. CASE i > DATA_SHARDS
    <3>1. e[i] = <<"parity", i - DATA_SHARDS, a>>
      BY <1>9, <2>1
    <3>2. \A x, y, z : IsSeq(<<x, y, z>>)
      BY TupleIs
    <3>3. IsSeq(<<"parity", i - DATA_SHARDS, a>>)
      BY <3>2, Zenon
    <3> QED
      BY <3>1, <3>3
  <2>2. CASE ~(i > DATA_SHARDS)
    <3>1. i \in 1 .. DATA_SHARDS
      BY <1>1, <2>2
    <3> QED
      BY <1>3, <1>6, <1>8, <3>1
  <2> QED
    BY <2>1, <2>2
<1> QED
  BY <1>1, <1>8, <1>10, <1>11 DEF a, e

\* The body whose shards are published.
Body0 == encode_block_body(BlockAt(0))

\* The shards.
Code0 == rs_encode(Body0)

\* What is known of them.
LEMMA Code0Is ==
  /\ IsSeq(Body0) /\ decode_block_body(Body0) = {BlockAt(0)}
  /\ Shards \in Nat /\ Shards > 1 /\ DATA_SHARDS \in Nat /\ DATA_SHARDS > 0 /\ DATA_SHARDS < Shards
  /\ \A i \in 1 .. DATA_SHARDS : Code0[i] = RsData(Body0)[i]
  /\ \A i \in 1 .. Shards : i > DATA_SHARDS => Code0[i][3] = RsData(Body0)
  /\ \A i \in 1 .. Shards : IsSeq(Code0[i])
<1>1. 0 \in Heights
  BY BodiesAssumption, LenIs DEF Heights
<1>2. IsBlock(BlockAt(0))
  BY <1>1, CommittedIs
<1>3. IsSeq(Body0) /\ decode_block_body(Body0) = {BlockAt(0)}
  BY <1>2, BodyRound DEF Body0, Ok
<1> QED
  BY <1>3, RsEncodeIs DEF Code0

\* The i-th, with its index.
Shard(i) == [index |-> i - 1, payload |-> Code0[i]]

\* The leaves of the tree over them.
Leaves0 == [i \in 1 .. Shards |-> leaf_bytes(Shard(i))]

\* The leaf of a shard has its index in it.
LEMMA LeafDiffers ==
  ASSUME NEW a, NEW b, a.payload = b.payload, IsSeq(a.payload), leaf_bytes(a) = leaf_bytes(b)
  PROVE  a.index = b.index
<1>1. IsSeq(<<a.index>>) /\ Len(<<a.index>>) = 1 /\ IsSeq(<<b.index>>) /\ Len(<<b.index>>) = 1
  BY TupleIs
<1> DEFINE u == <<a.index>>
<1> DEFINE v == <<b.index>>
<1> DEFINE s == a.payload
<1>2. u[1] = a.index /\ v[1] = b.index
  OBVIOUS
<1>3. u \o s = v \o s
  BY DEF leaf_bytes
<1>4. IsSeq(u) /\ IsSeq(v) /\ IsSeq(s) /\ 1 \in 1 .. Len(u) /\ 1 \in 1 .. Len(v)
  BY <1>1
<1> HIDE DEF u, v, s
<1>5. (u \o s)[1] = u[1] /\ (v \o s)[1] = v[1]
  BY <1>4, Concat
<1> QED
  BY <1>2, <1>3, <1>5

\* The chunks published verify at their index and nowhere else.
LEMMA PublishedIs ==
  /\ DOMAIN Published.proven = 1 .. Shards
  /\ \A i \in 1 .. Shards :
        LET c == Published.proven[i]
        IN  /\ IsChunk(c) /\ c.shard = Shard(i)
            /\ \A s : merkle_verify(leaf_bytes(s), c.proof, Published.root)
                        <=> leaf_bytes(s) = leaf_bytes(Shard(i))
<1>0. Shards \in Nat /\ Shards > 1
  BY Code0Is
<1>1. /\ Published.root = compute_root(Leaves0)
      /\ Published.proven = [i \in 1 .. Shards |-> [shard |-> Shard(i),
                                                    proof |-> merkle_prove(Leaves0, i - 1)]]
  <2> DEFINE sp == split(BlockAt(0))
  <2>1. sp = [i \in 1 .. Shards |-> Shard(i)]
    BY DEF split, Shard, Code0, Body0
  <2>2. [i \in 1 .. Shards |-> leaf_bytes(sp[i])] = Leaves0
    BY <2>1 DEF Leaves0
  <2>3. \A i \in 1 .. Shards : sp[i] = Shard(i)
    BY <2>1
  <2> HIDE DEF sp
  <2> DEFINE lv == [i \in 1 .. Shards |-> leaf_bytes(sp[i])]
  <2> HIDE DEF lv
  <2>4. Published = [root |-> compute_root(lv),
                     proven |-> [i \in 1 .. Shards |-> [shard |-> sp[i],
                                                        proof |-> merkle_prove(lv, i - 1)]]]
    BY DEF Published, da_commit, sp, lv
  <2>5. lv = Leaves0
    BY <2>2 DEF lv
  <2> QED
    BY <2>3, <2>4, <2>5
<1>2. IsSeq(Leaves0) /\ Len(Leaves0) = Shards
  <2>1. Leaves0 = [i \in 1 .. Shards |-> Leaves0[i]]
    BY DEF Leaves0
  <2> QED
    BY <1>0, <2>1, MadeSeq
<1>3. ASSUME NEW i \in 1 .. Shards
      PROVE  /\ IsChunk(Published.proven[i]) /\ Published.proven[i].shard = Shard(i)
             /\ \A s : merkle_verify(leaf_bytes(s), Published.proven[i].proof, Published.root)
                         <=> leaf_bytes(s) = leaf_bytes(Shard(i))
  <2> DEFINE pf == merkle_prove(Leaves0, i - 1)
  <2> DEFINE c == Published.proven[i]
  <2>1. c = [shard |-> Shard(i), proof |-> pf]
    BY <1>1
  <2>2. i - 1 \in 0 .. Len(Leaves0) - 1 /\ Len(Leaves0) >= 1 /\ (i - 1) + 1 = i
    BY <1>0, <1>2
  <2>3. /\ pf = [leaf_index |-> i - 1, siblings |-> pf.siblings] /\ IsSeq(pf.siblings)
        /\ \A x : merkle_verify(x, pf, compute_root(Leaves0)) <=> x = Leaves0[(i - 1) + 1]
    BY <1>2, <2>2, MerkleComplete
  <2>4. Leaves0[i] = leaf_bytes(Shard(i))
    BY DEF Leaves0
  <2> HIDE DEF pf, c
  <2>5. c.shard = Shard(i) /\ c.proof = pf
    BY <2>1
  <2>6. /\ Shard(i) = [index |-> Shard(i).index, payload |-> Shard(i).payload]
        /\ IsSeq(Shard(i).payload)
    BY Code0Is DEF Shard
  <2>7. pf = [leaf_index |-> pf.leaf_index, siblings |-> pf.siblings]
    BY <2>3
  <2>8. IsChunk(c)
    BY <2>1, <2>3, <2>5, <2>6, <2>7 DEF IsChunk
  <2>9. \A s : merkle_verify(leaf_bytes(s), c.proof, Published.root) <=> leaf_bytes(s) = leaf_bytes(Shard(i))
    BY <1>1, <2>2, <2>3, <2>4, <2>5
  <2> QED
    BY <2>5, <2>8, <2>9 DEF c
<1>4. DOMAIN Published.proven = 1 .. Shards
  BY <1>1
<1> QED
  BY <1>3, <1>4

\* A chunk frame is heard as the chunk it holds, if its proof is right.
LEMMA ChunkHeard ==
  ASSUME NEW c, IsChunk(c)
  PROVE  \A f \in decode_frame(ChunkFrame(c)) : \A m \in ingest(f.kind, f.inner) :
            m = c /\ verify_chunk(Published.root, c)
<1>1. IsSeq(encode_da_chunk(c)) /\ decode_da_chunk(encode_da_chunk(c)) = {c}
  <2>1. PICK p : IsSeq(p) /\ encode_da_chunk(c) = encode(p)
    BY ChunkRound
  <2>2. IsSeq(encode(p))
    BY <2>1, EncodeIs
  <2> QED
    BY <2>1, <2>2, ChunkRound DEF Ok
<1>2. "DaChunk" \in DOMAIN Kinds
  BY DEF Kinds
<1>3. decode_frame(ChunkFrame(c)) = {[kind |-> "DaChunk", inner |-> encode_da_chunk(c)]}
  BY <1>1, <1>2, FrameRound DEF ChunkFrame, Ok
<1>4. ingest("DaChunk", encode_da_chunk(c))
        = {m \in decode_da_chunk(encode_da_chunk(c)) : verify_chunk(Published.root, m)}
  BY DEF ingest, Gate
<1> QED
  BY <1>1, <1>3, <1>4

\* Inductive: a chunk held under an index is the one published under it.
ChunksHeld ==
    \A i \in DOMAIN held :
        /\ i \in 0 .. Shards - 1 /\ held[i] = Published.proven[i + 1]
        /\ verify_chunk(Published.root, held[i])

\* A chunk with another index is refused.
LEMMA BadChunkRefused ==
  ASSUME NEW i \in 1 .. Shards, NEW c,
         c = [Published.proven[i] EXCEPT !.shard.index = (@ + 1) % Shards]
  PROVE  IsChunk(c) /\ ~verify_chunk(Published.root, c)
<1> DEFINE g == Published.proven[i]
<1> DEFINE j == i % Shards
<1> DEFINE s == [index |-> j, payload |-> Code0[i]]
<1>0. Shards \in Nat /\ Shards > 1 /\ IsSeq(Code0[i])
  BY Code0Is
<1>1. /\ IsChunk(g) /\ g.shard = Shard(i)
      /\ \A x : merkle_verify(leaf_bytes(x), g.proof, Published.root)
                  <=> leaf_bytes(x) = leaf_bytes(Shard(i))
  BY PublishedIs
<1>2. /\ g = [shard |-> g.shard, proof |-> g.proof]
      /\ g.proof = [leaf_index |-> g.proof.leaf_index, siblings |-> g.proof.siblings]
      /\ IsSeq(g.proof.siblings)
  BY <1>1 DEF IsChunk
<1> HIDE DEF g
<1>3. c = [shard |-> s, proof |-> g.proof]
  <2>1. g.shard = [index |-> i - 1, payload |-> Code0[i]]
    BY <1>1 DEF Shard
  <2>2. (i - 1) + 1 = i
    BY <1>0
  <2> DEFINE y == (g.shard.index + 1) % Shards
  <2>3. y = j
    BY <2>1, <2>2
  <2> HIDE DEF y, j
  <2>4. c = [g EXCEPT !.shard = [g.shard EXCEPT !.index = y]]
    BY DEF y, g
  <2>5. [g.shard EXCEPT !.index = y] = s
    BY <2>1, <2>3
  <2> HIDE DEF s
  <2>6. c = [g EXCEPT !.shard = s]
    BY <2>4, <2>5
  <2> QED
    BY <1>2, <2>6
<1>4. j # i - 1
  <2>1. CASE i = Shards
    BY <1>0, <2>1
  <2>2. CASE i # Shards
    <3>1. i < Shards /\ i \in Nat
      BY <1>0, <2>2
    <3>2. i % Shards = i
      BY <1>0, <3>1
    <3> QED
      BY <1>0, <3>2
  <2> QED
    BY <2>1, <2>2
<1>5. s.index = j /\ s.payload = Code0[i] /\ s = [index |-> s.index, payload |-> s.payload]
      /\ Shard(i).index = i - 1 /\ Shard(i).payload = Code0[i]
  BY DEF Shard
<1> HIDE DEF s, j
<1>6. c.shard = s /\ c.proof = g.proof
  BY <1>3
<1>7. IsChunk(c)
  BY <1>0, <1>2, <1>3, <1>5, <1>6 DEF IsChunk
<1>8. leaf_bytes(s) # leaf_bytes(Shard(i))
  BY <1>0, <1>4, <1>5, LeafDiffers
<1>9. ~verify_chunk(Published.root, c)
  BY <1>1, <1>6, <1>8 DEF verify_chunk
<1> QED
  BY <1>7, <1>9

\* ChunksHeld is inductive.
LEMMA ChunksHeldStep ==
  ASSUME ChunksHeld, [Next]_vars
  PROVE  ChunksHeld'
<1>1. ASSUME NEW f \in ChunkFrames, HearChunk(f) PROVE ChunksHeld'
  <2>1. PICK g \in decode_frame(f) : \E m \in ingest(g.kind, g.inner) : held' = Put(held, m.shard.index, m)
    BY <1>1 DEF HearChunk
  <2>2. PICK m \in ingest(g.kind, g.inner) : held' = Put(held, m.shard.index, m)
    BY <2>1
  <2>3. PICK c \in Range(Published.proven) \cup BadChunks : f = ChunkFrame(c)
    BY DEF ChunkFrames
  <2>4. CASE c \in BadChunks
    <3>1. PICK i \in 1 .. Shards : c = [Published.proven[i] EXCEPT !.shard.index = (@ + 1) % Shards]
      BY <2>4, PublishedIs DEF BadChunks, Range
    <3>2. IsChunk(c) /\ ~verify_chunk(Published.root, c)
      BY <3>1, BadChunkRefused
    <3> QED
      BY <2>1, <2>2, <2>3, <3>2, ChunkHeard
  <2>5. CASE c \in Range(Published.proven)
    <3>1. PICK i \in 1 .. Shards : c = Published.proven[i]
      BY <2>5, PublishedIs DEF Range
    <3>2. IsChunk(c) /\ c.shard = Shard(i)
      BY <3>1, PublishedIs
    <3>3. m = c /\ verify_chunk(Published.root, c)
      BY <2>1, <2>2, <2>3, <3>2, ChunkHeard
    <3>4. c.shard.index = i - 1 /\ i - 1 \in 0 .. Shards - 1 /\ (i - 1) + 1 = i
      BY <3>2, Code0Is DEF Shard
    <3>5. held' = Put(held, i - 1, c)
      BY <2>2, <3>3, <3>4
    <3>6. ASSUME NEW k \in DOMAIN held'
          PROVE  /\ k \in 0 .. Shards - 1 /\ held'[k] = Published.proven[k + 1]
                 /\ verify_chunk(Published.root, held'[k])
      <4>1. CASE k = i - 1
        <5>1. held'[k] = c
          BY <3>5, <4>1 DEF Put
        <5> QED
          BY <3>1, <3>3, <3>4, <4>1, <5>1
      <4>2. CASE k # i - 1
        <5>1. k \in DOMAIN held /\ held'[k] = held[k]
          BY <3>5, <3>6, <4>2 DEF Put
        <5> QED
          BY <5>1 DEF ChunksHeld
      <4> QED
        BY <4>1, <4>2
    <3> QED
      BY <3>6 DEF ChunksHeld
  <2> QED
    BY <2>4, <2>5
<1>2. ASSUME UNCHANGED held PROVE ChunksHeld'
  BY <1>2 DEF ChunksHeld
<1>3. CASE Publish
  BY <1>2, <1>3 DEF Publish
<1>4. CASE Delivery
  BY <1>2, <1>4, Delivered
<1>5. ASSUME NEW h \in Heights, bootstrap([height |-> h, header_hash |-> hash_preimage(Chain[h].header)])
      PROVE  ChunksHeld'
  BY <1>2, <1>5 DEF bootstrap
<1>6. ASSUME NEW f, Hear(f) PROVE ChunksHeld'
  <2>1. UNCHANGED held
    BY <1>6 DEF Hear
  <2> QED
    BY <1>2, <2>1
<1>7. CASE UNCHANGED vars
  BY <1>2, <1>7 DEF vars
<1> QED
  BY <1>1, <1>3, <1>4, <1>5, <1>6, <1>7 DEF Next, Delivery

\* The slots that rs::decode is given when the chunks of S are there.
SlotsOf(S) == [i \in 1 .. Shards |-> IF (i - 1) \in S THEN Some(Code0[i]) ELSE Absent]

\* Counting from 0 or from 1 counts the same.
LEMMA ShiftCount ==
  ASSUME NEW S \in SUBSET (0 .. Shards - 1)
  PROVE  /\ IsFiniteSet(S) /\ IsFiniteSet({i \in 1 .. Shards : (i - 1) \in S})
         /\ Cardinality({i \in 1 .. Shards : (i - 1) \in S}) = Cardinality(S)
<1> DEFINE T == {i \in 1 .. Shards : (i - 1) \in S}
<1>0. Shards \in Nat
  BY Code0Is
<1>1. IsFiniteSet(S)
  <2>1. IsFiniteSet(0 .. Shards - 1)
    BY <1>0, FS_Interval
  <2> QED
    BY <2>1, FS_Subset
<1> DEFINE f == [x \in S |-> x + 1]
<1>2. \A x \in S : x + 1 \in T /\ x \in Nat
  BY <1>0
<1>3. f \in Bijection(S, T)
  <2>1. f \in [S -> T]
    BY <1>2
  <2>2. \A x, y \in S : f[x] = f[y] => x = y
    BY <1>2
  <2>3. \A i \in T : \E x \in S : f[x] = i
    <3> SUFFICES ASSUME NEW i \in T PROVE \E x \in S : f[x] = i
      OBVIOUS
    <3>1. i - 1 \in S /\ (i - 1) + 1 = i
      BY <1>0
    <3> QED
      BY <3>1
  <2> HIDE DEF f, T
  <2> QED
    BY <2>1, <2>2, <2>3 DEF Bijection, Injection, Surjection, IsInjective
<1>4. ExistsBijection(S, T)
  BY <1>3 DEF ExistsBijection
<1> HIDE DEF T
<1>5. IsFiniteSet(T) /\ Cardinality(T) = Cardinality(S)
  BY <1>1, <1>4, FS_Bijection
<1> QED
  BY <1>1, <1>5 DEF T

\* The code rebuilds the data from any DATA_SHARDS shards, and not from fewer.
LEMMA ReconstructIs ==
  ASSUME NEW S \in SUBSET (0 .. Shards - 1)
  PROVE  RsReconstruct(SlotsOf(S))
           = IF Cardinality(S) >= DATA_SHARDS THEN Ok(RsData(Body0)) ELSE Err
<1> DEFINE slots == SlotsOf(S)
<1> DEFINE T == {i \in 1 .. Shards : (i - 1) \in S}
<1> DEFINE k == DATA_SHARDS
<1>0. /\ Shards \in Nat /\ k \in Nat /\ k > 0 /\ k < Shards
      /\ \A i \in 1 .. k : Code0[i] = RsData(Body0)[i]
      /\ \A i \in 1 .. Shards : i > k => Code0[i][3] = RsData(Body0)
  BY Code0Is
<1>1. IsFiniteSet(T) /\ Cardinality(T) = Cardinality(S) /\ Cardinality(S) \in Nat
  BY ShiftCount, FS_CardinalityType
<1>2. \A i \in 1 .. Shards : slots[i] = IF i \in T THEN Some(Code0[i]) ELSE Absent
  BY DEF SlotsOf
<1>3. \A x : Some(x) # Absent /\ Some(x)[1] = x
  BY DEF Some, Absent
<1> HIDE DEF slots
<1>4. {i \in 1 .. Shards : slots[i] # Absent} = T
  <2>1. T \subseteq 1 .. Shards
    OBVIOUS
  <2> HIDE DEF T
  <2> QED
    BY <1>2, <1>3, <2>1
<1>5. \A i \in T : slots[i][1] = Code0[i] /\ i \in 1 .. Shards
  <2>1. T \subseteq 1 .. Shards
    OBVIOUS
  <2> HIDE DEF T
  <2> QED
    BY <1>2, <1>3, <2>1
<1> HIDE DEF T
<1> DEFINE Q == {i \in T : i > k}
<1>6. RsReconstruct(slots)
        = IF Cardinality(T) < k THEN Err
          ELSE IF 1 .. k \subseteq T
               THEN Ok([i \in 1 .. k |-> slots[i][1]])
               ELSE Ok(slots[CHOOSE i \in Q : TRUE][1][3])
  <2> DEFINE present == {i \in 1 .. Shards : slots[i] # Absent}
  <2>1. RsReconstruct(slots)
          = IF Cardinality(present) < k THEN Err
            ELSE IF 1 .. k \subseteq present
                 THEN Ok([i \in 1 .. k |-> slots[i][1]])
                 ELSE Ok(slots[CHOOSE i \in {i \in present : i > k} : TRUE][1][3])
    BY DEF RsReconstruct
  <2>2. present = T
    BY <1>4
  <2> HIDE DEF present
  <2> QED
    BY <2>1, <2>2
<1>a. SUFFICES RsReconstruct(slots) = IF Cardinality(S) >= k THEN Ok(RsData(Body0)) ELSE Err
  BY DEF slots
<1>7. CASE Cardinality(S) < k
  BY <1>0, <1>1, <1>6, <1>7
<1>8. CASE ~(Cardinality(S) < k) /\ 1 .. k \subseteq T
  <2>1. [i \in 1 .. k |-> slots[i][1]] = [i \in 1 .. k |-> RsData(Body0)[i]]
    BY <1>0, <1>5, <1>8
  <2>2. RsData(Body0) = [i \in 1 .. k |-> RsData(Body0)[i]]
    BY DEF RsData
  <2>3. [i \in 1 .. k |-> slots[i][1]] = RsData(Body0)
    BY <2>1, <2>2
  <2>4. Cardinality(S) >= k /\ ~(Cardinality(T) < k)
    BY <1>0, <1>1, <1>8
  <2> QED
    BY <1>6, <1>8, <2>3, <2>4
<1>9. CASE ~(Cardinality(S) < k) /\ ~(1 .. k \subseteq T)
  <2>1. Q # {}
    <3> SUFFICES ASSUME Q = {} PROVE FALSE
      OBVIOUS
    <3>1. T \subseteq 1 .. k
      <4> SUFFICES ASSUME NEW i \in T PROVE i \in 1 .. k
        OBVIOUS
      <4>1. i \in 1 .. Shards /\ ~(i > k)
        BY <1>5
      <4> QED
        BY <1>0, <4>1
    <3>2. IsFiniteSet(1 .. k) /\ Cardinality(1 .. k) = k
      BY <1>0, FS_Interval
    <3>3. Cardinality(T) <= k /\ (Cardinality(1 .. k) = Cardinality(T) => 1 .. k = T)
      BY <3>1, <3>2, FS_Subset
    <3>4. Cardinality(T) = k
      BY <1>0, <1>1, <1>9, <3>3
    <3> QED
      BY <1>9, <3>2, <3>3, <3>4
  <2> DEFINE i == CHOOSE c \in Q : TRUE
  <2>2. i \in Q
    BY <2>1
  <2> HIDE DEF i
  <2>3. i \in T /\ i > k
    BY <2>2
  <2>4. slots[i][1][3] = RsData(Body0)
    BY <1>0, <1>5, <2>3
  <2>5. Cardinality(S) >= k /\ ~(Cardinality(T) < k)
    BY <1>0, <1>1, <1>9
  <2>6. RsReconstruct(slots) = Ok(slots[i][1][3])
    BY <1>6, <1>9, <2>5 DEF i
  <2> QED
    BY <2>4, <2>5, <2>6
<1> QED
  BY <1>7, <1>8, <1>9 DEF slots

\* reconstruct gives the block back from any DATA_SHARDS shards.
LEMMA RebuildIs ==
  ASSUME NEW S \in SUBSET (0 .. Shards - 1)
  PROVE  reconstruct(SlotsOf(S)) = IF Cardinality(S) >= DATA_SHARDS THEN Ok(BlockAt(0)) ELSE Err
<1> DEFINE slots == SlotsOf(S)
<1> DEFINE data == RsData(Body0)
<1>1. RsReconstruct(slots) = IF Cardinality(S) >= DATA_SHARDS THEN {data} ELSE {}
  BY ReconstructIs DEF Ok, Err
<1>2. IsSeq(Body0) /\ decode_block_body(Body0) = {BlockAt(0)}
  BY Code0Is
<1>3. FlattenSeq(data) = Padded(Body0)
  BY <1>2, RsDataIs
<1>4. /\ Len(Body0) \in Nat /\ Len(Padded(Body0)) >= 1 + Len(Body0) /\ Len(Padded(Body0)) \in Nat
      /\ Padded(Body0)[1] = Len(Body0) /\ SubSeq(Padded(Body0), 2, 1 + Len(Body0)) = Body0
  BY <1>2, PaddedIs, LenIs
<1> DEFINE G(x) == IF FlattenSeq(x)[1] > Len(FlattenSeq(x)) - 1 THEN Err
                   ELSE Ok(SubSeq(FlattenSeq(x), 2, 1 + FlattenSeq(x)[1]))
<1>5. rs_decode(slots) = UNION {G(x) : x \in RsReconstruct(slots)}
  BY DEF rs_decode, Then
<1> HIDE DEF slots, data
<1>6. G(data) = {Body0}
  <2>1. ~(FlattenSeq(data)[1] > Len(FlattenSeq(data)) - 1)
    BY <1>3, <1>4
  <2>2. SubSeq(FlattenSeq(data), 2, 1 + FlattenSeq(data)[1]) = Body0
    BY <1>3, <1>4
  <2> QED
    BY <2>1, <2>2 DEF Ok
<1> HIDE DEF G
<1>7. reconstruct(slots) = UNION {decode_block_body(x) : x \in rs_decode(slots)}
  BY DEF reconstruct, Then
<1>8. CASE Cardinality(S) >= DATA_SHARDS
  <2>1. rs_decode(slots) = {Body0}
    BY <1>1, <1>5, <1>6, <1>8
  <2>2. reconstruct(slots) = decode_block_body(Body0)
    BY <1>7, <2>1
  <2> QED
    BY <1>2, <1>8, <2>2 DEF Ok, slots
<1>9. CASE ~(Cardinality(S) >= DATA_SHARDS)
  <2>1. rs_decode(slots) = {}
    BY <1>1, <1>5, <1>9
  <2>2. reconstruct(slots) = {}
    BY <1>7, <2>1
  <2> QED
    BY <1>9, <2>2 DEF Err, slots
<1> QED
  BY <1>8, <1>9

\* What is held is enough to rebuild the block exactly when there are enough of
\* them.
LEMMA HeldRebuilds ==
  ASSUME ChunksHeld
  PROVE  ChunksRebuild
<1>0. Shards \in Nat /\ SAMPLE_COUNT \in Nat
  BY Code0Is, SyncAssumption
<1>1. ASSUME NEW S \in SUBSET DOMAIN held
      PROVE  LET slots == [i \in 1 .. Shards |-> IF (i - 1) \in S THEN Some(held[i - 1].shard.payload)
                                                 ELSE Absent]
             IN  reconstruct(slots) = IF Cardinality(S) >= DATA_SHARDS THEN Ok(BlockAt(0)) ELSE Err
  <2>1. S \in SUBSET (0 .. Shards - 1)
    BY DEF ChunksHeld
  <2>2. \A i \in 1 .. Shards : (i - 1) \in S => held[i - 1].shard.payload = Code0[i]
    <3> SUFFICES ASSUME NEW i \in 1 .. Shards, (i - 1) \in S PROVE held[i - 1].shard.payload = Code0[i]
      OBVIOUS
    <3>1. (i - 1) + 1 = i
      BY <1>0
    <3>2. held[i - 1] = Published.proven[i]
      BY <3>1 DEF ChunksHeld
    <3>3. Published.proven[i].shard = Shard(i)
      BY PublishedIs
    <3> QED
      BY <3>2, <3>3 DEF Shard
  <2>3. [i \in 1 .. Shards |-> IF (i - 1) \in S THEN Some(held[i - 1].shard.payload) ELSE Absent]
          = SlotsOf(S)
    BY <2>2 DEF SlotsOf
  <2> QED
    BY <2>1, <2>3, RebuildIs
<1>2. ASSUME NEW q \in kSubset(SAMPLE_COUNT, 0 .. Shards - 1)
      PROVE  fail_closed(sample(Published.root, held, q)) <=> q \subseteq DOMAIN held
  <2> DEFINE m == q \cap DOMAIN held
  <2>1. q \subseteq 0 .. Shards - 1 /\ Cardinality(q) = SAMPLE_COUNT
    BY DEF kSubset
  <2>2. \A i \in DOMAIN held : held[i].shard.index = i /\ verify_chunk(Published.root, held[i])
    <3> SUFFICES ASSUME NEW i \in DOMAIN held
                 PROVE  held[i].shard.index = i /\ verify_chunk(Published.root, held[i])
      OBVIOUS
    <3>1. i \in 0 .. Shards - 1 /\ held[i] = Published.proven[i + 1] /\ verify_chunk(Published.root, held[i])
      BY DEF ChunksHeld
    <3>2. i + 1 \in 1 .. Shards /\ (i + 1) - 1 = i
      BY <1>0, <3>1
    <3>3. Published.proven[i + 1].shard = Shard(i + 1)
      BY <3>2, PublishedIs
    <3> QED
      BY <3>1, <3>2, <3>3 DEF Shard
  <2>3. sample(Published.root, held, q) = m
    BY <2>2 DEF sample
  <2>4. IsFiniteSet(q)
    <3>1. IsFiniteSet(0 .. Shards - 1)
      BY <1>0, FS_Interval
    <3> QED
      BY <2>1, <3>1, FS_Subset
  <2>5. /\ IsFiniteSet(m) /\ Cardinality(m) <= Cardinality(q) /\ Cardinality(m) \in Nat
        /\ Cardinality(q) = Cardinality(m) => q = m
    <3>1. m \in SUBSET q
      OBVIOUS
    <3> HIDE DEF m
    <3> QED
      BY <2>4, <3>1, FS_Subset, FS_CardinalityType
  <2>6. q = m <=> q \subseteq DOMAIN held
    OBVIOUS
  <2> HIDE DEF m
  <2>7. Cardinality(m) >= SAMPLE_COUNT <=> q = m
    BY <1>0, <2>1, <2>5
  <2> QED
    BY <2>3, <2>6, <2>7 DEF fail_closed
<1> QED
  BY <1>1, <1>2 DEF ChunksRebuild

\* Any DATA_SHARDS verified chunks rebuild the very block that was published and
\* fewer rebuild none, however chunks were changed, lost or repeated
\* (ingest_da_chunk, reconstruct), for every body and every number of shards.
THEOREM SyncChunksRebuild == Spec => []ChunksRebuild
<1>1. Init => ChunksHeld
  BY DEF Init, ChunksHeld
<1>2. ChunksHeld /\ [Next]_vars => ChunksHeld'
  BY ChunksHeldStep
<1>3. ChunksHeld => ChunksRebuild
  BY HeldRebuilds
<1> QED
  BY <1>1, <1>2, <1>3, PTL DEF Spec

----------------------------------------------------------------------------
(* The files of a node.                                                    *)

\* Entries of one width are strings.
LEMMA EntriesStrings ==
  ASSUME NEW list, NEW w, Entries(list, w)
  PROVE  /\ Strings(list) /\ Len(list) \in Nat
         /\ \A i \in 1 .. Len(list) : IsSeq(list[i]) /\ Len(list[i]) = w
<1>1. IsSeq(list)
  BY DEF Entries
<1> QED
  BY <1>1, LenIs DEF Entries, Strings

\* k of them take k times the width.
LEMMA UptoWide ==
  ASSUME NEW list, NEW w \in Nat, Entries(list, w)
  PROVE  \A k \in 0 .. Len(list) : Len(Upto(list, k)) = k * w
<1>1. /\ Strings(list) /\ Len(list) \in Nat
      /\ \A i \in 1 .. Len(list) : IsSeq(list[i]) /\ Len(list[i]) = w
  BY EntriesStrings
<1>2. \A k \in 0 .. Len(list) : IsSeq(Upto(list, k))
  BY <1>1, UptoIsSeq
<1> DEFINE P == {k \in Nat : k <= Len(list) => Len(Upto(list, k)) = k * w}
<1>3. 0 \in P
  <2>1. Upto(list, 0) = <<>>
    BY <1>1, UptoEnds
  <2>2. 0 * w = 0 /\ Len(<<>>) = 0
    BY Product, TupleIs
  <2> QED
    BY <2>1, <2>2
<1>4. ASSUME NEW k \in Nat, k \in P PROVE k + 1 \in P
  <2> SUFFICES ASSUME k + 1 <= Len(list) PROVE Len(Upto(list, k + 1)) = (k + 1) * w
    OBVIOUS
  <2>1. k < Len(list) /\ k \in 0 .. Len(list) /\ k + 1 \in 1 .. Len(list) /\ k <= Len(list)
    BY <1>1
  <2>2. Len(Upto(list, k)) = k * w
    BY <1>4, <2>1
  <2>3. Upto(list, k + 1) = Upto(list, k) \o list[k + 1]
    BY <1>1, <2>1, UptoMore
  <2> DEFINE u == Upto(list, k)
  <2> DEFINE v == list[k + 1]
  <2>4. IsSeq(u) /\ IsSeq(v) /\ Len(v) = w
    BY <1>1, <1>2, <2>1
  <2> HIDE DEF u, v
  <2>5. Len(u \o v) = Len(u) + Len(v)
    BY <2>4, Concat
  <2>6. (k + 1) * w = k * w + w
    BY Product
  <2> QED
    BY <2>2, <2>3, <2>4, <2>5, <2>6 DEF u, v
<1> HIDE DEF P
<1>5. \A k \in Nat : k \in P
  BY <1>3, <1>4, NumberInduction
<1> QED
  BY <1>1, <1>5 DEF P

\* Where the k-th entry is.
LEMMA EntryAt ==
  ASSUME NEW list, NEW w \in Nat, Entries(list, w), NEW p, NEW i, Holds(p, i, FlattenSeq(list)),
         NEW k \in Nat, k < Len(list)
  PROVE  Holds(p, i + k * w, list[k + 1]) /\ Len(list[k + 1]) = w /\ k * w \in Nat
<1>1. /\ Strings(list) /\ Len(list) \in Nat
      /\ \A j \in 1 .. Len(list) : IsSeq(list[j]) /\ Len(list[j]) = w
  BY EntriesStrings
<1>2. k \in 0 .. Len(list) /\ k + 1 \in 0 .. Len(list) /\ k + 1 \in 1 .. Len(list)
  BY <1>1
<1>3. Holds(p, i, Upto(list, k + 1))
  BY <1>1, <1>2, HoldsUpto
<1> DEFINE u == Upto(list, k)
<1> DEFINE v == list[k + 1]
<1>4. Upto(list, k + 1) = u \o v
  BY <1>1, UptoMore
<1>5. IsSeq(u) /\ IsSeq(v)
  BY <1>1, <1>2, UptoIsSeq
<1>6. Len(u) = k * w /\ k * w \in Nat
  BY <1>2, UptoWide, Product
<1>7. Len(v) = w
  BY <1>1, <1>2
<1> HIDE DEF u, v
<1>8. Holds(p, i + Len(u), v)
  BY <1>3, <1>4, <1>5, HoldsParts
<1> QED
  BY <1>6, <1>7, <1>8 DEF v

\* A count and entries are a string.
LEMMA CountedIs ==
  ASSUME NEW list, NEW w \in Nat, Entries(list, w)
  PROVE  /\ IsSeq(Counted(list)) /\ Len(Counted(list)) = Len(list) * w + 1 /\ Len(list) \in Nat
         /\ Len(list) * w \in Nat
         /\ IsSeq(FlattenSeq(list)) /\ Len(FlattenSeq(list)) = Len(list) * w
<1>1. Strings(list) /\ Len(list) \in Nat
  BY EntriesStrings
<1>2. IsSeq(FlattenSeq(list)) /\ Upto(list, Len(list)) = FlattenSeq(list)
  BY <1>1, UptoIsSeq, UptoEnds
<1>3. Len(FlattenSeq(list)) = Len(list) * w
  <2>1. Len(list) \in 0 .. Len(list)
    BY <1>1
  <2> QED
    BY <1>2, <2>1, UptoWide
<1>4. IsSeq(<<Len(list)>>) /\ Len(<<Len(list)>>) = 1
  BY TupleIs
<1> DEFINE a == <<Len(list)>>
<1> DEFINE b == FlattenSeq(list)
<1>5. IsSeq(a) /\ IsSeq(b) /\ Counted(list) = a \o b
  BY <1>2, <1>4 DEF Counted
<1>6. Len(a) = 1 /\ Len(b) = Len(list) * w
  BY <1>3, <1>4
<1> HIDE DEF a, b
<1>7. IsSeq(a \o b) /\ Len(a \o b) = Len(a) + Len(b)
  BY <1>5, Concat
<1>8. Len(list) * w \in Nat
  BY <1>1, Product
<1> QED
  BY <1>1, <1>5, <1>6, <1>7, <1>8 DEF b

\* TakeCounted reads the entries where they are held, and stops behind them.
LEMMA TakeCountedIs ==
  ASSUME NEW list, NEW w \in Nat, Entries(list, w), NEW p, NEW i, Holds(p, i, Counted(list))
  PROVE  TakeCounted(p, i, w) = Ok([items |-> list, next |-> i + Len(Counted(list))])
<1> DEFINE n == Len(list)
<1> DEFINE a == <<n>>
<1> DEFINE b == FlattenSeq(list)
<1>1. /\ Len(Counted(list)) = n * w + 1 /\ n \in Nat /\ n * w \in Nat
      /\ IsSeq(b) /\ Len(b) = n * w
  BY CountedIs
<1>2. IsSeq(a) /\ Len(a) = 1 /\ a[1] = n
  BY TupleIs
<1>3. Counted(list) = a \o b
  BY DEF Counted
<1> HIDE DEF a, b
<1>4. Holds(p, i, a) /\ Holds(p, i + Len(a), b)
  BY <1>1, <1>2, <1>3, HoldsParts
<1>5. p[i] = n /\ i \in Nat
  <2>1. Len(a) >= 1
    BY <1>2
  <2>2. p[i] = a[1]
    BY <1>4, <2>1, HoldsAt
  <2> QED
    BY <1>2, <1>4, <2>2 DEF Holds
<1>6. Holds(p, i + 1, b)
  BY <1>2, <1>4
<1>7. i + n * w <= Len(p) /\ Len(p) \in Nat
  <2>1. (i + 1) + Len(b) <= Len(p) + 1 /\ IsSeq(p)
    BY <1>6 DEF Holds
  <2> QED
    BY <1>1, <1>5, <2>1, LenIs
<1> DEFINE items == [j \in 1 .. n |-> SubSeq(p, i + (j - 1) * w + 1, i + j * w)]
<1>8. items = list
  <2>1. list = [j \in 1 .. n |-> list[j]]
    <3>1. IsSeq(list)
      BY DEF Entries
    <3> QED
      BY <3>1, LenIs DEF IsSeq
  <2>2. ASSUME NEW j \in 1 .. n PROVE SubSeq(p, i + (j - 1) * w + 1, i + j * w) = list[j]
    <3> DEFINE k == j - 1
    <3>1. k \in Nat /\ k < n /\ k + 1 = j
      BY <1>1
    <3> HIDE DEF k
    <3>2. Holds(p, (i + 1) + k * w, list[j]) /\ Len(list[j]) = w /\ k * w \in Nat
      BY <1>6, <3>1, EntryAt DEF b
    <3>3. SubSeq(p, (i + 1) + k * w, (i + 1) + k * w + Len(list[j]) - 1) = list[j]
      BY <3>2, HoldsSub
    <3>4. j * w = k * w + w
      BY <3>1, Product
    <3>5. /\ (i + 1) + k * w = i + k * w + 1
          /\ (i + 1) + k * w + Len(list[j]) - 1 = i + j * w
      BY <1>5, <3>2, <3>4
    <3>6. SubSeq(p, i + k * w + 1, i + j * w) = list[j]
      BY <3>3, <3>5
    <3> QED
      BY <3>6 DEF k
  <2> QED
    BY <2>1, <2>2
<1>9. TakeCounted(p, i, w) = Ok([items |-> items, next |-> i + n * w + 1])
  <2>1. ~(i > Len(p) \/ i + p[i] * w > Len(p))
    BY <1>1, <1>5, <1>7
  <2> QED
    BY <1>5, <2>1 DEF TakeCounted
<1>10. i + n * w + 1 = i + Len(Counted(list))
  BY <1>1, <1>5
<1> QED
  BY <1>8, <1>9, <1>10

\* What there is of a frame that is cut off decodes to its payload or not at all.
LEMMA DecodePrefix ==
  ASSUME NEW p, IsSeq(p), NEW n \in 0 .. Len(encode(p))
  PROVE  decode(SubSeq(encode(p), 1, n)) \subseteq {p}
<1> DEFINE e == encode(p)
<1> DEFINE b == SubSeq(e, 1, n)
<1>1. IsSeq(e) /\ Len(e) = Len(p) + 2 /\ e[2] = Len(p) /\ Len(p) \in Nat
  BY EncodeIs, LenIs
<1>2. IsSeq(b) /\ Len(b) = n + 1 - 1 /\ \A i \in 1 .. n + 1 - 1 : b[i] = e[1 + i - 1]
  <2>1. 1 \in Nat \ {0} /\ n \in Nat /\ 1 <= n + 1 /\ n <= Len(e)
    BY <1>1
  <2>2. IsSeq(e)
    BY <1>1
  <2> HIDE DEF e
  <2> QED
    BY <2>1, <2>2, Sub
<1>3. Len(b) = n /\ (n >= 2 => b[2] = e[2]) /\ n \in Nat
  BY <1>1, <1>2
<1>4. CASE n = Len(e)
  <2>1. SubSeq(e, 1, 1 + Len(e) - 1) = e
    BY <1>1, HoldsAll, HoldsSub
  <2>2. 1 + Len(e) - 1 = n
    BY <1>1, <1>4
  <2>3. b = e
    BY <2>1, <2>2
  <2> QED
    BY <2>3, DecodeEncode DEF Ok
<1>5. CASE n # Len(e)
  <2>1. Len(b) < 2 \/ Len(b) # b[2] + 2
    BY <1>1, <1>3, <1>5
  <2> HIDE DEF b
  <2>2. decode(b) = {}
    BY <2>1 DEF decode, Err
  <2> QED
    BY <2>2 DEF b
<1> QED
  BY <1>4, <1>5

\* A parameter's byte decodes to the parameter.
LEMMA ParamRound ==
  ASSUME NEW id \in Range(ParamId)
  PROVE  param_from_byte(param_id_byte(id)) = {id}
<1>1. DOMAIN ParamId = 1 .. 13
  BY DEF ParamId
<1>2. PICK j \in 1 .. 13 : ParamId[j] = id
  BY <1>1 DEF Range
<1>3. j - 1 \in 0 .. 12 /\ (j - 1) + 1 = j
  OBVIOUS
<1> DEFINE b == param_id_byte(id)
<1>4. b \in 0 .. 12 /\ ParamId[b + 1] = id
  BY <1>2, <1>3 DEF param_id_byte
<1> HIDE DEF b
<1>5. param_from_byte(b) = {id}
  BY <1>4 DEF param_from_byte, Ok
<1> QED
  BY <1>5 DEF b

\* The registry as it is written.
RegistryBytes ==
    [i \in DOMAIN Genesis.registry |->
        <<param_id_byte(Genesis.registry[i][1]), Genesis.registry[i][2]>>]

\* The registry decodes to itself.
LEMMA RegistryRound ==
  /\ Entries(RegistryBytes, 2)
  /\ DecodeEach(RegistryBytes, LAMBDA e : Then(param_from_byte(e[1]), LAMBDA id : Ok(<<id, e[2]>>)))
       = Ok(Genesis.registry)
<1> DEFINE reg == Genesis.registry
<1> DEFINE n == Len(reg)
<1> DEFINE items == RegistryBytes
<1> DEFINE Dec(e) == Then(param_from_byte(e[1]), LAMBDA id : Ok(<<id, e[2]>>))
<1> DEFINE Pairs(id, e) == Ok(<<id, e[2]>>)
<1> DEFINE results == [i \in DOMAIN items |-> Dec(items[i])]
<1> DEFINE G(r) == IF \E i \in DOMAIN items : r[i] = Err THEN Err
                   ELSE Ok([i \in DOMAIN items |-> CHOOSE x \in r[i] : TRUE])
<1>0. IsSeq(reg) /\ n \in Nat /\ DOMAIN reg = 1 .. n
  BY ConfigAssumption, LenIs
<1>1. items = [i \in 1 .. n |-> <<param_id_byte(reg[i][1]), reg[i][2]>>]
  BY <1>0 DEF RegistryBytes
<1>2. DOMAIN items = 1 .. n /\ \A i \in 1 .. n : items[i] = <<param_id_byte(reg[i][1]), reg[i][2]>>
  BY <1>1
<1>3. IsSeq(items) /\ Len(items) = n
  <2>1. items = [i \in 1 .. n |-> items[i]]
    BY <1>1
  <2> HIDE DEF items
  <2> QED
    BY <1>0, <2>1, MadeSeq
<1>4. Entries(items, 2)
  <2> HIDE DEF items
  <2>1. ASSUME NEW i \in 1 .. n PROVE IsSeq(items[i]) /\ Len(items[i]) = 2
    <3> DEFINE x == param_id_byte(reg[i][1])
    <3> DEFINE y == reg[i][2]
    <3>1. items[i] = <<x, y>>
      BY <1>2
    <3> HIDE DEF x, y
    <3>2. IsSeq(<<x, y>>) /\ Len(<<x, y>>) = 2
      BY TupleIs
    <3> QED
      BY <3>1, <3>2
  <2> QED
    BY <1>3, <2>1 DEF Entries
<1>5. ASSUME NEW i \in 1 .. n PROVE Dec(items[i]) = {reg[i]}
  <2>1. PICK id \in Range(ParamId) : reg[i] = <<id, reg[i][2]>>
    BY ConfigAssumption
  <2> DEFINE b == param_id_byte(id)
  <2> DEFINE e == items[i]
  <2>2. reg[i][1] = id
    BY <2>1
  <2>3. e = <<b, reg[i][2]>>
    BY <1>2, <2>2
  <2> HIDE DEF b, e
  <2>4. e[1] = b /\ e[2] = reg[i][2]
    BY <2>3
  <2>5. param_from_byte(e[1]) = {id}
    BY <2>4, ParamRound DEF b
  <2>6. Dec(e) = UNION {Pairs(d, e) : d \in param_from_byte(e[1])}
    BY DEF Then
  <2>7. Pairs(id, e) = {reg[i]}
    BY <2>1, <2>4 DEF Ok
  <2> HIDE DEF Pairs, Dec
  <2>8. Dec(e) = {reg[i]}
    BY <2>5, <2>6, <2>7
  <2> QED
    BY <2>8 DEF e
<1>6. DecodeEach(items, Dec) = UNION {G(r) : r \in {results}}
  BY DEF DecodeEach, Then, Ok
<1>a. DecodeEach(items, Dec) = DecodeEach(RegistryBytes, LAMBDA e : Then(param_from_byte(e[1]), LAMBDA id : Ok(<<id, e[2]>>)))
  OBVIOUS
<1> HIDE DEF Dec, items
<1>7. \A i \in 1 .. n : results[i] = {reg[i]}
  BY <1>2, <1>5
<1> HIDE DEF results
<1>8. G(results) = Ok([i \in 1 .. n |-> CHOOSE x \in results[i] : TRUE])
  BY <1>2, <1>7 DEF Err
<1>9. \A i \in 1 .. n : (CHOOSE x \in results[i] : TRUE) = reg[i]
  BY <1>7
<1>10. [i \in 1 .. n |-> CHOOSE x \in results[i] : TRUE] = [i \in 1 .. n |-> reg[i]]
  BY <1>9
<1>11. [i \in 1 .. n |-> reg[i]] = reg
  BY <1>0 DEF IsSeq
<1> HIDE DEF G
<1>12. UNION {G(r) : r \in {results}} = G(results)
  OBVIOUS
<1>13. DecodeEach(items, Dec) = Ok(reg)
  BY <1>6, <1>8, <1>10, <1>11, <1>12
<1> QED
  BY <1>4, <1>13, <1>a DEF items

\* Where genesis_preimage puts the fields.
LEMMA GenesisLayout ==
  ASSUME NEW p, p = genesis_preimage(Genesis),
         NEW a, a = Counted(Genesis.alloc), NEW v, v = Counted(Genesis.validators),
         NEW r, r = Counted(RegistryBytes)
  PROVE  /\ IsSeq(p) /\ p[1] = Genesis.chain_id
         /\ Len(a) \in Nat /\ Len(v) \in Nat /\ Len(r) \in Nat
         /\ TakeCounted(p, 2, 4) = Ok([items |-> Genesis.alloc, next |-> 2 + Len(a)])
         /\ TakeCounted(p, 2 + Len(a), 2)
              = Ok([items |-> Genesis.validators, next |-> 2 + Len(a) + Len(v)])
         /\ TakeCounted(p, 2 + Len(a) + Len(v), 2)
              = Ok([items |-> RegistryBytes, next |-> 2 + Len(a) + Len(v) + Len(r)])
         /\ (2 + Len(a) + Len(v) + Len(r)) + 3 = Len(p)
         /\ SubSeq(p, 2 + Len(a) + Len(v) + Len(r), Len(p)) = Genesis.timeouts
<1> DEFINE c == <<Genesis.chain_id>>
<1> DEFINE t == Genesis.timeouts
<1> DEFINE ca == c \o a
<1> DEFINE cav == ca \o v
<1> DEFINE cavr == cav \o r
<1>1. IsJoin(ca, c, a) /\ IsJoin(cav, ca, v) /\ IsJoin(cavr, cav, r) /\ IsJoin(p, cavr, t)
  BY DEF IsJoin, genesis_preimage, RegistryBytes
<1>2. IsSeq(c) /\ Len(c) = 1 /\ c[1] = Genesis.chain_id
  BY TupleIs
<1>3. IsSeq(t) /\ Len(t) = 4
  BY ConfigAssumption
<1>4. Entries(Genesis.alloc, 4) /\ Entries(Genesis.validators, 2) /\ Entries(RegistryBytes, 2)
  BY ConfigAssumption, RegistryRound
<1>5. IsSeq(a) /\ IsSeq(v) /\ IsSeq(r)
  BY <1>4, CountedIs
<1> HIDE DEF c, t, ca, cav, cavr
<1>6. IsSeq(ca) /\ Len(ca) = Len(c) + Len(a) /\ Len(a) \in Nat
  <2>1. IsSeq(c) /\ IsSeq(a)
    BY <1>2, <1>5
  <2> QED
    BY <1>1, <2>1, Joined
<1>7. IsSeq(cav) /\ Len(cav) = Len(ca) + Len(v) /\ Len(v) \in Nat
  <2>1. IsSeq(ca) /\ IsSeq(v)
    BY <1>5, <1>6
  <2> QED
    BY <1>1, <2>1, Joined
<1>8. IsSeq(cavr) /\ Len(cavr) = Len(cav) + Len(r) /\ Len(r) \in Nat
  <2>1. IsSeq(cav) /\ IsSeq(r)
    BY <1>5, <1>7
  <2> QED
    BY <1>1, <2>1, Joined
<1>9. IsSeq(p) /\ Len(p) = Len(cavr) + Len(t) /\ Holds(p, 1, cavr) /\ Holds(p, 1 + Len(cavr), t)
  <2>1. IsSeq(cavr) /\ IsSeq(t)
    BY <1>3, <1>8
  <2> QED
    BY <1>1, <2>1, Joined
<1>10. Holds(p, 1, cav) /\ Holds(p, 1 + Len(cav), r)
  <2>1. IsSeq(cav) /\ IsSeq(r)
    BY <1>5, <1>7
  <2> QED
    BY <1>1, <1>9, <2>1, HoldsParts DEF IsJoin
<1>11. Holds(p, 1, ca) /\ Holds(p, 1 + Len(ca), v)
  <2>1. IsSeq(ca) /\ IsSeq(v)
    BY <1>5, <1>6
  <2> QED
    BY <1>1, <1>10, <2>1, HoldsParts DEF IsJoin
<1>12. Holds(p, 1, c) /\ Holds(p, 1 + Len(c), a)
  <2>1. IsSeq(c) /\ IsSeq(a)
    BY <1>2, <1>5
  <2> QED
    BY <1>1, <1>11, <2>1, HoldsParts DEF IsJoin
<1>13. /\ 1 + Len(c) = 2 /\ 1 + Len(ca) = 2 + Len(a) /\ 1 + Len(cav) = 2 + Len(a) + Len(v)
       /\ 1 + Len(cavr) = 2 + Len(a) + Len(v) + Len(r)
       /\ (1 + Len(cavr)) + 3 = Len(p) /\ (1 + Len(cavr)) + Len(t) - 1 = Len(p)
  BY <1>2, <1>3, <1>6, <1>7, <1>8, <1>9
<1>14. p[1] = Genesis.chain_id
  <2>1. Len(c) >= 1
    BY <1>2
  <2>2. p[1] = c[1]
    BY <1>12, <2>1, HoldsAt
  <2> QED
    BY <1>2, <2>2
<1>15. TakeCounted(p, 2, 4) = Ok([items |-> Genesis.alloc, next |-> 2 + Len(a)])
  <2>1. Holds(p, 2, Counted(Genesis.alloc))
    BY <1>12, <1>13
  <2> QED
    BY <1>4, <2>1, TakeCountedIs
<1>16. TakeCounted(p, 2 + Len(a), 2)
         = Ok([items |-> Genesis.validators, next |-> 2 + Len(a) + Len(v)])
  <2>1. Holds(p, 2 + Len(a), Counted(Genesis.validators))
    BY <1>11, <1>13
  <2> QED
    BY <1>4, <2>1, TakeCountedIs
<1>17. TakeCounted(p, 2 + Len(a) + Len(v), 2)
         = Ok([items |-> RegistryBytes, next |-> 2 + Len(a) + Len(v) + Len(r)])
  <2>1. Holds(p, 2 + Len(a) + Len(v), Counted(RegistryBytes))
    BY <1>10, <1>13
  <2> QED
    BY <1>4, <2>1, TakeCountedIs
<1>18. SubSeq(p, 1 + Len(cavr), (1 + Len(cavr)) + Len(t) - 1) = t
  BY <1>9, HoldsSub
<1>19. SubSeq(p, 2 + Len(a) + Len(v) + Len(r), Len(p)) = t
  BY <1>13, <1>18
<1> QED
  BY <1>6, <1>7, <1>8, <1>9, <1>13, <1>14, <1>15, <1>16, <1>17, <1>19 DEF t

\* A genesis.bin that is cut off decodes to the genesis or not at all.
LEMMA GenesisPrefix ==
  ASSUME NEW n \in 0 .. Len(encode_genesis(Genesis))
  PROVE  /\ IsSeq(encode_genesis(Genesis))
         /\ decode_genesis(SubSeq(encode_genesis(Genesis), 1, n)) \subseteq {Genesis}
<1> DEFINE p == genesis_preimage(Genesis)
<1> DEFINE b == SubSeq(encode_genesis(Genesis), 1, n)
<1> DEFINE Dec(e) == Then(param_from_byte(e[1]), LAMBDA id : Ok(<<id, e[2]>>))
<1> DEFINE i2 == 2 + Len(Counted(Genesis.alloc))
<1> DEFINE i3 == i2 + Len(Counted(Genesis.validators))
<1> DEFINE i4 == i3 + Len(Counted(RegistryBytes))
<1>1. /\ IsSeq(p) /\ p[1] = Genesis.chain_id
      /\ TakeCounted(p, 2, 4) = Ok([items |-> Genesis.alloc, next |-> i2])
      /\ TakeCounted(p, i2, 2) = Ok([items |-> Genesis.validators, next |-> i3])
      /\ TakeCounted(p, i3, 2) = Ok([items |-> RegistryBytes, next |-> i4])
      /\ i4 + 3 = Len(p)
      /\ SubSeq(p, i4, Len(p)) = Genesis.timeouts
  BY GenesisLayout
<1>2. DecodeEach(RegistryBytes, Dec) = {Genesis.registry}
  BY RegistryRound DEF Ok
<1>3. decode(b) \subseteq {p} /\ IsSeq(encode_genesis(Genesis))
  BY <1>1, DecodePrefix, EncodeIs DEF encode_genesis
<1> HIDE DEF b, i2, i3, i4
<1> DEFINE D4(q, al, va, re, params) ==
      Ok([chain_id |-> q[1], alloc |-> al.items, validators |-> va.items,
          registry |-> params, timeouts |-> SubSeq(q, re.next, Len(q))])
<1> DEFINE D3(q, al, va, re) ==
      IF re.next + 3 # Len(q) THEN Err
      ELSE UNION {D4(q, al, va, re, params) : params \in DecodeEach(re.items, Dec)}
<1> DEFINE D2(q, al, va) == UNION {D3(q, al, va, re) : re \in TakeCounted(q, va.next, 2)}
<1> DEFINE D1(q, al) == UNION {D2(q, al, va) : va \in TakeCounted(q, al.next, 2)}
<1> DEFINE D0(q) == UNION {D1(q, al) : al \in TakeCounted(q, 2, 4)}
<1>4. decode_genesis(b) = UNION {D0(q) : q \in decode(b)}
  BY DEF decode_genesis, Then
<1> DEFINE al == [items |-> Genesis.alloc, next |-> i2]
<1> DEFINE va == [items |-> Genesis.validators, next |-> i3]
<1> DEFINE re == [items |-> RegistryBytes, next |-> i4]
<1> HIDE DEF p, Dec
<1>5. D4(p, al, va, re, Genesis.registry) = {Genesis}
  <2>1. D4(p, al, va, re, Genesis.registry)
          = {[chain_id |-> Genesis.chain_id, alloc |-> Genesis.alloc,
                  validators |-> Genesis.validators, registry |-> Genesis.registry,
                  timeouts |-> Genesis.timeouts]}
    BY <1>1 DEF Ok
  <2> QED
    BY <2>1, ConfigAssumption
<1> HIDE DEF D4
<1>6. D3(p, al, va, re) = UNION {D4(p, al, va, re, x) : x \in {Genesis.registry}}
  BY <1>1, <1>2
<1> HIDE DEF D3, re
<1>7. D2(p, al, va) = UNION {D3(p, al, va, x) : x \in {re}}
  BY <1>1 DEF Ok, re
<1> HIDE DEF D2, va
<1>8. D1(p, al) = UNION {D2(p, al, x) : x \in {va}}
  BY <1>1 DEF Ok, va
<1> HIDE DEF D1, al
<1>9. D0(p) = UNION {D1(p, x) : x \in {al}}
  BY <1>1 DEF Ok, al
<1> HIDE DEF D0
<1>10. D0(p) = D1(p, al)
  BY <1>9
<1>11. D1(p, al) = D2(p, al, va)
  BY <1>8
<1>12. D2(p, al, va) = D3(p, al, va, re)
  BY <1>7
<1>13. D3(p, al, va, re) = D4(p, al, va, re, Genesis.registry)
  BY <1>6
<1>14. D0(p) = {Genesis}
  BY <1>5, <1>10, <1>11, <1>12, <1>13
<1>15. decode_genesis(b) \subseteq {Genesis}
  BY <1>3, <1>4, <1>14
<1> QED
  BY <1>3, <1>15 DEF b

\* What the front of a string holds.
LEMMA PrefixIs ==
  ASSUME NEW B, IsSeq(B), NEW m \in 0 .. Len(B)
  PROVE  /\ IsSeq(SubSeq(B, 1, m)) /\ Len(SubSeq(B, 1, m)) = m /\ m \in Nat /\ m <= Len(B)
         /\ \A i \in 1 .. m : SubSeq(B, 1, m)[i] = B[i]
<1>1. 1 \in Nat \ {0} /\ m \in Nat /\ 1 <= m + 1 /\ m <= Len(B) /\ m + 1 - 1 = m
  BY LenIs
<1>2. \A i \in 1 .. m : 1 + i - 1 = i
  BY <1>1
<1> QED
  BY <1>1, <1>2, Sub

\* take on the front of a file finds the whole string or nothing.
LEMMA TakePrefix ==
  ASSUME NEW B, NEW i, NEW s, IsSeq(s), Holds(B, i, prefixed(s)), NEW m \in 0 .. Len(B)
  PROVE  take(SubSeq(B, 1, m), i) \subseteq {[item |-> s, next |-> i + Len(s) + 1]}
<1> DEFINE b == SubSeq(B, 1, m)
<1>1. IsSeq(b) /\ Len(b) = m /\ m \in Nat /\ m <= Len(B) /\ \A j \in 1 .. m : b[j] = B[j]
  BY PrefixIs DEF Holds
<1>2. B[i] = Len(s) /\ i \in Nat /\ i >= 1 /\ Len(B) \in Nat
  BY HoldsPrefixed
<1>3. Len(s) \in Nat /\ IsSeq(prefixed(s)) /\ Len(prefixed(s)) = Len(s) + 1
  BY PrefixedIs
<1> HIDE DEF b
<1>4. CASE i > m
  BY <1>1, <1>4 DEF take, Err, b
<1>5. CASE i <= m /\ i + Len(s) > m
  <2>1. b[i] = Len(s)
    BY <1>1, <1>2, <1>5
  <2>2. take(b, i) = {}
    BY <1>1, <1>5, <2>1 DEF take, Err
  <2> QED
    BY <2>2 DEF b
<1>6. CASE i + Len(s) <= m
  <2>1. ASSUME NEW j \in 1 .. Len(prefixed(s)) PROVE b[i + j - 1] = prefixed(s)[j]
    <3>1. i + j - 1 \in 1 .. m
      BY <1>1, <1>2, <1>3, <1>6
    <3>2. B[i + j - 1] = prefixed(s)[j]
      BY DEF Holds
    <3> QED
      BY <1>1, <3>1, <3>2
  <2>2. i \in Nat \ {0} /\ i + Len(prefixed(s)) <= Len(b) + 1
    BY <1>1, <1>2, <1>3, <1>6
  <2>3. Holds(b, i, prefixed(s))
    BY <1>1, <1>3, <2>1, <2>2 DEF Holds
  <2>4. take(b, i) = {[item |-> s, next |-> i + Len(s) + 1]}
    BY <2>3, TakePrefixed DEF Ok
  <2> QED
    BY <2>4 DEF b
<1> QED
  BY <1>1, <1>2, <1>3, <1>4, <1>5, <1>6

\* The entries of bootstrap.bin.
BootStrings(list) == [i \in DOMAIN list |-> prefixed(list[i][1]) \o prefixed(list[i][2])]

\* Where entry k + 1 starts.
BootPos(list, k) == 2 + Len(Upto(BootStrings(list), k))

\* A list of peers and addresses.
IsBootList(list) ==
    /\ Entries(list, 2)
    /\ \A i \in 1 .. Len(list) : IsSeq(list[i][1]) /\ IsSeq(list[i][2])

\* The layout of bootstrap.bin.
LEMMA BootBytesAre ==
  ASSUME NEW list, IsBootList(list)
  PROVE  /\ Strings(BootStrings(list)) /\ Len(BootStrings(list)) = Len(list) /\ Len(list) \in Nat
         /\ IsSeq(boot_bytes(list)) /\ boot_bytes(list)[1] = Len(list)
         /\ Holds(boot_bytes(list), 2, FlattenSeq(BootStrings(list)))
<1> DEFINE n == Len(list)
<1> DEFINE all == BootStrings(list)
<1>1. IsSeq(list) /\ n \in Nat /\ DOMAIN list = 1 .. n
  BY LenIs DEF IsBootList, Entries
<1>2. all = [i \in 1 .. n |-> prefixed(list[i][1]) \o prefixed(list[i][2])]
  BY <1>1 DEF BootStrings
<1>3. all = [i \in 1 .. n |-> all[i]]
  BY <1>2
<1>4. ASSUME NEW i \in 1 .. n PROVE IsSeq(all[i])
  <2> DEFINE s == prefixed(list[i][1])
  <2> DEFINE t == prefixed(list[i][2])
  <2>1. IsSeq(s) /\ IsSeq(t)
    BY PrefixedIs DEF IsBootList
  <2>2. all[i] = s \o t
    BY <1>2
  <2> HIDE DEF s, t
  <2> QED
    BY <2>1, <2>2, Concat
<1> HIDE DEF all
<1>5. IsSeq(all) /\ Len(all) = n
  BY <1>1, <1>3, MadeSeq
<1>6. Strings(all)
  BY <1>4, <1>5 DEF Strings
<1> DEFINE c == <<n>>
<1> DEFINE f == FlattenSeq(all)
<1> DEFINE B == boot_bytes(list)
<1>7. IsJoin(B, c, f)
  BY DEF IsJoin, boot_bytes, all, BootStrings
<1>8. IsSeq(f)
  BY <1>6, UptoIsSeq
<1>9. IsSeq(c) /\ Len(c) = 1 /\ c[1] = n
  BY TupleIs
<1> HIDE DEF c, f, B
<1>10. IsSeq(B) /\ Holds(B, 1, c) /\ Holds(B, 1 + Len(c), f)
  <2>1. IsSeq(c) /\ IsSeq(f)
    BY <1>8, <1>9
  <2> QED
    BY <1>7, <2>1, Joined
<1>11. B[1] = n
  <2>1. Len(c) >= 1
    BY <1>9
  <2>2. B[1] = c[1]
    BY <1>10, <2>1, HoldsAt
  <2> QED
    BY <1>9, <2>2
<1> QED
  BY <1>1, <1>5, <1>6, <1>9, <1>10, <1>11 DEF all, B, f

\* An entry read from the front of the file is the operator's, or none.
LEMMA BootEntryPrefix ==
  ASSUME NEW list, IsBootList(list), NEW m \in 0 .. Len(boot_bytes(list)),
         NEW k \in Nat, k < Len(list)
  PROVE  boot_entry(SubSeq(boot_bytes(list), 1, m), BootPos(list, k))
           \subseteq {[pair |-> list[k + 1], next |-> BootPos(list, k + 1)]}
<1> DEFINE B == boot_bytes(list)
<1> DEFINE b == SubSeq(B, 1, m)
<1> DEFINE all == BootStrings(list)
<1> DEFINE peer == list[k + 1][1]
<1> DEFINE addr == list[k + 1][2]
<1> DEFINE s == prefixed(peer)
<1> DEFINE t == prefixed(addr)
<1> DEFINE u == Upto(all, k)
<1> DEFINE v == all[k + 1]
<1> DEFINE i == BootPos(list, k)
<1>1. /\ Strings(all) /\ Len(all) = Len(list) /\ Len(list) \in Nat
      /\ IsSeq(B) /\ Holds(B, 2, FlattenSeq(all))
  BY BootBytesAre
<1>2. k + 1 \in 1 .. Len(list) /\ k \in 0 .. Len(all) /\ k + 1 \in 0 .. Len(all) /\ k < Len(all)
        /\ k + 1 \in 1 .. Len(all)
  BY <1>1
<1>3. IsSeq(peer) /\ IsSeq(addr) /\ list[k + 1] = <<peer, addr>>
  <2>1. IsSeq(list[k + 1]) /\ Len(list[k + 1]) = 2
    BY <1>2 DEF IsBootList, Entries
  <2>2. list[k + 1] = <<list[k + 1][1], list[k + 1][2]>>
    BY <2>1 DEF IsSeq
  <2> QED
    BY <1>2, <2>2 DEF IsBootList
<1>4. v = s \o t
  <2>1. DOMAIN list = 1 .. Len(list)
    BY LenIs DEF IsBootList, Entries
  <2> QED
    BY <1>2, <2>1 DEF BootStrings
<1>5. IsSeq(s) /\ Len(s) = Len(peer) + 1 /\ Len(peer) \in Nat
  BY <1>3, PrefixedIs
<1>6. IsSeq(t) /\ Len(t) = Len(addr) + 1 /\ Len(addr) \in Nat
  BY <1>3, PrefixedIs
<1>7. IsSeq(u) /\ Len(u) \in Nat
  BY <1>1, <1>2, UptoIsSeq, LenIs
<1>8. Upto(all, k + 1) = u \o v
  BY <1>1, <1>2, UptoMore
<1>9. Holds(B, 2, Upto(all, k + 1))
  BY <1>1, <1>2, HoldsUpto
<1>10. i = 2 + Len(u) /\ BootPos(list, k + 1) = 2 + Len(u \o v)
  BY <1>8 DEF BootPos
<1> HIDE DEF s, t, u, v, i, all, B, peer, addr
<1>11. IsSeq(v) /\ Len(v) = Len(s) + Len(t)
  <2>1. IsSeq(s) /\ IsSeq(t)
    BY <1>5, <1>6
  <2> QED
    BY <1>4, <2>1, Concat
<1>12. Len(u \o v) = Len(u) + Len(v)
  BY <1>7, <1>11, Concat
<1>13. BootPos(list, k + 1) = (i + Len(peer) + 1) + Len(addr) + 1 /\ i \in Nat
  BY <1>5, <1>6, <1>7, <1>10, <1>11, <1>12
<1>14. Holds(B, i, v)
  <2>1. IsSeq(u) /\ IsSeq(v) /\ Holds(B, 2, u \o v)
    BY <1>7, <1>8, <1>9, <1>11
  <2>2. Holds(B, 2 + Len(u), v)
    BY <2>1, HoldsParts
  <2> QED
    BY <1>10, <2>2
<1>15. Holds(B, i, s) /\ Holds(B, i + Len(s), t)
  <2>1. IsSeq(s) /\ IsSeq(t) /\ Holds(B, i, s \o t)
    BY <1>4, <1>5, <1>6, <1>14
  <2> QED
    BY <2>1, HoldsParts
<1>16. i + Len(s) = i + Len(peer) + 1
  BY <1>5, <1>13
<1> DEFINE j == i + Len(peer) + 1
<1> DEFINE one == [item |-> peer, next |-> j]
<1> DEFINE two == [item |-> addr, next |-> j + Len(addr) + 1]
<1>17. take(b, i) \subseteq {one}
  <2>1. Holds(B, i, prefixed(peer))
    BY <1>15 DEF s
  <2> QED
    BY <1>3, <2>1, TakePrefix DEF B
<1>18. take(b, j) \subseteq {two}
  <2>1. Holds(B, j, prefixed(addr))
    BY <1>15, <1>16 DEF t
  <2> HIDE DEF j
  <2> QED
    BY <1>3, <2>1, TakePrefix DEF B
<1> DEFINE D1(x, y) == Ok([pair |-> <<x.item, y.item>>, next |-> y.next])
<1> DEFINE D0(x) == UNION {D1(x, y) : y \in take(b, x.next)}
<1>19. boot_entry(b, i) = UNION {D0(x) : x \in take(b, i)}
  BY DEF boot_entry, Then
<1> DEFINE res == [pair |-> list[k + 1], next |-> BootPos(list, k + 1)]
<1>20. D1(one, two) = {res}
  <2>1. one.item = peer /\ two.item = addr /\ two.next = j + Len(addr) + 1
    OBVIOUS
  <2>2. two.next = BootPos(list, k + 1)
    BY <1>13
  <2> HIDE DEF one, two, j
  <2>3. D1(one, two) = {[pair |-> <<peer, addr>>, next |-> BootPos(list, k + 1)]}
    BY <2>1, <2>2 DEF Ok
  <2> QED
    BY <1>3, <2>3
<1>21. one.next = j
  OBVIOUS
<1> HIDE DEF D1, one, two, res, j, b
<1>22. D0(one) \subseteq {res}
  BY <1>18, <1>20, <1>21
<1> HIDE DEF D0
<1>23. boot_entry(b, i) \subseteq {res}
  BY <1>17, <1>19, <1>22
<1> QED
  BY <1>23 DEF res, b, B, i

\* One round of boot_entries.
BootMore(b, got) ==
    LET entry == Then(got.next, LAMBDA i : boot_entry(b, i))
    IN  [pairs |-> got.pairs \cup {e.pair : e \in entry}, next |-> {e.next : e \in entry}]

\* The recursion behind boot_entries.
BootUpto(f, b, n) ==
    f = [k \in 0 .. n |-> IF k = 0 THEN [pairs |-> {}, next |-> Ok(2)] ELSE BootMore(b, f[k - 1])]

\* The recursion has a solution.
LEMMA BootUptoExists ==
  ASSUME NEW b
  PROVE  \A n \in Nat : \E f : BootUpto(f, b, n)
<1> DEFINE P == {n \in Nat : \E f : BootUpto(f, b, n)}
<1>1. 0 \in P
  <2> DEFINE f == [k \in 0 .. 0 |-> [pairs |-> {}, next |-> Ok(2)]]
  <2>1. BootUpto(f, b, 0)
    BY DEF BootUpto
  <2> QED
    BY <2>1
<1>2. ASSUME NEW n \in Nat, n \in P PROVE n + 1 \in P
  <2>1. PICK f : BootUpto(f, b, n)
    BY <1>2
  <2> DEFINE Value(h, k) == IF k = 0 THEN [pairs |-> {}, next |-> Ok(2)] ELSE BootMore(b, h[k - 1])
  <2>2. \A k \in 0 .. n : f[k] = Value(f, k)
    BY <2>1 DEF BootUpto
  <2> DEFINE g == [k \in 0 .. n + 1 |-> IF k = n + 1 THEN Value(f, n + 1) ELSE f[k]]
  <2>3. ASSUME NEW k \in 0 .. n + 1 PROVE g[k] = Value(g, k)
    <3>1. k # 0 => k - 1 \in 0 .. n + 1 /\ k - 1 # n + 1
      OBVIOUS
    <3>2. k # 0 => g[k - 1] = f[k - 1]
      BY <3>1
    <3>3. g[k] = IF k = n + 1 THEN Value(f, n + 1) ELSE f[k]
      OBVIOUS
    <3>4. k # n + 1 => f[k] = Value(f, k)
      <4>1. k # n + 1 => k \in 0 .. n
        OBVIOUS
      <4> HIDE DEF Value
      <4> QED
        BY <2>2, <4>1
    <3> HIDE DEF g
    <3>5. g[k] = Value(f, k)
      BY <3>3, <3>4
    <3>6. Value(g, k) = Value(f, k)
      BY <3>2
    <3> QED
      BY <3>5, <3>6
  <2>4. g = [k \in 0 .. n + 1 |-> g[k]]
    OBVIOUS
  <2> HIDE DEF g
  <2>5. g = [k \in 0 .. n + 1 |-> Value(g, k)]
    BY <2>3, <2>4
  <2>6. BootUpto(g, b, n + 1)
    BY <2>5 DEF BootUpto
  <2> QED
    BY <2>6
<1> HIDE DEF P
<1>3. \A n \in Nat : n \in P
  BY <1>1, <1>2, NumberInduction
<1> QED
  BY <1>3 DEF P


\* boot_entries by that recursion.
LEMMA BootEntriesAre ==
  ASSUME NEW b, NEW n \in Nat
  PROVE  \E f : BootUpto(f, b, n) /\ boot_entries(b, n) = f[n].pairs
<1> DEFINE f == CHOOSE g : BootUpto(g, b, n)
<1>1. boot_entries(b, n) = f[n].pairs
  BY DEF boot_entries, BootUpto, BootMore
<1>2. \E g : BootUpto(g, b, n)
  BY BootUptoExists
<1> QED
  BY <1>1, <1>2

\* load_bootstrap on a file that is cut off finds only pairs of the list.
LEMMA BootPrefix ==
  ASSUME NEW list, IsBootList(list), NEW m \in 0 .. Len(boot_bytes(list))
  PROVE  load_bootstrap(SubSeq(boot_bytes(list), 1, m)) \subseteq Range(list)
<1> DEFINE B == boot_bytes(list)
<1> DEFINE b == SubSeq(B, 1, m)
<1> DEFINE n == Len(list)
<1>1. n \in Nat /\ IsSeq(B) /\ B[1] = n /\ Strings(BootStrings(list))
  BY BootBytesAre
<1>2. IsSeq(b) /\ Len(b) = m /\ m \in Nat /\ \A i \in 1 .. m : b[i] = B[i]
  <2>1. m \in 0 .. Len(B)
    OBVIOUS
  <2> HIDE DEF B
  <2> QED
    BY <1>1, <2>1, PrefixIs
<1>3. BootPos(list, 0) = 2
  BY <1>1, UptoEnds, TupleIs DEF BootPos
<1>4. \A k \in Nat : k < n => boot_entry(b, BootPos(list, k))
                        \subseteq {[pair |-> list[k + 1], next |-> BootPos(list, k + 1)]}
  BY BootEntryPrefix
<1>5. DOMAIN list = 1 .. n
  BY LenIs DEF IsBootList, Entries
<1> HIDE DEF b, B, n
<1>6. CASE b = <<>>
  BY <1>6 DEF load_bootstrap, b, B
<1>7. CASE b # <<>>
  <2>1. m # 0
    BY <1>2, <1>7 DEF IsSeq
  <2>2. b[1] = n
    BY <1>1, <1>2, <2>1
  <2>3. PICK f : BootUpto(f, b, n) /\ boot_entries(b, n) = f[n].pairs
    BY <1>1, BootEntriesAre
  <2>4. \A k \in 0 .. n : f[k] = IF k = 0 THEN [pairs |-> {}, next |-> Ok(2)] ELSE BootMore(b, f[k - 1])
    BY <2>3 DEF BootUpto
  <2> DEFINE P == {k \in Nat : k <= n => /\ f[k].pairs \subseteq Range(list)
                                         /\ f[k].next \subseteq {BootPos(list, k)}}
  <2>5. 0 \in P
    BY <1>1, <1>3, <2>4 DEF Ok
  <2>6. ASSUME NEW k \in Nat, k \in P PROVE k + 1 \in P
    <3> SUFFICES ASSUME k + 1 <= n
                 PROVE  /\ f[k + 1].pairs \subseteq Range(list)
                        /\ f[k + 1].next \subseteq {BootPos(list, k + 1)}
      OBVIOUS
    <3>1. k < n /\ k <= n /\ k + 1 \in 0 .. n /\ k + 1 # 0 /\ (k + 1) - 1 = k /\ k + 1 \in 1 .. n
      BY <1>1
    <3> DEFINE got == f[k]
    <3> DEFINE res == [pair |-> list[k + 1], next |-> BootPos(list, k + 1)]
    <3> DEFINE E(i) == boot_entry(b, i)
    <3> DEFINE entry == UNION {E(i) : i \in got.next}
    <3>2. got.pairs \subseteq Range(list) /\ got.next \subseteq {BootPos(list, k)}
      BY <2>6, <3>1
    <3>3. E(BootPos(list, k)) \subseteq {res}
      BY <1>4, <3>1
    <3>4. f[k + 1] = BootMore(b, got)
      BY <2>4, <3>1
    <3>5. BootMore(b, got) = [pairs |-> got.pairs \cup {e.pair : e \in entry},
                              next |-> {e.next : e \in entry}]
      BY DEF BootMore, Then
    <3>6. res.pair = list[k + 1] /\ res.next = BootPos(list, k + 1)
      OBVIOUS
    <3> HIDE DEF got, res, E
    <3>7. entry \subseteq {res}
      BY <3>2, <3>3
    <3>8. list[k + 1] \in Range(list)
      BY <1>5, <3>1 DEF Range
    <3> HIDE DEF entry
    <3>9. {e.pair : e \in entry} \subseteq Range(list) /\ {e.next : e \in entry} \subseteq {BootPos(list, k + 1)}
      BY <3>6, <3>7, <3>8
    <3> DEFINE Q == {e.pair : e \in entry}
    <3> DEFINE N == {e.next : e \in entry}
    <3>10. f[k + 1].pairs = got.pairs \cup Q /\ f[k + 1].next = N
      BY <3>4, <3>5
    <3> QED
      BY <3>2, <3>9, <3>10
  <2> HIDE DEF P
  <2>7. n \in P
    BY <1>1, <2>5, <2>6, NumberInduction
  <2>8. boot_entries(b, n) \subseteq Range(list)
    BY <1>1, <2>3, <2>7 DEF P
  <2> QED
    BY <1>7, <2>2, <2>8 DEF load_bootstrap, b, B
<1> QED
  BY <1>6, <1>7

\* The reader of vrf_pks.bin finds only keys of the list.
LEMMA VrfPrefix ==
  ASSUME NEW m \in 0 .. Len(vrf_bytes(VrfKeys))
  PROVE  /\ IsSeq(vrf_bytes(VrfKeys))
         /\ read_vrf(SubSeq(vrf_bytes(VrfKeys), 1, m)) \subseteq Range(VrfKeys)
<1> DEFINE B == FlattenSeq(VrfKeys)
<1> DEFINE b == SubSeq(B, 1, m)
<1>1. Entries(VrfKeys, 2)
  BY ConfigAssumption
<1>2. IsSeq(B) /\ Len(B) = Len(VrfKeys) * 2 /\ Len(VrfKeys) \in Nat
  BY <1>1, CountedIs
<1>3. IsSeq(b) /\ Len(b) = m /\ m \in Nat /\ m <= Len(B) /\ \A i \in 1 .. m : b[i] = B[i]
  <2>1. m \in 0 .. Len(B)
    BY DEF vrf_bytes
  <2> HIDE DEF B
  <2> QED
    BY <1>2, <2>1, PrefixIs
<1>4. Holds(B, 1, FlattenSeq(VrfKeys))
  BY <1>2, HoldsAll
<1> HIDE DEF B, b
<1>5. ASSUME NEW j \in 1 .. Len(b) \div 2 PROVE <<b[2 * j - 1], b[2 * j]>> \in Range(VrfKeys)
  <2> DEFINE k == j - 1
  <2>1. /\ k \in Nat /\ k < Len(VrfKeys) /\ k + 1 = j /\ j \in 1 .. Len(VrfKeys)
        /\ 1 + k * 2 = 2 * j - 1 /\ (1 + k * 2) + 1 = 2 * j
        /\ 2 * j - 1 \in 1 .. m /\ 2 * j \in 1 .. m
    BY <1>2, <1>3
  <2> HIDE DEF k
  <2>2. Holds(B, 1 + k * 2, VrfKeys[k + 1]) /\ Len(VrfKeys[k + 1]) = 2
    BY <1>1, <1>4, <2>1, EntryAt
  <2> DEFINE e == VrfKeys[j]
  <2>3. IsSeq(e) /\ Len(e) = 2
    BY <1>1, <2>1 DEF Entries
  <2> HIDE DEF e
  <2>4. B[1 + k * 2] = e[1] /\ B[(1 + k * 2) + 1] = e[2]
    <3>1. Holds(B, 1 + k * 2, e)
      BY <2>1, <2>2 DEF e
    <3>2. Len(e) >= 1 /\ Len(e) >= 2
      BY <2>3
    <3> QED
      BY <3>1, <3>2, HoldsAt
  <2>5. b[2 * j - 1] = e[1] /\ b[2 * j] = e[2]
    BY <1>3, <2>1, <2>4
  <2>6. e = <<e[1], e[2]>>
    BY <2>3 DEF IsSeq
  <2>7. e \in Range(VrfKeys)
    <3>1. DOMAIN VrfKeys = 1 .. Len(VrfKeys)
      BY <1>1, LenIs DEF Entries
    <3> QED
      BY <2>1, <3>1 DEF Range, e
  <2> QED
    BY <2>5, <2>6, <2>7
<1>6. read_vrf(b) \subseteq Range(VrfKeys)
  BY <1>5 DEF read_vrf
<1> QED
  BY <1>2, <1>6 DEF vrf_bytes, b, B

\* b is what there is of B.
Torn(b, B) == \E m \in 0 .. Len(B) : b = SubSeq(B, 1, m)

\* What bootstrap.bin can hold.
BootTorn(b, ls) == b = <<>> \/ \E list \in ls : Torn(b, boot_bytes(list))

\* A file being written, with the bytes the operator means.
IsJob(job, ls) ==
    /\ job = [name |-> job.name, bytes |-> job.bytes, at |-> job.at]
    /\ job.name \in FileNames /\ job.at \in Int /\ job.at >= -1
    /\ job.name = "genesis.bin" => job.bytes = encode_genesis(Genesis)
    /\ job.name = "bootstrap.bin" => \E list \in ls : job.bytes = boot_bytes(list)
    /\ job.name = "vrf_pks.bin" => job.bytes = vrf_bytes(VrfKeys)

\* Inductive: every file is the front of what the operator meant, the bootstrap
\* list of a list begun.
TornFiles ==
    /\ lists \subseteq BootLists
    /\ IsSeq(writing) /\ \A i \in 1 .. Len(writing) : IsJob(writing[i], lists)
    /\ DOMAIN files = FileNames
    /\ Torn(files["genesis.bin"], encode_genesis(Genesis))
    /\ BootTorn(files["bootstrap.bin"], lists)
    /\ Torn(files["vrf_pks.bin"], vrf_bytes(VrfKeys))

\* An empty file is.
LEMMA TornEmpty ==
  ASSUME NEW B, IsSeq(B)
  PROVE  Torn(<<>>, B)
<1>1. SubSeq(B, 1, 0) = <<>> /\ 0 \in 0 .. Len(B)
  BY LenIs, SubSeqEmpty
<1> QED
  BY <1>1 DEF Torn

\* The operator's lists are lists of peers and addresses.
LEMMA IsBoot ==
  ASSUME NEW list \in BootLists
  PROVE  IsBootList(list)
  BY ConfigAssumption DEF IsBootList

\* What load_bootstrap finds in such a file.
LEMMA BootTornLoads ==
  ASSUME NEW b, NEW ls, ls \subseteq BootLists, BootTorn(b, ls)
  PROVE  load_bootstrap(b) \subseteq UNION {Range(list) : list \in ls}
<1>1. CASE b = <<>>
  BY <1>1 DEF load_bootstrap
<1>2. CASE \E list \in ls : Torn(b, boot_bytes(list))
  <2>1. PICK list \in ls : Torn(b, boot_bytes(list))
    BY <1>2
  <2>2. PICK m \in 0 .. Len(boot_bytes(list)) : b = SubSeq(boot_bytes(list), 1, m)
    BY <2>1 DEF Torn
  <2>3. load_bootstrap(b) \subseteq Range(list)
    BY <2>2, IsBoot, BootPrefix
  <2> QED
    BY <2>3
<1> QED
  BY <1>1, <1>2 DEF BootTorn

\* A job stays one when a list is begun.
LEMMA JobMore ==
  ASSUME NEW job, NEW ls, NEW more, ls \subseteq more, IsJob(job, ls)
  PROVE  IsJob(job, more)
  BY DEF IsJob

\* And so does the file.
LEMMA BootTornMore ==
  ASSUME NEW b, NEW ls, NEW more, ls \subseteq more, BootTorn(b, ls)
  PROVE  BootTorn(b, more)
  BY DEF BootTorn

\* The jobs of write_dir.
LEMMA JobsAre ==
  ASSUME NEW list, NEW ls, list \in ls
  PROVE  /\ IsJob(Job("genesis.bin", encode_genesis(Genesis)), ls)
         /\ IsJob(Job("keys", SecretKeys), ls)
         /\ IsJob(Job("bootstrap.bin", boot_bytes(list)), ls)
         /\ IsJob(Job("vrf_pks.bin", vrf_bytes(VrfKeys)), ls)
<1> DEFINE g == encode_genesis(Genesis)
<1> DEFINE b == boot_bytes(list)
<1> DEFINE v == vrf_bytes(VrfKeys)
<1>1. \E l \in ls : b = boot_bytes(l)
  OBVIOUS
<1>2. -1 \in Int /\ -1 >= -1
  OBVIOUS
<1>3. \A name, bytes : LET j == Job(name, bytes)
                       IN  j = [name |-> j.name, bytes |-> j.bytes, at |-> j.at]
                             /\ j.name = name /\ j.bytes = bytes /\ j.at = -1
  BY DEF Job
<1>4. IsJob(Job("genesis.bin", g), ls)
  BY <1>2, <1>3 DEF IsJob, FileNames
<1>5. IsJob(Job("keys", SecretKeys), ls)
  BY <1>2, <1>3 DEF IsJob, FileNames
<1>6. IsJob(Job("bootstrap.bin", b), ls)
  <2> HIDE DEF b
  <2> QED
    BY <1>1, <1>2, <1>3 DEF IsJob, FileNames
<1>7. IsJob(Job("vrf_pks.bin", v), ls)
  BY <1>2, <1>3 DEF IsJob, FileNames
<1> QED
  BY <1>4, <1>5, <1>6, <1>7

\* A run of the operator, or of write_bootstrap, keeps the invariant.
LEMMA WriteDirKeeps ==
  ASSUME TornFiles, TornFilesHarmless, NEW list \in BootLists,
         WriteDir(list) \/ write_bootstrap(list)
  PROVE  TornFiles' /\ TornFilesHarmless'
<1>1. /\ UNCHANGED <<files, running, dialled>> /\ lists' = lists \cup {list}
      /\ \/ writing' = <<Job("genesis.bin", encode_genesis(Genesis)), Job("keys", SecretKeys),
                         Job("bootstrap.bin", boot_bytes(list)),
                         Job("vrf_pks.bin", vrf_bytes(VrfKeys))>>
         \/ writing' = <<Job("bootstrap.bin", boot_bytes(list))>>
  BY DEF WriteDir, write_bootstrap
<1>2. lists' \subseteq BootLists /\ lists \subseteq lists' /\ list \in lists'
  BY <1>1 DEF TornFiles
<1> DEFINE j1 == Job("genesis.bin", encode_genesis(Genesis))
<1> DEFINE j2 == Job("keys", SecretKeys)
<1> DEFINE j3 == Job("bootstrap.bin", boot_bytes(list))
<1> DEFINE j4 == Job("vrf_pks.bin", vrf_bytes(VrfKeys))
<1>3. IsJob(j1, lists') /\ IsJob(j2, lists') /\ IsJob(j3, lists') /\ IsJob(j4, lists')
  BY <1>2, JobsAre
<1>4. writing' = <<j1, j2, j3, j4>> \/ writing' = <<j3>>
  BY <1>1
<1> HIDE DEF j1, j2, j3, j4
<1>5. IsSeq(writing')
  BY <1>4, TupleIs
<1>6. \A i \in 1 .. Len(writing') : IsJob(writing'[i], lists')
  <2>1. CASE writing' = <<j1, j2, j3, j4>>
    <3> DEFINE w == <<j1, j2, j3, j4>>
    <3>1. Len(w) = 4 /\ w[1] = j1 /\ w[2] = j2 /\ w[3] = j3 /\ w[4] = j4
      OBVIOUS
    <3> HIDE DEF w
    <3>2. \A i \in 1 .. 4 : i = 1 \/ i = 2 \/ i = 3 \/ i = 4
      OBVIOUS
    <3>3. \A i \in 1 .. Len(w) : IsJob(w[i], lists')
      BY <1>3, <3>1, <3>2
    <3> QED
      BY <2>1, <3>3 DEF w
  <2>2. CASE writing' = <<j3>>
    BY <1>3, <2>2
  <2> QED
    BY <1>4, <2>1, <2>2
<1>7. BootTorn(files["bootstrap.bin"], lists')
  BY <1>2, BootTornMore DEF TornFiles
<1>8. TornFiles'
  BY <1>1, <1>2, <1>5, <1>6, <1>7 DEF TornFiles
<1>9. TornFilesHarmless'
  BY <1>1 DEF TornFilesHarmless
<1> QED
  BY <1>8, <1>9

\* A write keeps it, wherever it stops.
LEMMA WriteSomeKeeps ==
  ASSUME TornFiles, TornFilesHarmless, WriteSome
  PROVE  TornFiles' /\ TornFilesHarmless'
<1> DEFINE job == Head(writing)
<1>1. /\ writing # <<>> /\ UNCHANGED <<lists, running, dialled>>
      /\ \E n \in job.at + 1 .. Len(job.bytes) :
            /\ files' = [files EXCEPT ![job.name] = SubSeq(job.bytes, 1, n)]
            /\ writing' = IF n = Len(job.bytes) THEN Tail(writing) ELSE [writing EXCEPT ![1].at = n]
  BY DEF WriteSome
<1>2. PICK n \in job.at + 1 .. Len(job.bytes) :
            /\ files' = [files EXCEPT ![job.name] = SubSeq(job.bytes, 1, n)]
            /\ writing' = IF n = Len(job.bytes) THEN Tail(writing) ELSE [writing EXCEPT ![1].at = n]
  BY <1>1
<1>3. IsSeq(writing) /\ Len(writing) \in Nat /\ Len(writing) >= 1 /\ DOMAIN writing = 1 .. Len(writing)
  <2>1. IsSeq(writing)
    BY DEF TornFiles
  <2>2. Len(writing) # 0
    BY <1>1, <2>1 DEF IsSeq
  <2> QED
    BY <2>1, <2>2, LenIs
<1>a. job = writing[1]
  BY <1>1, <1>3 DEF IsSeq
<1> HIDE DEF job
<1>4. IsJob(job, lists)
  BY <1>3, <1>a DEF TornFiles
<1>5. job.at \in Int /\ job.at >= -1 /\ job.name \in FileNames
  BY <1>4 DEF IsJob
<1>6. IsSeq(encode_genesis(Genesis)) /\ IsSeq(vrf_bytes(VrfKeys)) /\ \A list \in lists : IsSeq(boot_bytes(list))
  <2>1. IsSeq(encode_genesis(Genesis))
    BY GenesisLayout, EncodeIs DEF encode_genesis
  <2>2. IsSeq(vrf_bytes(VrfKeys))
    BY ConfigAssumption, CountedIs DEF vrf_bytes
  <2>3. \A list \in lists : IsSeq(boot_bytes(list))
    BY IsBoot, BootBytesAre DEF TornFiles
  <2> QED
    BY <2>1, <2>2, <2>3
<1> DEFINE b == SubSeq(job.bytes, 1, n)
<1>7. n \in Int /\ n >= 0 /\ n <= Len(job.bytes)
  <2>1. ASSUME NEW x \in Int, x >= -1, NEW y, n \in x + 1 .. y PROVE n \in Int /\ n >= 0 /\ n <= y
    BY <2>1
  <2> QED
    BY <1>2, <1>5, <2>1
<1>8. \A B : job.bytes = B /\ IsSeq(B) => Torn(b, B)
  <2> SUFFICES ASSUME NEW B, job.bytes = B, IsSeq(B) PROVE Torn(b, B)
    OBVIOUS
  <2>1. n \in 0 .. Len(B)
    BY <1>7, LenIs
  <2> QED
    BY <2>1 DEF Torn
<1>9. /\ DOMAIN files' = FileNames
      /\ \A f \in FileNames : files'[f] = IF f = job.name THEN b ELSE files[f]
  <2> HIDE DEF b
  <2>1. files' = [files EXCEPT ![job.name] = b]
    BY <1>2 DEF b
  <2>2. DOMAIN files = FileNames
    BY DEF TornFiles
  <2> QED
    BY <1>5, <2>1, <2>2
<1> HIDE DEF b
<1>10. Torn(files'["genesis.bin"], encode_genesis(Genesis))
  <2>1. "genesis.bin" \in FileNames
    BY DEF FileNames
  <2>2. job.name = "genesis.bin" => Torn(b, encode_genesis(Genesis))
    BY <1>4, <1>6, <1>8 DEF IsJob
  <2> QED
    BY <1>9, <2>1, <2>2 DEF TornFiles
<1>11. BootTorn(files'["bootstrap.bin"], lists)
  <2>1. "bootstrap.bin" \in FileNames
    BY DEF FileNames
  <2>2. job.name = "bootstrap.bin" => BootTorn(b, lists)
    BY <1>4, <1>6, <1>8 DEF IsJob, BootTorn
  <2> QED
    BY <1>9, <2>1, <2>2 DEF TornFiles
<1>12. Torn(files'["vrf_pks.bin"], vrf_bytes(VrfKeys))
  <2>1. "vrf_pks.bin" \in FileNames
    BY DEF FileNames
  <2>2. job.name = "vrf_pks.bin" => Torn(b, vrf_bytes(VrfKeys))
    BY <1>4, <1>6, <1>8 DEF IsJob
  <2> QED
    BY <1>9, <2>1, <2>2 DEF TornFiles
<1>13. IsSeq(writing') /\ \A i \in 1 .. Len(writing') : IsJob(writing'[i], lists)
  <2>1. CASE writing' = Tail(writing)
    <3> DEFINE S == {writing[i] : i \in DOMAIN writing}
    <3>1. writing \in Seq(S) /\ writing # <<>>
      BY <1>1, <1>3 DEF IsSeq
    <3> HIDE DEF S
    <3>2. /\ Tail(writing) \in Seq(S) /\ Len(Tail(writing)) = Len(writing) - 1
          /\ \A i \in 1 .. Len(Tail(writing)) : Tail(writing)[i] = writing[i + 1]
      BY <3>1, HeadTailProperties
    <3>3. \A i \in 1 .. Len(Tail(writing)) : i + 1 \in 1 .. Len(writing)
      BY <1>3, <3>2
    <3>4. \A i \in 1 .. Len(writing) : IsJob(writing[i], lists)
      BY DEF TornFiles
    <3>5. \A i \in 1 .. Len(Tail(writing)) : IsJob(Tail(writing)[i], lists)
      BY <3>2, <3>3, <3>4
    <3> QED
      BY <2>1, <3>2, <3>5, SeqIs
  <2>2. CASE writing' = [writing EXCEPT ![1].at = n]
    <3> DEFINE new == [job EXCEPT !.at = n]
    <3>1. writing' = [writing EXCEPT ![1] = new]
      BY <1>a, <2>2
    <3>2. IsJob(new, lists)
      <4>1. new = [name |-> job.name, bytes |-> job.bytes, at |-> n]
        <5>1. job = [name |-> job.name, bytes |-> job.bytes, at |-> job.at]
          BY <1>4 DEF IsJob
        <5>2. DOMAIN job = {"name", "bytes", "at"}
          BY <5>1
        <5> QED
          BY <5>2
      <4> HIDE DEF new, job
      <4>2. new.name = job.name /\ new.bytes = job.bytes /\ new.at = n
        BY <4>1
      <4>3. new = [name |-> new.name, bytes |-> new.bytes, at |-> new.at]
        BY <4>1
      <4>4. n \in Int /\ n >= -1
        BY <1>7
      <4> QED
        BY <1>4, <4>2, <4>3, <4>4 DEF IsJob
    <3> HIDE DEF new
    <3>3. /\ DOMAIN writing' = 1 .. Len(writing)
          /\ \A i \in 1 .. Len(writing) : writing'[i] = IF i = 1 THEN new ELSE writing[i]
      BY <1>3, <3>1
    <3>4. writing' = [i \in 1 .. Len(writing) |-> writing'[i]]
      BY <1>3, <3>1
    <3>5. IsSeq(writing') /\ Len(writing') = Len(writing)
      BY <1>3, <3>4, MadeSeq
    <3> QED
      BY <3>2, <3>3, <3>5 DEF TornFiles
  <2> QED
    BY <1>2, <2>1, <2>2
<1>14. TornFiles'
  BY <1>1, <1>9, <1>10, <1>11, <1>12, <1>13 DEF TornFiles
<1>15. TornFilesHarmless'
  BY <1>1 DEF TornFilesHarmless
<1> QED
  BY <1>14, <1>15

\* Starting the node keeps it.
LEMMA BootKeeps ==
  ASSUME TornFiles, TornFilesHarmless, Boot
  PROVE  TornFiles' /\ TornFilesHarmless'
<1>1. UNCHANGED <<files, writing, lists>> /\ running' \in load_dir(files) /\ dialled' = running'.bootstrap
  BY DEF Boot
<1>2. TornFiles'
  BY <1>1 DEF TornFiles
<1> DEFINE boot == load_bootstrap(files["bootstrap.bin"])
<1> DEFINE vrf == read_vrf(files["vrf_pks.bin"])
<1> DEFINE D(genesis) == IF Len(files["keys"]) # 3 THEN Err
                         ELSE Ok([genesis |-> genesis, bootstrap |-> boot, vrf_pks |-> vrf])
<1>3. load_dir(files) = UNION {D(genesis) : genesis \in decode_genesis(files["genesis.bin"])}
  BY DEF load_dir, Then
<1>4. decode_genesis(files["genesis.bin"]) \subseteq {Genesis}
  BY GenesisPrefix DEF TornFiles, Torn
<1>5. vrf \subseteq Range(VrfKeys)
  BY VrfPrefix DEF TornFiles, Torn
<1>6. boot \subseteq UNION {Range(list) : list \in lists}
  BY BootTornLoads DEF TornFiles
<1> HIDE DEF boot, vrf
<1>7. running' \in D(Genesis)
  BY <1>1, <1>3, <1>4
<1>8. running' = [genesis |-> Genesis, bootstrap |-> boot, vrf_pks |-> vrf]
  BY <1>7 DEF Err, Ok
<1>9. running'.genesis = Genesis /\ running'.vrf_pks = vrf /\ running'.bootstrap = boot
  BY <1>8
<1>10. TornFilesHarmless'
  BY <1>1, <1>5, <1>6, <1>9 DEF TornFilesHarmless
<1> QED
  BY <1>2, <1>10

\* Reading the list again keeps it.
LEMMA RedialKeeps ==
  ASSUME TornFiles, TornFilesHarmless, Redial
  PROVE  TornFiles' /\ TornFilesHarmless'
<1>1. /\ UNCHANGED <<files, writing, lists, running>>
      /\ dialled' = dialled \cup load_bootstrap(files["bootstrap.bin"])
  BY DEF Redial
<1>2. TornFiles'
  BY <1>1 DEF TornFiles
<1>3. load_bootstrap(files["bootstrap.bin"]) \subseteq UNION {Range(list) : list \in lists}
  BY BootTornLoads DEF TornFiles
<1>4. TornFilesHarmless'
  BY <1>1, <1>3 DEF TornFilesHarmless
<1> QED
  BY <1>2, <1>4

\* Whenever a node starts or reads its files, whatever has been written of them,
\* it has the operator's genesis symbol for symbol and only peers, addresses and
\* keys of the operator's (load_dir, load_bootstrap and the reader of
\* vrf_pks.bin), for every genesis, key list and bootstrap list.
THEOREM ConfigTornFilesHarmless == ConfigSpec => []TornFilesHarmless
<1>1. ConfigInit => TornFiles /\ TornFilesHarmless
  <2> SUFFICES ASSUME ConfigInit PROVE TornFiles /\ TornFilesHarmless
    OBVIOUS
  <2>1. /\ files = [f \in FileNames |-> <<>>] /\ writing = <<>> /\ lists = {}
        /\ running = NoNode /\ dialled = {}
    BY DEF ConfigInit
  <2>2. /\ DOMAIN files = FileNames /\ files["genesis.bin"] = <<>> /\ files["bootstrap.bin"] = <<>>
        /\ files["vrf_pks.bin"] = <<>>
    BY <2>1 DEF FileNames
  <2>3. Torn(<<>>, encode_genesis(Genesis))
    BY GenesisLayout, EncodeIs, TornEmpty DEF encode_genesis
  <2>4. Torn(<<>>, vrf_bytes(VrfKeys))
    BY ConfigAssumption, CountedIs, TornEmpty DEF vrf_bytes
  <2>5. IsSeq(writing) /\ Len(writing) = 0
    BY <2>1, TupleIs
  <2>6. TornFiles
    BY <2>1, <2>2, <2>3, <2>4, <2>5 DEF TornFiles, BootTorn
  <2>7. TornFilesHarmless
    BY <2>1 DEF TornFilesHarmless
  <2> QED
    BY <2>6, <2>7
<1>2. TornFiles /\ TornFilesHarmless /\ [ConfigNext]_config_vars => TornFiles' /\ TornFilesHarmless'
  <2> SUFFICES ASSUME TornFiles, TornFilesHarmless, [ConfigNext]_config_vars
               PROVE  TornFiles' /\ TornFilesHarmless'
    OBVIOUS
  <2>1. CASE \E list \in BootLists : WriteDir(list) \/ write_bootstrap(list)
    BY <2>1, WriteDirKeeps
  <2>2. CASE WriteSome
    BY <2>2, WriteSomeKeeps
  <2>3. CASE Boot
    BY <2>3, BootKeeps
  <2>4. CASE Redial
    BY <2>4, RedialKeeps
  <2>5. CASE UNCHANGED config_vars
    BY <2>5 DEF config_vars, TornFiles, TornFilesHarmless
  <2> QED
    BY <2>1, <2>2, <2>3, <2>4, <2>5 DEF ConfigNext
<1> QED
  BY <1>1, <1>2, PTL DEF ConfigSpec
=============================================================================
