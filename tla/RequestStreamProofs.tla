------------------------ MODULE RequestStreamProofs ------------------------
(***************************************************************************)
(* The stream for any user ids, row ids, tails and any number of requests: *)
(* the count under splits and joins, which does not depend on the parsing; *)
(* the parsing, which is the inverse of Encode and makes no request of a   *)
(* remainder; and with it what is handled and what is lost.                *)
(*                                                                         *)
(* What a recursive function computes is proved by a least counterexample: *)
(* U is the set of arguments where it fails, and has no least member.      *)
(***************************************************************************)
EXTENDS RequestStream, FiniteSetTheorems, SequenceTheorems, WellFoundedInduction, TLAPS

\* Every call of recv lets the client send one request at most, and ends a request, the
\* remainder of one, or inside one.
CountInv ==
    /\ \E S : wire \in Seq(S)
    /\ \E S : sent \in Seq(S)
    /\ req_cnt \in Nat /\ splits \in Nat
    /\ Len(sent) <= req_cnt + 1
    /\ wire = <<>> => Len(sent) <= req_cnt
    /\ req_cnt + Len(wire) <= Len(sent) + splits

\* Taking the first k elements off a sequence leaves the others.
LEMMA FromLen ==
    ASSUME NEW S, NEW s \in Seq(S), NEW k \in 0 .. Len(s)
    PROVE  From(s, k + 1) \in Seq(S) /\ Len(From(s, k + 1)) = Len(s) - k
  BY DEF From

\* The count is kept by every step of the client and of recv.
LEMMA CountNext == CountInv /\ [Next]_stream => CountInv'
  <1>. SUFFICES ASSUME CountInv, [Next]_stream PROVE CountInv'
    OBVIOUS
  <1>w. PICK W : wire \in Seq(W)
    BY DEF CountInv
  <1>s. PICK S : sent \in Seq(S)
    BY DEF CountInv
  <1>. USE DEF CountInv
  <1>1. ASSUME NEW r \in Requests, NEW x \in Tails, Send(r, x)
        PROVE  CountInv'
    <2>. DEFINE e == [cells |-> Encode(r) \o x, line |-> Len(Encode(r))]
    <2>. HIDE DEF e
    <2>1. wire' = Append(wire, e) /\ sent' = Append(sent, r)
      BY <1>1 DEF Send, e
    <2>2. wire' \in Seq(W \cup {e}) /\ Len(wire') = Len(wire) + 1 /\ wire' # <<>>
      BY <1>w, <2>1
    <2>3. sent' \in Seq(S \cup {r}) /\ Len(sent') = Len(sent) + 1
      BY <1>s, <2>1
    <2>4. Len(sent) <= req_cnt /\ UNCHANGED <<req_cnt, splits>>
      BY <1>1 DEF Send
    <2>5. Len(wire) \in Nat /\ Len(sent) \in Nat
      BY <1>w, <1>s
    <2>. QED
      BY <2>2, <2>3, <2>4, <2>5
  <1>2. ASSUME NEW k \in 1 .. Len(wire), RecvWhole(k)
        PROVE  CountInv'
    <2>1. wire' \in Seq(W) /\ Len(wire') = Len(wire) - k
      BY <1>2, <1>w, FromLen DEF RecvWhole
    <2>2. req_cnt' = req_cnt + 1 /\ sent' = sent /\ splits' = splits
      BY <1>2 DEF RecvWhole, Serve, ServeAs
    <2>. QED
      BY <1>w, <1>s, <2>1, <2>2
  <1>3. ASSUME NEW k \in 0 .. Len(wire) - 1, NEW m, RecvPart(k, m)
        PROVE  CountInv'
    <2>. DEFINE e == [cells |-> From(wire[k + 1].cells, m + 1), line |-> 0]
                rest == From(wire, (k + 1) + 1)
    <2>1. rest \in Seq(W) /\ Len(rest) = Len(wire) - (k + 1)
      BY <1>w, FromLen
    <2>2. wire' = <<e>> \o rest
      BY <1>3, <1>w DEF RecvPart
    <2>. HIDE DEF e, rest
    <2>3. wire' \in Seq(W \cup {e}) /\ Len(wire') = Len(wire) - k
      BY <1>w, <2>1, <2>2
    <2>4. req_cnt' = req_cnt + 1 /\ sent' = sent /\ splits' = splits + 1
      BY <1>3 DEF RecvPart, Serve, ServeAs
    <2>. QED
      BY <1>w, <1>s, <2>3, <2>4
  <1>4. CASE UNCHANGED stream
    BY <1>4, <1>w, <1>s DEF stream
  <1>. QED
    BY <1>1, <1>2, <1>3, <1>4 DEF Next, Quiet

\* No request is left without an answer, and the count runs ahead of the requests by
\* the calls of recv that ended inside one, whatever is sent and however it is cut.
THEOREM CountHolds == Spec => []CountKeepsUp
  <1>1. Init => CountInv
    <2>1. <<>> \in Seq({})
      OBVIOUS
    <2>. QED
      BY <2>1 DEF Init, CountInv
  <1>2. CountInv => CountKeepsUp
    BY DEF CountInv, CountKeepsUp
  <1>. QED
    BY <1>1, <1>2, CountNext, PTL DEF Spec

-----------------------------------------------------------------------------
(***************************************************************************)
(* Least members, and the digits of a number.                              *)
(***************************************************************************)

\* A set of numbers that is not empty has a least member.
LEMMA Least ==
    ASSUME NEW T, T \subseteq Nat, T # {}
    PROVE  \E m \in T : \A y \in T : m <= y
  <1>1. PICK m \in T : \A y \in T : ~ (<<y, m>> \in OpToRel(<, Nat))
    BY WFMin, NatLessThanWellFounded, Zenon
  <1>2. ASSUME NEW y \in T PROVE m <= y
    <2>1. ~(y < m)
      BY <1>1, Zenon DEF OpToRel
    <2>. QED
      BY <2>1
  <1>. QED
    BY <1>2

\* The ten digits are different cells, and none of them is a blank, a slash or NUL.
LEMMA DigitFacts ==
  /\ \A d \in 0 .. 9 : Digit[d + 1] \in Digits
  /\ \A c \in Digits : \E d \in 0 .. 9 : Digit[d+1] = c
  /\ \A d, e \in 0 .. 9 : Digit[d+1] = Digit[e+1] => d = e
  /\ Digits \cap (Blank \cup {"/", NUL}) = {}
  <1>1. DOMAIN Digit = 1 .. 10
   BY DEF Digit
  <1>2. \A d, e \in 0 .. 9 : Digit[d+1] = Digit[e+1] => d = e
   BY DEF Digit
  <1>3. \A c \in Digits : \E d \in 0 .. 9 : Digit[d+1] = c
    <2>1. SUFFICES ASSUME NEW i \in DOMAIN Digit PROVE \E d \in 0 .. 9 : Digit[d+1] = Digit[i]
      BY DEF Digits, ToSet
    <2>2. i - 1 \in 0 .. 9 /\ (i - 1) + 1 = i
      BY <1>1
    <2>. QED
      BY <2>2
  <1>4. Digits \cap (Blank \cup {"/", NUL}) = {}
    <2>1. SUFFICES ASSUME NEW d \in 0 .. 9 PROVE Digit[d+1] \notin Blank \cup {"/", NUL}
      BY <1>3
    <2>2. Digit[d+1] \in {"0", "1", "2", "3", "4", "5", "6", "7", "8", "9"}
      BY DEF Digit
    <2>3. Digit[d+1] # " "
      BY <2>2
    <2>4. Digit[d+1] # "\r"
      BY <2>2
    <2>5. Digit[d+1] # "\n"
      BY <2>2
    <2>6. Digit[d+1] # "/"
      BY <2>2
    <2>7. Digit[d+1] # "\\0"
      BY <2>2
    <2>. QED
      BY <2>3, <2>4, <2>5, <2>6, <2>7 DEF Blank, NUL
  <1>5. \A d \in 0 .. 9 : Digit[d + 1] \in Digits
   BY <1>1 DEF Digits, ToSet
  <1>. QED
    BY <1>2, <1>3, <1>4, <1>5

\* Every cell that may be sent or that parsing writes.
Cells == Chars \cup Blank \cup Digits \cup {NUL, "/", "c", "P", "x"}

\* A least member of a set is its minimum.
LEMMA MinIs ==
    ASSUME NEW T, T \subseteq Nat, NEW m \in T, \A y \in T : m <= y
    PROVE  Min(T) = m
  <1>1. \E x \in T : \A y \in T : x <= y
    OBVIOUS
  <1>2. Min(T) \in T /\ \A y \in T : Min(T) <= y
    BY <1>1 DEF Min
  <1>3. Min(T) <= m /\ m <= Min(T)
    BY <1>2
  <1>4. Min(T) \in Nat /\ m \in Nat
    BY <1>2
  <1>. QED
    BY <1>3, <1>4

\* Until stops where the second part begins, if that is the first cell of the set.
LEMMA UntilConcat ==
    ASSUME NEW S, NEW a \in Seq(S), NEW b \in Seq(S), NEW C,
           \A i \in 1 .. Len(a) : a[i] \notin C, b = <<>> \/ b[1] \in C
    PROVE  Until(a \o b, C) = a
  <1>. DEFINE s == a \o b
              hits == {i \in DOMAIN s : s[i] \in C}
  <1>1. s \in Seq(S) /\ Len(s) = Len(a) + Len(b) /\ DOMAIN s = 1 .. Len(s)
    OBVIOUS
  <1>2. \A i \in 1 .. Len(a) : s[i] = a[i]
    OBVIOUS
  <1>3. CASE b = <<>>
    <2>1. s = a
      BY <1>3
    <2>2. hits = {}
      BY <2>1, <1>1
    <2>. QED
      BY <2>1, <2>2 DEF Until
  <1>4. CASE b # <<>>
    <2>1. Len(b) >= 1 /\ s[Len(a) + 1] = b[1]
      BY <1>4
    <2>2. Len(a) + 1 \in hits
      BY <2>1, <1>1, <1>4
    <2>3. \A i \in hits : Len(a) + 1 <= i
      BY <1>1, <1>2
    <2>4. Min(hits) = Len(a) + 1
      <3>1. hits \subseteq Nat
        BY <1>1
      <3>. HIDE DEF hits
      <3>. QED
        BY <2>2, <2>3, <3>1, MinIs
    <2>5. Until(s, C) = SubSeq(s, 1, Len(a))
      <3>1. Until(s, C) = IF hits = {} THEN s ELSE SubSeq(s, 1, Min(hits) - 1)
        BY DEF Until
      <3>. HIDE DEF hits
      <3>2. hits # {} /\ Min(hits) - 1 = Len(a)
        BY <2>2, <2>4
      <3>. QED
        BY <3>1, <3>2, Zenon
    <2>. QED
      BY <2>5, <1>1, <1>2
  <1>. QED
    BY <1>3, <1>4

\* After the first part comes the second.
LEMMA FromConcat ==
    ASSUME NEW S, NEW a \in Seq(S), NEW b \in Seq(S)
    PROVE  From(a \o b, Len(a) + 1) = b
  BY DEF From

\* The blank that is overwritten is the first of the line: what is before it stays.
LEMMA CutConcat ==
    \A a, b \in Seq(Cells) :
        (\A i \in 1 .. Len(a) : a[i] \notin Blank) /\ (b = <<>> \/ b[1] \in Blank)
        => \E c \in Seq(Cells) : CutAtBlank(a \o b) = a \o c /\ (c = <<>> \/ c[1] = NUL)
  <1>. SUFFICES ASSUME NEW a \in Seq(Cells), NEW b \in Seq(Cells),
                       \A i \in 1 .. Len(a) : a[i] \notin Blank, b = <<>> \/ b[1] \in Blank
                PROVE  \E c \in Seq(Cells) : CutAtBlank(a \o b) = a \o c /\ (c = <<>> \/ c[1] = NUL)
    BY Zenon
  <1>. DEFINE s == a \o b
  <1>1. Until(s, Blank) = a
    BY UntilConcat
  <1>2. s \in Seq(Cells) /\ Len(s) = Len(a) + Len(b)
    OBVIOUS
  <1>3. CASE b = <<>>
    <2>1. CutAtBlank(s) = a
      BY <1>1, <1>2, <1>3 DEF CutAtBlank
    <2>2. a = a \o <<>> /\ <<>> \in Seq(Cells)
      OBVIOUS
    <2>. QED
      BY <2>1, <2>2
  <1>4. CASE b # <<>>
    <2>. DEFINE c == [b EXCEPT ![1] = NUL]
    <2>1. NUL \in Cells
      BY DEF Cells
    <2>2. c \in Seq(Cells) /\ Len(c) = Len(b) /\ c[1] = NUL
      BY <1>4, <2>1
    <2>3. CutAtBlank(s) = [s EXCEPT ![Len(a) + 1] = NUL]
      BY <1>1, <1>2, <1>4 DEF CutAtBlank
    <2>4. [s EXCEPT ![Len(a) + 1] = NUL] = a \o c
      <3>. DEFINE n == Len(a) + 1
                  t == [s EXCEPT ![n] = NUL]
      <3>0. Len(b) \in Nat \ {0} /\ Len(a) \in Nat
        BY <1>4
      <3>2. \A i \in 1 .. Len(s) : s[i] = IF i <= Len(a) THEN a[i] ELSE b[i - Len(a)]
        OBVIOUS
      <3>. HIDE DEF s
      <3>1. s \in [1 .. Len(s) -> Cells] /\ n \in 1 .. Len(s) /\ Len(s) \in Nat
        BY <3>0, <1>2
      <3>3. t \in [1 .. Len(s) -> Cells] /\ \A i \in 1 .. Len(s) : t[i] = IF i = n THEN NUL ELSE s[i]
        BY <2>1, <3>1
      <3>4. t \in Seq(Cells) /\ Len(t) = Len(s)
        BY <3>1, <3>3
      <3>5. a \o c \in Seq(Cells) /\ Len(a \o c) = Len(s)
        BY <1>2, <2>2
      <3>6. ASSUME NEW i \in 1 .. Len(s) PROVE t[i] = (a \o c)[i]
        <4>1. CASE i <= Len(a)
          BY <4>1, <2>2, <3>2, <3>3
        <4>2. CASE i = n
          <5>1. t[i] = NUL
            BY <4>2, <3>3
          <5>. HIDE DEF c
          <5>2. (a \o c)[i] = c[1]
            BY <3>0, <2>2, <4>2
          <5>3. c[1] = NUL
            BY <2>2
          <5>. QED
            BY <5>1, <5>2, <5>3
        <4>3. CASE i > n
          <5>1. t[i] = b[i - Len(a)]
            BY <4>3, <3>2, <3>3
          <5>2. c[i - Len(a)] = b[i - Len(a)]
            BY <4>3, <1>2, <1>4
          <5>. HIDE DEF c
          <5>3. (a \o c)[i] = c[i - Len(a)]
            BY <4>3, <2>2, <1>2
          <5>. QED
            BY <5>1, <5>2, <5>3
        <4>4. i <= Len(a) \/ i = n \/ i > n
          BY <3>0, <3>1
        <4>. QED
          BY <4>1, <4>2, <4>3, <4>4, Zenon
      <3>. QED
        BY <3>4, <3>5, <3>6, SeqEqual
    <2>. QED
      BY <2>2, <2>3, <2>4
  <1>. QED
    BY <1>3, <1>4

\* Overwriting the blank keeps the length, and every cell but for a NUL.
LEMMA CutIs ==
    ASSUME NEW S, NEW s \in Seq(S)
    PROVE  /\ Len(CutAtBlank(s)) = Len(s)
           /\ \A i \in 1 .. Len(s) : CutAtBlank(s)[i] \in {s[i], NUL}
  <1>. DEFINE n == Len(Until(s, Blank)) + 1
  <1>1. CASE CutAtBlank(s) = s
    BY <1>1
  <1>2. CASE CutAtBlank(s) = [s EXCEPT ![n] = NUL]
    <2>. HIDE DEF n
    <2>1. Len([s EXCEPT ![n] = NUL]) = Len(s)
      OBVIOUS
    <2>2. \A i \in 1 .. Len(s) : [s EXCEPT ![n] = NUL][i] \in {s[i], NUL}
      OBVIOUS
    <2>. QED
      BY <1>2, <2>1, <2>2
  <1>. QED
    BY <1>1, <1>2 DEF CutAtBlank

\* The number a digit stands for.
DigitValue(c) == CHOOSE d \in 0 .. 9 : Digit[d + 1] = c

\* Digits and the numbers below ten correspond.
LEMMA DigitValueOf ==
  /\ \A d \in 0 .. 9 : DigitValue(Digit[d + 1]) = d
  /\ \A c \in Digits : DigitValue(c) \in 0 .. 9
  <1>1. ASSUME NEW d \in 0 .. 9 PROVE DigitValue(Digit[d + 1]) = d
    <2>1. DigitValue(Digit[d + 1]) \in 0 .. 9 /\ Digit[DigitValue(Digit[d + 1]) + 1] = Digit[d + 1]
      BY DEF DigitValue
    <2>. QED
      BY <2>1, DigitFacts
  <1>2. ASSUME NEW c \in Digits PROVE DigitValue(c) \in 0 .. 9
    BY DigitFacts DEF DigitValue
  <1>. QED
    BY <1>1, <1>2

\* The function that Value is defined by exists and satisfies its recursion.
LEMMA ValueRec ==
    ASSUME NEW ds \in Seq(Digits)
    PROVE  \E v \in [0 .. Len(ds) -> Nat] :
              /\ v[0] = 0
              /\ \A k \in 1 .. Len(ds) : v[k] = 10 * v[k - 1] + DigitValue(ds[k])
              /\ Value(ds) = v[Len(ds)]
  <1>. DEFINE Body(f, k) == IF k = 0 THEN 0 ELSE 10 * f[k - 1] + DigitValue(ds[k])
              Eq(f, n) == f = [k \in 0 .. n |-> Body(f, k)]
              T == {n \in 0 .. Len(ds) : ~ \E f : Eq(f, n)}
  <1>1. T = {}
    <2>1. SUFFICES ASSUME NEW n \in T, \A y \in T : n <= y PROVE FALSE
      <3>. HIDE DEF T
      <3>1. T \subseteq Nat
        BY DEF T
      <3>. QED
        BY <3>1, Least
    <2>2. CASE n = 0
      <3>. DEFINE f == [k \in 0 .. 0 |-> 0]
      <3>1. f = [k \in 0 .. 0 |-> Body(f, k)]
        OBVIOUS
      <3>. QED
        BY <3>1, <2>2
    <2>3. CASE n > 0
      <3>0. n \in 0 .. Len(ds)
        OBVIOUS
      <3>1. n - 1 \in 0 .. Len(ds) /\ n - 1 \notin T
        <4>. HIDE DEF T
        <4>. QED
          BY <2>1, <2>3, <3>0
      <3>2. PICK f : Eq(f, n - 1)
        BY <3>1
      <3>. DEFINE g == [k \in 0 .. n |-> IF k < n THEN f[k] ELSE Body(f, n)]
      <3>3. n \in Nat
        OBVIOUS
      <3>4. g = [k \in 0 .. n |-> Body(g, k)]
        <4>. SUFFICES ASSUME NEW k \in 0 .. n PROVE g[k] = Body(g, k)
          BY Zenon
        <4>1. k # 0 => g[k - 1] = f[k - 1]
          BY <3>3
        <4>2. Body(g, k) = Body(f, k)
          <5>. HIDE DEF g
          <5>. QED
            BY <4>1
        <4>3. CASE k < n
          <5>1. f[k] = Body(f, k)
            <6>1. k \in 0 .. n - 1
              BY <4>3, <3>3
            <6>. QED
              BY <6>1, <3>2, Zenon
          <5>2. g[k] = f[k]
            BY <4>3
          <5>. QED
            BY <5>1, <5>2, <4>2
        <4>4. CASE k = n
          <5>1. g[k] = Body(f, n)
            BY <4>4
          <5>. QED
            BY <5>1, <4>2, <4>4
        <4>. QED
          BY <4>3, <4>4, <3>3
      <3>5. \E h : Eq(h, n)
        <4>. HIDE DEF g, Body
        <4>. QED
          BY <3>4
      <3>. QED
        BY <3>5
    <2>. QED
      BY <2>2, <2>3
  <1>2. \E f : Eq(f, Len(ds))
    BY <1>1
  <1>. DEFINE v == CHOOSE f : Eq(f, Len(ds))
  <1>3. Eq(v, Len(ds))
    <2>. HIDE DEF Eq
    <2>. QED
      BY <1>2
  <1>4. Value(ds) = v[Len(ds)]
    BY DEF Value, DigitValue
  <1>. HIDE DEF v
  <1>5. DOMAIN v = 0 .. Len(ds) /\ \A k \in 0 .. Len(ds) : v[k] = Body(v, k)
    <2>. HIDE DEF Body
    <2>. QED
      BY <1>3
  <1>6. \A k \in 0 .. Len(ds) : v[k] \in Nat
    <2>. DEFINE U == {k \in 0 .. Len(ds) : v[k] \notin Nat}
    <2>1. SUFFICES ASSUME NEW k \in U, \A y \in U : k <= y PROVE FALSE
      <3>. HIDE DEF U
      <3>1. U \subseteq Nat
        BY DEF U
      <3>2. U = {}
        BY <3>1, <2>1, Least
      <3>. QED
        BY <3>2 DEF U
    <2>2. k # 0
      BY <1>5
    <2>3. v[k - 1] \in Nat
      BY <2>1, <2>2
    <2>4. DigitValue(ds[k]) \in Nat
      BY <2>2, DigitValueOf
    <2>5. v[k] = 10 * v[k - 1] + DigitValue(ds[k])
      BY <2>2, <1>5
    <2>. QED
      BY <2>3, <2>4, <2>5
  <1>7. v \in [0 .. Len(ds) -> Nat]
    <2>1. v = [k \in 0 .. Len(ds) |-> v[k]]
      <3>. HIDE DEF Body
      <3>. QED
        BY <1>3
    <2>. QED
      BY <2>1, <1>6
  <1>8. v[0] = 0 /\ \A k \in 1 .. Len(ds) : v[k] = 10 * v[k - 1] + DigitValue(ds[k])
    BY <1>5
  <1>. QED
    BY <1>4, <1>7, <1>8

\* A digit more makes ten times the number, and the digit.
LEMMA ValueAppend ==
    ASSUME NEW ds \in Seq(Digits), NEW d \in 0 .. 9
    PROVE  Value(Append(ds, Digit[d + 1])) = 10 * Value(ds) + d
  <1>. DEFINE es == Append(ds, Digit[d + 1])
  <1>1. es \in Seq(Digits) /\ Len(es) = Len(ds) + 1 /\ es[Len(es)] = Digit[d + 1]
    BY DigitFacts
  <1>2. \A k \in 1 .. Len(ds) : es[k] = ds[k]
    OBVIOUS
  <1>. HIDE DEF es
  <1>3. PICK v \in [0 .. Len(ds) -> Nat] :
           /\ v[0] = 0
           /\ \A k \in 1 .. Len(ds) : v[k] = 10 * v[k - 1] + DigitValue(ds[k])
           /\ Value(ds) = v[Len(ds)]
    BY ValueRec
  <1>4. PICK w \in [0 .. Len(es) -> Nat] :
           /\ w[0] = 0
           /\ \A k \in 1 .. Len(es) : w[k] = 10 * w[k - 1] + DigitValue(es[k])
           /\ Value(es) = w[Len(es)]
    BY <1>1, ValueRec
  <1>5. \A k \in 0 .. Len(ds) : w[k] = v[k]
    <2>. DEFINE U == {k \in 0 .. Len(ds) : w[k] # v[k]}
    <2>1. SUFFICES ASSUME NEW k \in U, \A y \in U : k <= y PROVE FALSE
      <3>. HIDE DEF U
      <3>1. U \subseteq Nat
        BY DEF U
      <3>2. U = {}
        BY <3>1, <2>1, Least
      <3>. QED
        BY <3>2 DEF U
    <2>2. k \in 1 .. Len(ds)
      BY <1>3, <1>4
    <2>3. w[k - 1] = v[k - 1]
      BY <2>1, <2>2
    <2>4. w[k] = 10 * w[k - 1] + DigitValue(es[k])
      BY <1>1, <1>4, <2>2
    <2>5. v[k] = 10 * v[k - 1] + DigitValue(ds[k])
      BY <1>3, <2>2
    <2>6. w[k] # v[k]
      OBVIOUS
    <2>. QED
      BY <2>2, <2>3, <2>4, <2>5, <2>6, <1>2
  <1>6. w[Len(es)] = 10 * w[Len(ds)] + DigitValue(es[Len(es)])
    <2>1. Len(es) \in 1 .. Len(es) /\ Len(es) - 1 = Len(ds)
      BY <1>1
    <2>2. w[Len(es)] = 10 * w[Len(es) - 1] + DigitValue(es[Len(es)])
      BY <1>4, <2>1
    <2>. QED
      BY <2>1, <2>2
  <1>7. DigitValue(es[Len(es)]) = d
    BY <1>1, DigitValueOf
  <1>. QED
    BY <1>3, <1>4, <1>5, <1>6, <1>7 DEF es

\* A digit alone stands for itself.
LEMMA ValueDigit == \A d \in 0 .. 9 : Value(<<Digit[d + 1]>>) = d
  <1>. SUFFICES ASSUME NEW d \in 0 .. 9 PROVE Value(<<Digit[d + 1]>>) = d
    OBVIOUS
  <1>1. <<>> \in Seq(Digits) /\ Len(<<>>) = 0
    OBVIOUS
  <1>2. Value(<<>>) = 0
    BY <1>1, ValueRec
  <1>3. <<Digit[d + 1]>> = Append(<<>>, Digit[d + 1])
    OBVIOUS
  <1>. QED
    <2>1. Value(Append(<<>>, Digit[d + 1])) = 10 * Value(<<>>) + d
      BY <1>1, ValueAppend
    <2>. QED
      BY <1>2, <1>3, <2>1

\* The function that Decimal is defined by exists and satisfies its recursion.
LEMMA DecimalRec ==
    ASSUME NEW n \in Nat
    PROVE  \E f : /\ Decimal(n) = f[n]
                /\ \A k \in 0 .. n : f[k] = IF k < 10 THEN <<Digit[k + 1]>>
                                            ELSE Append(f[k \div 10], Digit[(k % 10) + 1])
  <1>. DEFINE Body(f, k) == IF k < 10 THEN <<Digit[k + 1]>>
                                      ELSE Append(f[k \div 10], Digit[(k % 10) + 1])
              Eq(f, m) == f = [k \in 0 .. m |-> Body(f, k)]
              T == {m \in Nat : ~ \E f : Eq(f, m)}
  <1>1. T = {}
    <2>1. SUFFICES ASSUME NEW m \in T, \A y \in T : m <= y PROVE FALSE
      <3>. HIDE DEF T
      <3>1. T \subseteq Nat
        BY DEF T
      <3>. QED
        BY <3>1, Least
    <2>2. m \in Nat
      OBVIOUS
    <2>3. \E f : \A k \in 0 .. m - 1 : f[k] = Body(f, k)
      <3>1. CASE m = 0
        BY <3>1
      <3>2. CASE m > 0
        <4>1. m - 1 \in Nat /\ m - 1 \notin T
          <5>. HIDE DEF T
          <5>. QED
            BY <2>1, <2>2, <3>2
        <4>2. PICK f : Eq(f, m - 1)
          BY <4>1
        <4>3. \A k \in 0 .. m - 1 : f[k] = Body(f, k)
          <5>. HIDE DEF Body
          <5>. QED
            BY <4>2
        <4>. QED
          BY <4>3
      <3>. QED
        BY <3>1, <3>2, <2>2
    <2>4. PICK f : \A k \in 0 .. m - 1 : f[k] = Body(f, k)
      BY <2>3
    <2>. DEFINE g == [k \in 0 .. m |-> IF k < m THEN f[k] ELSE Body(f, m)]
    <2>5. g = [k \in 0 .. m |-> Body(g, k)]
      <3>. SUFFICES ASSUME NEW k \in 0 .. m PROVE g[k] = Body(g, k)
        BY Zenon
      <3>1. k >= 10 => g[k \div 10] = f[k \div 10]
        <4>1. k >= 10 => k \div 10 \in 0 .. m - 1
          BY <2>2
        <4>. QED
          BY <4>1, <2>2
      <3>2. Body(g, k) = Body(f, k)
        <4>. HIDE DEF g
        <4>. QED
          BY <3>1, <2>2
      <3>3. CASE k < m
        <4>1. k \in 0 .. m - 1
          BY <3>3, <2>2
        <4>2. g[k] = f[k]
          BY <3>3
        <4>. QED
          BY <4>1, <4>2, <3>2, <2>4
      <3>4. CASE k = m
        <4>1. g[k] = Body(f, m)
          BY <3>4
        <4>. QED
          BY <4>1, <3>2, <3>4
      <3>. QED
        BY <3>3, <3>4, <2>2
    <2>6. \E h : Eq(h, m)
      <3>. HIDE DEF g, Body
      <3>. QED
        BY <2>5
    <2>. QED
      BY <2>6
  <1>2. \E f : Eq(f, n)
    BY <1>1
  <1>. DEFINE f == CHOOSE f : Eq(f, n)
  <1>3. Eq(f, n)
    <2>. HIDE DEF Eq
    <2>. QED
      BY <1>2
  <1>4. Decimal(n) = f[n]
    BY DEF Decimal
  <1>. HIDE DEF f
  <1>5. \A k \in 0 .. n : f[k] = Body(f, k)
    <2>. HIDE DEF Body
    <2>. QED
      BY <1>3
  <1>. QED
    BY <1>4, <1>5

\* Decimal writes digits only, at least one, and Value reads the number back.
LEMMA DecimalFacts ==
    ASSUME NEW n \in Nat
    PROVE  Decimal(n) \in Seq(Digits) /\ Decimal(n) # <<>> /\ Value(Decimal(n)) = n
  <1>1. PICK f : /\ Decimal(n) = f[n]
                 /\ \A k \in 0 .. n : f[k] = IF k < 10 THEN <<Digit[k + 1]>>
                                             ELSE Append(f[k \div 10], Digit[(k % 10) + 1])
    BY DecimalRec
  <1>. DEFINE Right(k) == f[k] \in Seq(Digits) /\ f[k] # <<>> /\ Value(f[k]) = k
              U == {k \in 0 .. n : ~Right(k)}
  <1>2. U = {}
    <2>1. SUFFICES ASSUME NEW k \in U, \A y \in U : k <= y PROVE FALSE
      <3>. HIDE DEF U
      <3>1. U \subseteq Nat
        BY DEF U
      <3>. QED
        BY <3>1, <2>1, Least
    <2>2. k \in 0 .. n
      OBVIOUS
    <2>0. f[k] = IF k < 10 THEN <<Digit[k + 1]>> ELSE Append(f[k \div 10], Digit[(k % 10) + 1])
      <3>. HIDE DEF U
      <3>. QED
        BY <1>1, <2>2
    <2>3. CASE k < 10
      <3>1. f[k] = <<Digit[k + 1]>> /\ k \in 0 .. 9
        BY <2>0, <2>2, <2>3
      <3>2. Digit[k + 1] \in Digits
        BY <3>1, DigitFacts
      <3>3. f[k] \in Seq(Digits) /\ f[k] # <<>>
        BY <3>1, <3>2
      <3>. QED
        BY <3>1, <3>3, ValueDigit
    <2>4. CASE k >= 10
      <3>. DEFINE q == k \div 10
                  d == k % 10
      <3>1. q \in 0 .. n /\ q < k /\ d \in 0 .. 9 /\ k = 10 * q + d
        BY <2>2, <2>4
      <3>2. f[k] = Append(f[q], Digit[d + 1])
        BY <2>0, <2>2, <2>4
      <3>. HIDE DEF q, d
      <3>3. Right(q)
        <4>1. q \notin U
          <5>. HIDE DEF U
          <5>. QED
            BY <2>1, <2>2, <3>1
        <4>. QED
          BY <4>1, <3>1
      <3>4. Digit[d + 1] \in Digits
        BY <3>1, DigitFacts
      <3>5. f[k] \in Seq(Digits) /\ f[k] # <<>>
        BY <3>2, <3>3, <3>4
      <3>6. Value(f[k]) = k
        BY <3>1, <3>2, <3>3, ValueAppend
      <3>. QED
        BY <3>5, <3>6
    <2>. QED
      BY <2>2, <2>3, <2>4
  <1>. QED
    BY <1>1, <1>2

\* Decimal writes the last digit behind the others.
LEMMA DecimalStep ==
    ASSUME NEW n \in Nat
    PROVE  Decimal(n) = IF n < 10 THEN <<Digit[n + 1]>>
                        ELSE Append(Decimal(n \div 10), Digit[(n % 10) + 1])
  <1>. DEFINE Step(f, k) == IF k < 10 THEN <<Digit[k + 1]>>
                                      ELSE Append(f[k \div 10], Digit[(k % 10) + 1])
              p == n \div 10
  <1>1. PICK f : Decimal(n) = f[n] /\ \A k \in 0 .. n : f[k] = Step(f, k)
    BY DecimalRec
  <1>2. n \in 0 .. n /\ p \in 0 .. n
    OBVIOUS
  <1>. HIDE DEF p
  <1>3. PICK g : Decimal(p) = g[p] /\ \A k \in 0 .. p : g[k] = Step(g, k)
    BY <1>2, DecimalRec
  <1>. DEFINE U == {k \in 0 .. p : f[k] # g[k]}
  <1>4. U = {}
    <2>1. SUFFICES ASSUME NEW k \in U, \A y \in U : k <= y PROVE FALSE
      <3>. HIDE DEF U
      <3>1. U \subseteq Nat
        BY DEF U
      <3>. QED
        BY <3>1, <2>1, Least
    <2>2. k \in 0 .. p /\ f[k] # g[k]
      OBVIOUS
    <2>3. f[k] = Step(f, k) /\ g[k] = Step(g, k)
      BY <1>1, <1>2, <1>3, <2>2
    <2>4. k >= 10 => f[k \div 10] = g[k \div 10]
      <3>. SUFFICES ASSUME k >= 10 PROVE f[k \div 10] = g[k \div 10]
        OBVIOUS
      <3>1. k \div 10 \in 0 .. p /\ ~(k <= k \div 10)
        BY <1>2, <2>2
      <3>. QED
        BY <2>1, <3>1
    <2>. HIDE DEF U
    <2>. QED
      BY <2>2, <2>3, <2>4
  <1>5. f[p] = g[p]
    BY <1>2, <1>4
  <1>. HIDE DEF U
  <1>6. Decimal(n) = Step(f, n)
    BY <1>1, <1>2
  <1>. QED
    BY <1>3, <1>5, <1>6 DEF p

\* What is left of a number when digits are cut off at its end is written by the others.
LEMMA DecimalPrefix ==
    ASSUME NEW n \in Nat \ {0}, NEW q \in 1 .. Len(Decimal(n))
    PROVE  LET w == SubSeq(Decimal(n), 1, q)
           IN  Value(w) \in Nat \ {0} /\ Decimal(Value(w)) = w
  <1>. DEFINE Good(m) == \A i \in 1 .. Len(Decimal(m)) :
                            /\ Value(SubSeq(Decimal(m), 1, i)) \in Nat \ {0}
                            /\ Decimal(Value(SubSeq(Decimal(m), 1, i))) = SubSeq(Decimal(m), 1, i)
              U == {m \in Nat \ {0} : ~Good(m)}
  <1>1. U = {}
    <2>1. SUFFICES ASSUME NEW m \in U, \A y \in U : m <= y PROVE FALSE
      <3>. HIDE DEF U
      <3>1. U \subseteq Nat
        BY DEF U
      <3>. QED
        BY <3>1, <2>1, Least
    <2>2. m \in Nat \ {0} /\ ~Good(m)
      OBVIOUS
    <2>3. Decimal(m) \in Seq(Digits) /\ Value(Decimal(m)) = m
      BY <2>2, DecimalFacts
    <2>. SUFFICES ASSUME NEW i \in 1 .. Len(Decimal(m))
                  PROVE  /\ Value(SubSeq(Decimal(m), 1, i)) \in Nat \ {0}
                         /\ Decimal(Value(SubSeq(Decimal(m), 1, i))) = SubSeq(Decimal(m), 1, i)
      BY <2>2
    <2>4. CASE i = Len(Decimal(m))
      <3>1. SubSeq(Decimal(m), 1, i) = Decimal(m)
        BY <2>3, <2>4
      <3>. QED
        BY <2>2, <2>3, <3>1
    <2>5. CASE i # Len(Decimal(m))
      <3>. DEFINE p == m \div 10
                  c == Digit[(m % 10) + 1]
      <3>1. m >= 10
        <4>. SUFFICES ASSUME m < 10 PROVE FALSE
          BY <2>2
        <4>1. Len(Decimal(m)) = 1
          BY <2>2, DecimalStep
        <4>. QED
          BY <2>5, <4>1
      <3>2. Decimal(m) = Append(Decimal(p), c)
        BY <2>2, <3>1, DecimalStep
      <3>3. p \in Nat \ {0} /\ p < m
        BY <2>2, <3>1
      <3>. HIDE DEF p, c, U
      <3>4. Good(p)
        <4>1. p \notin U
          BY <2>1, <2>2, <3>3
        <4>. QED
          BY <3>3, <4>1 DEF U
      <3>5. Decimal(p) \in Seq(Digits)
        BY <3>3, DecimalFacts
      <3>6. i \in 1 .. Len(Decimal(p)) /\ SubSeq(Decimal(m), 1, i) = SubSeq(Decimal(p), 1, i)
        <4>. DEFINE a == Decimal(p)
        <4>1. a \in Seq(Digits) /\ Decimal(m) = Append(a, c)
          BY <3>2, <3>5
        <4>. HIDE DEF a
        <4>2. i \in 1 .. Len(a)
          BY <2>5, <4>1
        <4>3. SubSeq(Append(a, c), 1, i) = SubSeq(a, 1, i)
          BY <4>1, <4>2
        <4>. QED
          BY <4>1, <4>2, <4>3 DEF a
      <3>. QED
        BY <3>4, <3>6
    <2>. QED
      BY <2>4, <2>5
  <1>2. Good(n)
    <2>1. n \notin U
      <3>. HIDE DEF U
      <3>. QED
        BY <1>1
    <2>. HIDE DEF Good
    <2>. QED
      BY <2>1
  <1>. QED
    BY <1>2

-----------------------------------------------------------------------------
(***************************************************************************)
(* What handle_request makes of a line.                                    *)
(***************************************************************************)

\* The length and the cells of two sequences that are joined.
LEMMA Joined ==
    ASSUME NEW a \in Seq(Cells), NEW b \in Seq(Cells)
    PROVE  /\ a \o b \in Seq(Cells) /\ Len(a \o b) = Len(a) + Len(b)
           /\ Len(a) \in Nat /\ Len(b) \in Nat /\ DOMAIN a = 1 .. Len(a)
           /\ \A i \in 1 .. Len(a) : (a \o b)[i] = a[i]
           /\ b # <<>> => (a \o b)[Len(a) + 1] = b[1]
           /\ SubSeq(a \o b, 1, Len(a)) = a
           /\ a \o <<>> = a
  <1>1. b # <<>> => Len(b) >= 1
    OBVIOUS
  <1>. QED
    BY <1>1

\* Tuples of one, two or three cells are sequences of them.
LEMMA Tuples ==
    ASSUME NEW S, NEW a \in S, NEW b \in S, NEW c \in S
    PROVE  /\ <<a>> \in Seq(S) /\ Len(<<a>>) = 1 /\ <<a>>[1] = a
           /\ <<a, b>> \in Seq(S) /\ Len(<<a, b>>) = 2 /\ <<a, b>>[1] = a /\ <<a, b>>[2] = b
           /\ <<a, b, c>> \in Seq(S) /\ Len(<<a, b, c>>) = 3
           /\ <<a, b, c>>[1] = a /\ <<a, b, c>>[2] = b /\ <<a, b, c>>[3] = c
  OBVIOUS

\* A sequence as long as a user id may be is not empty.
LEMMA NotEmpty ==
    ASSUME NEW S, NEW s \in Seq(S), Len(s) \in 1 .. 43
    PROVE  s # <<>>
  <1>1. Len(s) # 0
    <2>1. \A n \in 1 .. 43 : n # 0
      OBVIOUS
    <2>. QED
      BY <2>1, Zenon
  <1>2. Len(<<>>) = 0
    OBVIOUS
  <1>. QED
    BY <1>1, <1>2, Zenon

\* A request for a row has a user id with no blank, slash or NUL, and an id.
LEMMA RequestTypes ==
    ASSUME NEW r \in Requests, r # Other
    PROVE  /\ r \in [user : Names, id : Ids]
           /\ r.user \in Seq(Cells) /\ r.user # <<>>
           /\ \A i \in 1 .. Len(r.user) : r.user[i] \notin Blank \cup {"/", NUL}
           /\ r.id \in Nat \ {0}
  <1>1. r \in [user : Names, id : Ids]
    BY DEF Requests
  <1>2. r.user \in Names /\ r.id \in Ids
    BY <1>1
  <1>3. r.user \in Seq(Chars) /\ Len(r.user) \in 1 .. 43 /\ ToSet(r.user) \cap (Blank \cup {"/", NUL}) = {}
    BY <1>2, StreamAssumption
  <1>4. r.user \in Seq(Cells)
    <2>1. Chars \subseteq Cells
      BY DEF Cells
    <2>. QED
      BY <1>3, <2>1, SeqMonotonic
  <1>5. \A i \in 1 .. Len(r.user) : r.user[i] \in ToSet(r.user)
    BY <1>3 DEF ToSet
  <1>6. r.id \in Nat \ {0}
    <2>1. Ids \subseteq 1 .. 2^30 + (2^30 - 1)
      BY StreamAssumption, Zenon
    <2>2. Ids \subseteq Nat \ {0}
      <3>. SUFFICES ASSUME NEW i \in 1 .. 2^30 + (2^30 - 1) PROVE i \in Nat \ {0}
        BY <2>1, Zenon
      <3>. QED
        OBVIOUS
    <2>. QED
      BY <1>2, <2>2, Zenon
  <1>7. r.user # <<>>
    BY <1>3, <1>4, NotEmpty, Zenon
  <1>. QED
    BY <1>1, <1>3, <1>4, <1>5, <1>6, <1>7

\* Joining sequences is associative.
LEMMA JoinedAssociative ==
    ASSUME NEW a \in Seq(Cells), NEW b \in Seq(Cells), NEW c \in Seq(Cells)
    PROVE  (a \o b) \o c = a \o (b \o c)
  BY ConcatAssociative

\* The cells of the method.
LEMMA MethodTypes == Method \in Seq(Cells) /\ Len(Method) = 2 /\ Method[1] = "P" /\ Method[2] = " "
  <1>1. "P" \in Cells /\ " " \in Cells
    BY DEF Cells, Blank
  <1>. QED
    BY <1>1, Tuples, Zenon DEF Method

\* The cells of the prefix.
LEMMA PrefixTypes ==
    /\ Prefix \in Seq(Cells) /\ Len(Prefix) = 3
    /\ Prefix[1] = "/" /\ Prefix[2] = "c" /\ Prefix[3] = "/"
  <1>1. "/" \in Cells /\ "c" \in Cells
    BY DEF Cells
  <1>. QED
    BY <1>1, Tuples, Zenon DEF Prefix

\* The slash between user id and row id.
LEMMA SlashTypes == <<"/">> \in Seq(Cells) /\ Len(<<"/">>) = 1 /\ <<"/">>[1] = "/"
  <1>1. "/" \in Cells
    BY DEF Cells
  <1>. QED
    BY <1>1, Tuples, Zenon

\* The path of the other request.
LEMMA OtherTypes == <<"/", "x">> \in Seq(Cells) /\ Len(<<"/", "x">>) = 2 /\ <<"/", "x">>[2] = "x"
  <1>1. "/" \in Cells /\ "x" \in Cells
    BY DEF Cells
  <1>. QED
    BY <1>1, Tuples, Zenon

\* The digits of a number are cells.
LEMMA DecimalTypes == \A n \in Nat : Decimal(n) \in Seq(Cells)
  <1>1. Digits \subseteq Cells
    BY DEF Cells
  <1>. QED
    BY <1>1, DecimalFacts, SeqMonotonic

\* Digits are cells, and no blank, slash or NUL.
LEMMA DigitsTypes ==
    ASSUME NEW ds \in Seq(Digits)
    PROVE  /\ ds \in Seq(Cells)
           /\ \A i \in 1 .. Len(ds) : ds[i] \notin Blank \cup {"/", NUL}
  <1>1. Digits \subseteq Cells
    BY DEF Cells
  <1>2. \A i \in 1 .. Len(ds) : ds[i] \in Digits
    OBVIOUS
  <1>. QED
    BY <1>1, <1>2, DigitFacts, SeqMonotonic

\* strtol reads the digits, if NUL or nothing follows.
LEMMA StrtolConcat ==
    ASSUME NEW ds \in Seq(Digits), NEW c \in Seq(Cells), c = <<>> \/ c[1] = NUL
    PROVE  Strtol(ds \o c) = Value(ds)
  <1>. DEFINE C == ToSet(ds \o c) \ Digits
  <1>2. ds \in Seq(Cells)
    BY DigitsTypes
  <1>3. \A i \in 1 .. Len(ds) : ds[i] \notin C
    OBVIOUS
  <1>4. c = <<>> \/ c[1] \in C
    <2>. SUFFICES ASSUME c # <<>> PROVE c[1] \in C
      OBVIOUS
    <2>1. c[1] = NUL /\ Len(c) >= 1
      OBVIOUS
    <2>2. NUL \notin Digits
      BY DigitFacts
    <2>3. Len(ds) + 1 \in DOMAIN (ds \o c) /\ (ds \o c)[Len(ds) + 1] = c[1]
      BY <1>2, <2>1
    <2>4. c[1] \in ToSet(ds \o c)
      BY <2>3 DEF ToSet
    <2>. QED
      BY <2>1, <2>2, <2>4
  <1>. HIDE DEF C
  <1>5. Until(ds \o c, C) = ds
    BY <1>2, <1>3, <1>4, UntilConcat
  <1>. QED
    BY <1>5 DEF Strtol, C

\* The path of a request of user u for the row that digits ds stand for.
PathOf(u, ds) == Prefix \o u \o <<"/">> \o ds

\* No blank, slash or NUL.
Clear(u) == \A i \in 1 .. Len(u) : u[i] \notin Blank \cup {"/", NUL}

\* From a path that is terminated handle_request takes the user and the digits in it.
LEMMA ParsePath ==
    ASSUME NEW u \in Seq(Cells), Clear(u), NEW ds \in Seq(Digits),
           NEW c \in Seq(Cells), c = <<>> \/ c[1] = NUL
    PROVE  LET text == PathOf(u, ds) \o c
               path == From(text, Len(Prefix) + 1)
               name == Until(path, {"/"})
           IN  /\ IsPrefix(Prefix, text)
               /\ Until(name, {NUL}) = u /\ Strtol(From(path, Len(name) + 2)) = Value(ds)
  <1>. DEFINE text == PathOf(u, ds) \o c
              path == From(text, Len(Prefix) + 1)
              name == Until(path, {"/"})
              slash == <<"/">>
              more == ds \o c
  <1>1. u \in Seq(Cells) /\ (\A i \in 1 .. Len(u) : u[i] # "/" /\ u[i] # NUL)
    BY DEF Clear
  <1>2. ds \in Seq(Cells)
    BY DigitsTypes
  <1>3. slash \in Seq(Cells) /\ Len(slash) = 1 /\ slash[1] = "/"
    BY SlashTypes
  <1>4. Prefix \in Seq(Cells) /\ Len(Prefix) = 3
    BY PrefixTypes
  <1>5. text = Prefix \o u \o slash \o ds \o c
    BY DEF PathOf
  <1>. HIDE DEF text, slash
  <1>6. more \in Seq(Cells)
    BY <1>2
  <1>7. text = Prefix \o (u \o (slash \o more))
    <2>. HIDE DEF more, path, name
    <2>a. Prefix \o u \in Seq(Cells) /\ slash \o more \in Seq(Cells)
      BY <1>1, <1>3, <1>4, <1>6, Joined, Zenon
    <2>b. (Prefix \o u) \o slash \in Seq(Cells)
      BY <1>3, <2>a, Joined, Zenon
    <2>c. slash \in Seq(Cells) /\ u \in Seq(Cells) /\ Prefix \in Seq(Cells)
      BY <1>1, <1>3, <1>4, Zenon
    <2>1. (((Prefix \o u) \o slash) \o ds) \o c = ((Prefix \o u) \o slash) \o (ds \o c)
      BY <1>2, <2>b, JoinedAssociative, Zenon
    <2>2. ((Prefix \o u) \o slash) \o more = (Prefix \o u) \o (slash \o more)
      <3>. DEFINE front == Prefix \o u
      <3>1. front \in Seq(Cells) /\ slash \in Seq(Cells)
        BY <2>a, <2>c, Zenon
      <3>. HIDE DEF front
      <3>2. (front \o slash) \o more = front \o (slash \o more)
        BY <1>6, <3>1, JoinedAssociative, SMTT(30)
      <3>. QED
        BY <3>2 DEF front
    <2>3. (Prefix \o u) \o (slash \o more) = Prefix \o (u \o (slash \o more))
      <3>1. slash \o more \in Seq(Cells) /\ u \in Seq(Cells) /\ Prefix \in Seq(Cells)
        BY <2>a, <2>c, Zenon
      <3>. QED
        BY <3>1, JoinedAssociative, Zenon
    <2>. QED
      BY <1>5, <2>1, <2>2, <2>3 DEF more
  <1>8. path = u \o (slash \o more)
    <2>1. u \o (slash \o more) \in Seq(Cells)
      BY <1>1, <1>3, <1>6, ConcatProperties
    <2>. QED
      BY <1>4, <1>7, <2>1, FromConcat
  <1>. HIDE DEF more
  <1>9. IsPrefix(Prefix, text)
    <2>. DEFINE t == u \o (slash \o more)
    <2>1. t \in Seq(Cells)
      BY <1>1, <1>3, <1>6, ConcatProperties
    <2>2. text = Prefix \o t
      BY <1>7
    <2>. HIDE DEF t
    <2>3. Len(Prefix) <= Len(text)
      <3>1. Len(text) = Len(Prefix) + Len(t) /\ Len(t) \in Nat
        BY <1>4, <2>1, <2>2, Joined, Zenon
      <3>. QED
        BY <1>4, <3>1
    <2>4. SubSeq(text, 1, Len(Prefix)) = Prefix
      BY <1>4, <2>1, <2>2, Joined, Zenon
    <2>5. SubSeq(Prefix, 1, Len(Prefix)) = Prefix
      BY <1>4
    <2>. QED
      BY <2>3, <2>4, <2>5 DEF IsPrefix
  <1>. HIDE DEF path
  <1>10. name = u
    <2>1. slash \o more \in Seq(Cells)
      BY <1>3, <1>6, Joined
    <2>2. (slash \o more)[1] = slash[1]
      <3>1. 1 \in 1 .. Len(slash)
        BY <1>3
      <3>. QED
        BY <1>3, <1>6, <3>1, Joined, Zenon
    <2>3. (slash \o more)[1] = "/"
      BY <1>3, <2>2
    <2>. QED
      BY <1>1, <1>8, <2>1, <2>3, UntilConcat
  <1>. HIDE DEF name
  <1>11. Until(name, {NUL}) = u
    <2>1. u = u \o <<>> /\ <<>> \in Seq(Cells)
      BY <1>1
    <2>2. Until(u \o <<>>, {NUL}) = u
      BY <1>1, <2>1, UntilConcat
    <2>. QED
      BY <1>10, <2>1, <2>2
  <1>12. From(path, Len(name) + 2) = more
    <2>1. path = (u \o slash) \o more
      <3>1. u \in Seq(Cells) /\ slash \in Seq(Cells)
        BY <1>1, <1>3, Zenon
      <3>2. (u \o slash) \o more = u \o (slash \o more)
        BY <1>6, <3>1, JoinedAssociative, Zenon
      <3>. QED
        BY <1>8, <3>2, Zenon
    <2>2. u \o slash \in Seq(Cells) /\ Len(u \o slash) + 1 = Len(name) + 2
      <3>1. u \o slash \in Seq(Cells) /\ Len(u \o slash) = Len(u) + Len(slash) /\ Len(u) \in Nat
        BY <1>1, <1>3, Joined, Zenon
      <3>. QED
        BY <1>3, <1>10, <3>1
    <2>3. From((u \o slash) \o more, Len(u \o slash) + 1) = more
      BY <1>6, <2>2, FromConcat
    <2>. QED
      BY <2>1, <2>2, <2>3
  <1>13. Strtol(more) = Value(ds)
    BY StrtolConcat DEF more
  <1>. QED
    BY <1>9, <1>11, <1>12, <1>13, Zenon DEF text, path, name

\* A path has no blank.
LEMMA PathTypes ==
    ASSUME NEW u \in Seq(Cells), Clear(u), NEW ds \in Seq(Digits)
    PROVE  /\ PathOf(u, ds) \in Seq(Cells)
           /\ \A i \in 1 .. Len(PathOf(u, ds)) : PathOf(u, ds)[i] \notin Blank
  <1>. DEFINE Dark(s) == s \in Seq(Cells) /\ \A i \in 1 .. Len(s) : s[i] \notin Blank
  <1>1. ASSUME NEW a, NEW b, Dark(a), Dark(b) PROVE Dark(a \o b)
    <2>1. a \in Seq(Cells) /\ b \in Seq(Cells)
      BY <1>1
    <2>2. a \o b \in Seq(Cells) /\ Len(a \o b) = Len(a) + Len(b)
      BY <2>1
    <2>3. \A i \in 1 .. Len(a) : (a \o b)[i] = a[i]
      BY <2>1
    <2>4. \A i \in Len(a) + 1 .. Len(a) + Len(b) : (a \o b)[i] = b[i - Len(a)] /\ i - Len(a) \in 1 .. Len(b)
      BY <2>1
    <2>5. \A i \in 1 .. Len(a) + Len(b) : i \in 1 .. Len(a) \/ i \in Len(a) + 1 .. Len(a) + Len(b)
      BY <2>1
    <2>. QED
      BY <1>1, <2>2, <2>3, <2>4, <2>5
  <1>2. Dark(Prefix)
    <2>1. \A i \in 1 .. 3 : i = 1 \/ i = 2 \/ i = 3
      OBVIOUS
    <2>2. "/" \notin Blank /\ "c" \notin Blank
      BY DEF Blank
    <2>3. \A i \in 1 .. 3 : Prefix[i] \notin Blank
      BY <2>1, <2>2, PrefixTypes, Zenon
    <2>. QED
      BY <2>3, PrefixTypes
  <1>3. Dark(u)
    BY DEF Clear
  <1>4. Dark(<<"/">>)
    <2>1. "/" \notin Blank
      BY DEF Blank
    <2>2. \A i \in 1 .. 1 : i = 1
      OBVIOUS
    <2>. QED
      BY <2>1, <2>2, SlashTypes, Zenon
  <1>5. Dark(ds)
    BY DigitsTypes
  <1>. HIDE DEF Dark
  <1>6. Dark(PathOf(u, ds))
    BY <1>1, <1>2, <1>3, <1>4, <1>5 DEF PathOf
  <1>. QED
    BY <1>6 DEF Dark

\* What the path of a request for a row is made of.
LEMMA RequestParts ==
    ASSUME NEW r \in Requests, r # Other
    PROVE  /\ r.user \in Seq(Cells) /\ Clear(r.user)
           /\ Decimal(r.id) \in Seq(Digits) /\ Value(Decimal(r.id)) = r.id
           /\ r = [user |-> r.user, id |-> r.id]
  <1>1. r \in [user : Names, id : Ids] /\ r.user \in Seq(Cells) /\ Clear(r.user)
    BY RequestTypes, Zenon DEF Clear
  <1>2. r.id \in Nat
    BY RequestTypes
  <1>3. Decimal(r.id) \in Seq(Digits) /\ Value(Decimal(r.id)) = r.id
    BY <1>2, DecimalFacts
  <1>4. r = [user |-> r.user, id |-> r.id]
    BY <1>1
  <1>. QED
    BY <1>1, <1>3, <1>4, Zenon

\* A request is the method and a path without blanks.
LEMMA EncodeTypes ==
    ASSUME NEW r \in Requests
    PROVE  /\ Encode(r) \in Seq(Cells) /\ Len(Encode(r)) >= 2
           /\ Encode(r)[1] = "P" /\ Encode(r)[2] = " "
           /\ r # Other => Encode(r) = Method \o PathOf(r.user, Decimal(r.id))
           /\ r = Other => Encode(r) = Method \o <<"/", "x">>
  <1>. DEFINE t == IF r = Other THEN <<"/", "x">> ELSE PathOf(r.user, Decimal(r.id))
  <1>1. t \in Seq(Cells)
    <2>1. r # Other => r.user \in Seq(Cells) /\ Clear(r.user) /\ Decimal(r.id) \in Seq(Digits)
      BY RequestParts, Zenon
    <2>. QED
      BY <2>1, PathTypes, OtherTypes, Zenon
  <1>2. Encode(r) = Method \o t
    BY Zenon DEF Encode, PathOf
  <1>. HIDE DEF t
  <1>3. /\ Method \o t \in Seq(Cells) /\ Len(Method \o t) = Len(Method) + Len(t)
        /\ Len(t) \in Nat
        /\ \A i \in 1 .. Len(Method) : (Method \o t)[i] = Method[i]
    BY <1>1, MethodTypes, Joined, Zenon
  <1>4. 1 \in 1 .. Len(Method) /\ 2 \in 1 .. Len(Method) /\ Len(Method) + Len(t) >= 2
    <2>1. Len(Method) = 2
      BY MethodTypes
    <2>. QED
      BY <1>3, <2>1
  <1>5. Encode(r) \in Seq(Cells) /\ Encode(r)[1] = "P" /\ Encode(r)[2] = " " /\ Len(Encode(r)) >= 2
    BY <1>2, <1>3, <1>4, MethodTypes
  <1>. QED
    BY <1>2, <1>5, Zenon DEF t

\* Parsing looks at what follows the method.
LEMMA ParseOf ==
    ASSUME NEW t \in Seq(Cells)
    PROVE  LET text == CutAtBlank(t)
               path == From(text, Len(Prefix) + 1)
               name == Until(path, {"/"})
           IN  Parse(Method \o t) =
                  IF IsPrefix(Prefix, text)
                  THEN [user |-> Until(name, {NUL}), id |-> Strtol(From(path, Len(name) + 2))]
                  ELSE Other
  <1>1. From(Method \o t, Len(Method) + 1) = t
    BY MethodTypes, FromConcat
  <1>. QED
    BY <1>1 DEF Parse, ParseAfter

\* A path with prefix begins with it in the line as well.
LEMMA PrefixOfCut ==
    ASSUME NEW t \in Seq(Cells), IsPrefix(Prefix, CutAtBlank(t))
    PROVE  Len(t) >= 3 /\ t[1] = "/" /\ t[2] = "c" /\ t[3] = "/"
  <1>. DEFINE text == CutAtBlank(t)
  <1>1. Len(text) = Len(t) /\ Len(t) \in Nat /\ \A i \in 1 .. Len(t) : text[i] \in {t[i], NUL}
    BY CutIs
  <1>. HIDE DEF text
  <1>2. Len(Prefix) <= Len(text) /\ SubSeq(Prefix, 1, Len(Prefix)) = SubSeq(text, 1, Len(Prefix))
    BY DEF IsPrefix, text
  <1>3. Len(text) >= 3
    BY <1>2, PrefixTypes
  <1>4. \A i \in 1 .. 3 : SubSeq(text, 1, 3)[i] = text[i] /\ SubSeq(Prefix, 1, 3)[i] = Prefix[i]
    OBVIOUS
  <1>5. SubSeq(Prefix, 1, 3) = SubSeq(text, 1, 3)
    BY <1>2, PrefixTypes
  <1>6. 1 \in 1 .. 3 /\ 2 \in 1 .. 3 /\ 3 \in 1 .. 3
    OBVIOUS
  <1>7. text[1] = "/" /\ text[2] = "c" /\ text[3] = "/"
    <2>1. ASSUME NEW i \in 1 .. 3 PROVE text[i] = Prefix[i]
      BY <1>4, <1>5, Zenon
    <2>2. text[1] = Prefix[1] /\ text[2] = Prefix[2] /\ text[3] = Prefix[3]
      BY <1>6, <2>1, Zenon
    <2>. QED
      BY <2>2, PrefixTypes, Zenon
  <1>8. NUL # "/" /\ NUL # "c"
    BY DEF NUL
  <1>9. 1 \in 1 .. Len(t) /\ 2 \in 1 .. Len(t) /\ 3 \in 1 .. Len(t) /\ Len(t) >= 3
    BY <1>1, <1>3
  <1>. QED
    BY <1>1, <1>7, <1>8, <1>9, Zenon

\* A line begins with its method.
LEMMA MethodJoined ==
    ASSUME NEW a \in Seq(Cells), NEW b \in Seq(Cells)
    PROVE  (Method \o a) \o b = Method \o (a \o b) /\ a \o b \in Seq(Cells)
  <1>1. (Method \o a) \o b = Method \o (a \o b)
    BY MethodTypes, JoinedAssociative, Zenon
  <1>. QED
    BY <1>1, Joined, Zenon

\* handle_request makes of a line the user and the number its path names, whatever
\* follows a blank.
LEMMA ParseNumber ==
    ASSUME NEW u \in Seq(Cells), Clear(u), NEW ds \in Seq(Digits),
           NEW b \in Seq(Cells), b = <<>> \/ b[1] \in Blank
    PROVE  Parse((Method \o PathOf(u, ds)) \o b) = [user |-> u, id |-> Value(ds)]
  <1>. DEFINE p == PathOf(u, ds)
  <1>0. \A i \in 1 .. Len(p) : p[i] \notin Blank
    BY PathTypes
  <1>1. p \in Seq(Cells)
    BY PathTypes
  <1>. HIDE DEF p
  <1>2. (Method \o p) \o b = Method \o (p \o b) /\ p \o b \in Seq(Cells)
    BY <1>1, MethodJoined
  <1>3. PICK c \in Seq(Cells) : CutAtBlank(p \o b) = p \o c /\ (c = <<>> \/ c[1] = NUL)
    BY <1>0, <1>1, CutConcat, Zenon
  <1>4. LET path == From(p \o c, Len(Prefix) + 1)
            name == Until(path, {"/"})
        IN  /\ IsPrefix(Prefix, p \o c)
            /\ Until(name, {NUL}) = u /\ Strtol(From(path, Len(name) + 2)) = Value(ds)
    BY <1>3, ParsePath, Zenon DEF p
  <1>5. Parse(Method \o (p \o b)) = [user |-> u, id |-> Value(ds)]
    BY <1>2, <1>3, <1>4, ParseOf
  <1>. QED
    BY <1>2, <1>5, Zenon DEF p

\* handle_request makes of a line the request it begins with, whatever follows a blank.
LEMMA ParseWhole ==
    ASSUME NEW r \in Requests, NEW b \in Seq(Cells), b = <<>> \/ b[1] \in Blank
    PROVE  Parse(Encode(r) \o b) = r
  <1>1. CASE r # Other
    <2>1. /\ r.user \in Seq(Cells) /\ Clear(r.user) /\ Decimal(r.id) \in Seq(Digits)
          /\ Value(Decimal(r.id)) = r.id /\ r = [user |-> r.user, id |-> r.id]
      BY <1>1, RequestParts, Zenon
    <2>2. Encode(r) = Method \o PathOf(r.user, Decimal(r.id))
      BY <1>1, EncodeTypes
    <2>3. Parse((Method \o PathOf(r.user, Decimal(r.id))) \o b) = [user |-> r.user, id |-> Value(Decimal(r.id))]
      BY <2>1, ParseNumber, Zenon
    <2>. QED
      BY <2>1, <2>2, <2>3, Zenon
  <1>2. CASE r = Other
    <2>. DEFINE o == <<"/", "x">>
    <2>1. o \in Seq(Cells) /\ Len(o) = 2 /\ o[2] = "x"
      BY OtherTypes
    <2>2. Encode(r) = Method \o o
      BY <1>2, EncodeTypes
    <2>. HIDE DEF o
    <2>3. (Method \o o) \o b = Method \o (o \o b) /\ o \o b \in Seq(Cells)
      <3>1. o \in Seq(Cells)
        BY <2>1
      <3>. QED
        BY <3>1, MethodJoined, Zenon
    <2>4. (o \o b)[2] = "x"
      <3>1. \A i \in 1 .. Len(o) : (o \o b)[i] = o[i]
        BY <2>1, Joined, Zenon
      <3>2. 2 \in 1 .. Len(o)
        BY <2>1
      <3>. QED
        BY <2>1, <3>1, <3>2, Zenon
    <2>5. ~IsPrefix(Prefix, CutAtBlank(o \o b))
      <3>1. "x" # "c"
        OBVIOUS
      <3>. QED
        BY <2>3, <2>4, <3>1, PrefixOfCut, Zenon
    <2>. QED
      BY <1>2, <2>2, <2>3, <2>5, ParseOf, Zenon
  <1>. QED
    BY <1>1, <1>2

-----------------------------------------------------------------------------
(***************************************************************************)
(* Lines that begin with a request, with its remainder.                    *)
(***************************************************************************)

\* Nothing, or what a request may begin with.
StartsRequest(b) == b = <<>> \/ (b[1] = "P" /\ (Len(b) >= 2 => b[2] = " "))

\* A tail begins with a blank.
LEMMA TailTypes ==
    ASSUME NEW x \in Tails
    PROVE  x \in Seq(Cells) /\ Len(x) \in Nat \ {0} /\ x[1] \in Blank
  <1>1. x \in Seq(Chars) /\ x # <<>> /\ x[1] \in Blank
    BY StreamAssumption, Zenon
  <1>2. x \in Seq(Cells)
    <2>1. Chars \subseteq Cells
      BY DEF Cells
    <2>. QED
      BY <1>1, <2>1, SeqMonotonic
  <1>3. Len(x) \in Nat \ {0}
    BY <1>1, <1>2, EmptySeq, Zenon
  <1>. QED
    BY <1>1, <1>2, <1>3, Zenon

\* The prefix is in a request after the method only.
LEMMA SentTypes ==
    ASSUME NEW r \in Requests, NEW x \in Tails
    PROVE  LET s == Encode(r) \o x
           IN  /\ s \in Seq(Cells) /\ Len(s) = Len(Encode(r)) + Len(x)
               /\ \A i \in 0 .. Len(s) - 3 : SubSeq(s, i + 1, i + 3) = Prefix => i = 2
  <1>. DEFINE s == Encode(r) \o x
  <1>1. s \in Seq(Cells) /\ Len(s) = Len(Encode(r)) + Len(x)
    BY EncodeTypes, TailTypes, Joined, Zenon
  <1>2. \A i \in 0 .. Len(s) - Len(Prefix) :
           SubSeq(s, i + 1, i + Len(Prefix)) = Prefix => i = Len(Method)
    BY StreamAssumption, Zenon
  <1>3. Len(Prefix) = 3 /\ Len(Method) = 2
    BY PrefixTypes, MethodTypes, Zenon
  <1>. HIDE DEF s
  <1>4. \A i \in 0 .. Len(s) - 3 : SubSeq(s, i + 1, i + 3) = Prefix => i = 2
    BY <1>2, <1>3, Zenon
  <1>. QED
    BY <1>1, <1>4, Zenon DEF s

\* A line with a prefix has it after the method.
LEMMA PrefixOfLine ==
    ASSUME NEW s \in Seq(Cells), Parse(s) # Other
    PROVE  Len(s) >= 5 /\ s[3] = "/" /\ s[4] = "c" /\ s[5] = "/"
  <1>. DEFINE t == From(s, Len(Method) + 1)
  <1>1. IsPrefix(Prefix, CutAtBlank(t))
    BY Zenon DEF Parse, ParseAfter
  <1>2. Len(Method) + 1 = 3
    <2>1. Len(Method) = 2
      BY MethodTypes
    <2>. QED
      BY <2>1
  <1>3. t = SubSeq(s, 3, Len(s))
    BY <1>2 DEF From
  <1>4. SubSeq(s, 3, Len(s)) \in Seq(Cells)
    OBVIOUS
  <1>. HIDE DEF t
  <1>5. Len(t) >= 3 /\ t[1] = "/" /\ t[2] = "c" /\ t[3] = "/"
    BY <1>1, <1>3, <1>4, PrefixOfCut
  <1>6. Len(t) >= 3 => /\ Len(s) >= 5
                       /\ t[1] = s[3] /\ t[2] = s[4] /\ t[3] = s[5]
    BY <1>3
  <1>. QED
    BY <1>5, <1>6, Zenon

\* A piece of a request that is not its beginning, and requests behind it, are parsed as
\* no collect request.
LEMMA ParseRest ==
    ASSUME NEW r \in Requests, NEW y \in Tails,
           NEW i \in 2 .. Len(Encode(r) \o y), NEW j \in i .. Len(Encode(r) \o y),
           NEW b \in Seq(Cells), StartsRequest(b)
    PROVE  Parse(SubSeq(Encode(r) \o y, i, j) \o b) = Other
  <1>. DEFINE x == Encode(r) \o y
              w == SubSeq(x, i, j)
              s == w \o b
  <1>. SUFFICES ASSUME Parse(s) # Other PROVE FALSE
    OBVIOUS
  <1>1. x \in Seq(Cells) /\ Len(x) \in Nat
    BY SentTypes, LenProperties, Zenon
  <1>q. \A k \in 0 .. Len(x) - 3 : SubSeq(x, k + 1, k + 3) = Prefix => k = 2
    BY SentTypes, Zenon
  <1>i. i \in 2 .. Len(x) /\ j \in i .. Len(x)
    OBVIOUS
  <1>. HIDE DEF x
  <1>2. w \in Seq(Cells) /\ Len(w) = j - i + 1 /\ \A k \in 1 .. Len(w) : w[k] = x[i + k - 1]
    BY <1>1, <1>i
  <1>. HIDE DEF w
  <1>0. i \in Nat /\ j \in Nat /\ i >= 2 /\ i <= j /\ j <= Len(x)
    BY <1>1, <1>i
  <1>3. s \in Seq(Cells) /\ Len(s) = Len(w) + Len(b) /\ Len(w) \in Nat \ {0} /\ Len(b) \in Nat
    <2>1. s \in Seq(Cells) /\ Len(s) = Len(w) + Len(b) /\ Len(b) \in Nat
      BY <1>2, Joined, Zenon
    <2>. QED
      BY <1>0, <1>2, <2>1
  <1>4. \A k \in 1 .. Len(w) : s[k] = w[k]
    BY <1>2
  <1>5. \A k \in 1 .. Len(b) : s[Len(w) + k] = b[k]
    BY <1>2
  <1>. HIDE DEF s
  <1>6. Len(s) >= 5 /\ s[3] = "/" /\ s[4] = "c" /\ s[5] = "/"
    BY <1>3, PrefixOfLine
  <1>7. CASE Len(w) >= 5
    <2>. DEFINE q == SubSeq(x, (i + 1) + 1, (i + 1) + 3)
    <2>1. i + 1 \in 0 .. Len(x) - 3 /\ i + 1 # 2
      BY <1>0, <1>2, <1>7
    <2>2. q \in Seq(Cells) /\ Len(q) = 3 /\ \A k \in 1 .. 3 : q[k] = x[i + 1 + k]
      BY <1>0, <1>1, <2>1
    <2>3. 3 \in 1 .. Len(w) /\ 4 \in 1 .. Len(w) /\ 5 \in 1 .. Len(w)
      BY <1>3, <1>7
    <2>4. w[3] = "/" /\ w[4] = "c" /\ w[5] = "/"
      BY <1>4, <1>6, <2>3, Zenon
    <2>. HIDE DEF q
    <2>5. q[1] = w[3] /\ q[2] = w[4] /\ q[3] = w[5]
      <3>1. 1 \in 1 .. 3 /\ 2 \in 1 .. 3 /\ 3 \in 1 .. 3
        OBVIOUS
      <3>2. q[1] = x[i + 1 + 1] /\ q[2] = x[i + 1 + 2] /\ q[3] = x[i + 1 + 3]
        BY <2>2, <3>1, Zenon
      <3>3. w[3] = x[i + 3 - 1] /\ w[4] = x[i + 4 - 1] /\ w[5] = x[i + 5 - 1]
        BY <1>2, <2>3, Zenon
      <3>4. i + 1 + 1 = i + 3 - 1 /\ i + 1 + 2 = i + 4 - 1 /\ i + 1 + 3 = i + 5 - 1
        BY <1>0
      <3>. QED
        BY <3>2, <3>3, <3>4, Zenon
    <2>6. q = Prefix
      <3>1. q[1] = Prefix[1] /\ q[2] = Prefix[2] /\ q[3] = Prefix[3]
        BY <2>4, <2>5, PrefixTypes, Zenon
      <3>2. \A k \in 1 .. 3 : k = 1 \/ k = 2 \/ k = 3
        OBVIOUS
      <3>3. \A k \in 1 .. 3 : q[k] = Prefix[k]
        BY <3>1, <3>2, Zenon
      <3>4. Prefix \in Seq(Cells) /\ Len(Prefix) = 3
        BY PrefixTypes
      <3>. QED
        BY <2>2, <3>3, <3>4, SeqEqual
    <2>. QED
      BY <1>q, <2>1, <2>6, Zenon DEF q
  <1>8. CASE Len(w) < 5
    <2>0. b # <<>>
      BY <1>3, <1>6, <1>8
    <2>1. b[1] = "P" /\ (Len(b) >= 2 => b[2] = " ")
      BY <2>0, Zenon DEF StartsRequest
    <2>2. 1 \in 1 .. Len(b) /\ (Len(w) = 1 => Len(b) >= 2 /\ 2 \in 1 .. Len(b))
      <3>1. \A n \in Nat \ {0}, q \in Nat :
               n < 5 /\ n + q >= 5 => 1 \in 1 .. q /\ (n = 1 => q >= 2 /\ 2 \in 1 .. q)
        OBVIOUS
      <3>2. Len(w) + Len(b) >= 5
        BY <1>3, <1>6, Zenon
      <3>. QED
        BY <1>3, <1>8, <3>1, <3>2, Zenon
    <2>3. s[Len(w) + 1] = "P" /\ (Len(w) = 1 => s[Len(w) + 2] = " ")
      BY <1>5, <2>1, <2>2, Zenon
    <2>4. (Len(w) = 1 /\ Len(w) + 2 = 3) \/ Len(w) + 1 = 3 \/ Len(w) + 1 = 4 \/ Len(w) + 1 = 5
      <3>1. \A n \in Nat \ {0} : n < 5 => (n = 1 /\ n + 2 = 3) \/ n + 1 = 3 \/ n + 1 = 4 \/ n + 1 = 5
        OBVIOUS
      <3>. QED
        BY <1>3, <1>8, <3>1, Zenon
    <2>5. s[3] = " " \/ s[3] = "P" \/ s[4] = "P" \/ s[5] = "P"
      BY <2>3, <2>4, Zenon
    <2>6. "P" # "/" /\ "P" # "c" /\ " " # "/"
      OBVIOUS
    <2>. QED
      BY <1>6, <2>5, <2>6, Zenon
  <1>. QED
    BY <1>3, <1>7, <1>8

\* An item of the wire: a request of which nothing is received ...
Whole(e, r) == \E x \in Tails : e = [cells |-> Encode(r) \o x, line |-> Len(Encode(r))]
\* ... or what is left of one after recv ended inside it.
Rest(e) ==
    \E r \in Requests, x \in Tails : \E i \in 2 .. Len(Encode(r) \o x) :
        e = [cells |-> From(Encode(r) \o x, i), line |-> 0]

\* A remainder is a piece of a request.
LEMMA RestIs ==
    ASSUME NEW e, Rest(e)
    PROVE  \E r \in Requests, x \in Tails : \E i \in 2 .. Len(Encode(r) \o x) :
              LET s == Encode(r) \o x
              IN  /\ s \in Seq(Cells) /\ Len(s) \in i .. Len(s)
                  /\ e = [cells |-> SubSeq(s, i, Len(s)), line |-> 0]
                  /\ e.cells = SubSeq(s, i, Len(s)) /\ e.cells \in Seq(Cells)
                  /\ Len(e.cells) = Len(s) - i + 1
  <1>1. PICK r \in Requests, x \in Tails : \E i \in 2 .. Len(Encode(r) \o x) :
                e = [cells |-> From(Encode(r) \o x, i), line |-> 0]
    BY DEF Rest
  <1>. DEFINE s == Encode(r) \o x
  <1>2. PICK i \in 2 .. Len(s) : e = [cells |-> From(s, i), line |-> 0]
    BY <1>1, Zenon
  <1>3. s \in Seq(Cells)
    BY SentTypes, Zenon
  <1>. HIDE DEF s
  <1>4. /\ Len(s) \in i .. Len(s) /\ SubSeq(s, i, Len(s)) \in Seq(Cells)
        /\ Len(SubSeq(s, i, Len(s))) = Len(s) - i + 1
    BY <1>3
  <1>5. e.cells = SubSeq(s, i, Len(s)) /\ e = [cells |-> SubSeq(s, i, Len(s)), line |-> 0]
    BY <1>2 DEF From
  <1>. QED
    BY <1>3, <1>4, <1>5, Zenon DEF s

\* A line that begins with a whole request is parsed as that request.
LEMMA LineOfWhole ==
    ASSUME NEW r \in Requests, NEW e, Whole(e, r), NEW b \in Seq(Cells)
    PROVE  Parse(e.cells \o b) = r
  <1>1. PICK x \in Tails : e = [cells |-> Encode(r) \o x, line |-> Len(Encode(r))]
    BY DEF Whole
  <1>2. e.cells = Encode(r) \o x
    BY <1>1
  <1>3. x \in Seq(Cells) /\ Len(x) \in Nat \ {0} /\ x[1] \in Blank
    BY TailTypes
  <1>4. x \o b \in Seq(Cells) /\ (x \o b)[1] = x[1]
    BY <1>3
  <1>5. (Encode(r) \o x) \o b = Encode(r) \o (x \o b)
    BY <1>3, EncodeTypes, JoinedAssociative
  <1>6. Parse(Encode(r) \o (x \o b)) = r
    BY <1>3, <1>4, ParseWhole
  <1>. QED
    BY <1>2, <1>5, <1>6

\* A line that begins with a remainder is parsed as no collect request.
LEMMA LineOfRest ==
    ASSUME NEW e, Rest(e), NEW b \in Seq(Cells), StartsRequest(b)
    PROVE  Parse(e.cells \o b) = Other
  <1>1. PICK r \in Requests, x \in Tails : \E i \in 2 .. Len(Encode(r) \o x) :
              /\ Len(Encode(r) \o x) \in i .. Len(Encode(r) \o x)
              /\ e.cells = SubSeq(Encode(r) \o x, i, Len(Encode(r) \o x))
    BY RestIs, Zenon
  <1>2. PICK i \in 2 .. Len(Encode(r) \o x) :
              /\ Len(Encode(r) \o x) \in i .. Len(Encode(r) \o x)
              /\ e.cells = SubSeq(Encode(r) \o x, i, Len(Encode(r) \o x))
    BY <1>1, Zenon
  <1>. QED
    BY <1>2, ParseRest, Zenon

\* The beginning of joined sequences that is no longer than the first, or longer.
LEMMA JoinedPart ==
    \A a, b \in Seq(Cells) :
        /\ \A n \in 0 .. Len(a) : SubSeq(a \o b, 1, n) = SubSeq(a, 1, n)
        /\ \A n \in 0 .. Len(b) : SubSeq(a \o b, 1, Len(a) + n) = a \o SubSeq(b, 1, n)
  <1>. SUFFICES ASSUME NEW a \in Seq(Cells), NEW b \in Seq(Cells)
                PROVE  /\ \A n \in 0 .. Len(a) : SubSeq(a \o b, 1, n) = SubSeq(a, 1, n)
                       /\ \A n \in 0 .. Len(b) : SubSeq(a \o b, 1, Len(a) + n) = a \o SubSeq(b, 1, n)
    BY Zenon
  <1>1. ASSUME NEW n \in 0 .. Len(a) PROVE SubSeq(a \o b, 1, n) = SubSeq(a, 1, n)
    OBVIOUS
  <1>2. ASSUME NEW n \in 0 .. Len(b) PROVE SubSeq(a \o b, 1, Len(a) + n) = a \o SubSeq(b, 1, n)
    OBVIOUS
  <1>. QED
    BY <1>1, <1>2

\* A line without a blank is left as it is.
LEMMA CutClear ==
    ASSUME NEW t \in Seq(Cells), \A i \in 1 .. Len(t) : t[i] \notin Blank
    PROVE  CutAtBlank(t) = t
  <1>1. t \o <<>> = t /\ <<>> \in Seq(Cells)
    OBVIOUS
  <1>2. Until(t \o <<>>, Blank) = t
    BY <1>1, UntilConcat
  <1>. QED
    BY <1>1, <1>2 DEF CutAtBlank

\* What the prefix is joined to begins with it.
LEMMA PrefixJoined ==
    ASSUME NEW t \in Seq(Cells)
    PROVE  IsPrefix(Prefix, Prefix \o t)
  <1>1. Len(Prefix) <= Len(Prefix \o t)
    <2>1. Len(Prefix \o t) = Len(Prefix) + Len(t) /\ Len(t) \in Nat
      BY PrefixTypes, Joined, Zenon
    <2>. QED
      BY <2>1, PrefixTypes
  <1>2. SubSeq(Prefix \o t, 1, Len(Prefix)) = Prefix
    BY PrefixTypes, Joined, Zenon
  <1>3. SubSeq(Prefix, 1, Len(Prefix)) = Prefix
    BY PrefixTypes
  <1>. QED
    BY <1>1, <1>2, <1>3 DEF IsPrefix

\* The cells of joined sequences.
LEMMA JoinedCells ==
    ASSUME NEW a \in Seq(Cells), NEW b \in Seq(Cells)
    PROVE  \A i \in 1 .. Len(a \o b) : (a \o b)[i] = IF i <= Len(a) THEN a[i] ELSE b[i - Len(a)]
  OBVIOUS

\* A path that ends in the user id is for row 0.
LEMMA ParseName ==
    ASSUME NEW v \in Seq(Cells), Clear(v)
    PROVE  Parse(Method \o (Prefix \o v)) = [user |-> v, id |-> 0]
  <1>. DEFINE t == Prefix \o v
  <1>1. t \in Seq(Cells)
    BY PrefixTypes, Joined, Zenon
  <1>2. \A i \in 1 .. Len(t) : t[i] \notin Blank
    <2>1. Prefix \in Seq(Cells) /\ Len(Prefix) = 3
      BY PrefixTypes
    <2>2. \A i \in 1 .. 3 : Prefix[i] \notin Blank
      <3>1. \A i \in 1 .. 3 : i = 1 \/ i = 2 \/ i = 3
        OBVIOUS
      <3>2. "/" \notin Blank /\ "c" \notin Blank
        BY DEF Blank
      <3>. QED
        BY <3>1, <3>2, PrefixTypes, Zenon
    <2>3. \A i \in 1 .. Len(v) : v[i] \notin Blank
      BY DEF Clear
    <2>4. Len(t) = 3 + Len(v) /\ Len(v) \in Nat
      <3>1. Len(t) = Len(Prefix) + Len(v) /\ Len(v) \in Nat
        BY <2>1, Joined, Zenon
      <3>. QED
        BY <2>1, <3>1
    <2>5. \A i \in 1 .. Len(t) : t[i] = IF i <= 3 THEN Prefix[i] ELSE v[i - 3]
      <3>1. \A i \in 1 .. Len(t) : t[i] = IF i <= Len(Prefix) THEN Prefix[i] ELSE v[i - Len(Prefix)]
        BY <2>1, JoinedCells, Zenon
      <3>. QED
        BY <2>1, <3>1, Zenon
    <2>. HIDE DEF t
    <2>6. \A i \in 1 .. Len(t) : i \in 1 .. 3 \/ (~(i <= 3) /\ i - 3 \in 1 .. Len(v))
      BY <2>4
    <2>7. \A i \in 1 .. 3 : i <= 3
      OBVIOUS
    <2>. QED
      BY <2>2, <2>3, <2>5, <2>6, <2>7, Zenon
  <1>3. CutAtBlank(t) = t
    BY <1>1, <1>2, CutClear
  <1>4. IsPrefix(Prefix, t)
    BY PrefixJoined
  <1>5. From(t, Len(Prefix) + 1) = v
    BY PrefixTypes, FromConcat
  <1>6. v \o <<>> = v /\ <<>> \in Seq(Cells)
    OBVIOUS
  <1>7. Until(v, {"/"}) = v /\ Until(v, {NUL}) = v
    <2>1. \A i \in 1 .. Len(v) : v[i] \notin {"/"} /\ v[i] \notin {NUL}
      BY DEF Clear
    <2>2. Until(v \o <<>>, {"/"}) = v
      BY <1>6, <2>1, UntilConcat
    <2>3. Until(v \o <<>>, {NUL}) = v
      BY <1>6, <2>1, UntilConcat
    <2>. QED
      BY <1>6, <2>2, <2>3
  <1>8. From(v, Len(v) + 2) = <<>>
    BY DEF From
  <1>9. Strtol(<<>>) = 0
    <2>1. <<>> \in Seq(Digits) /\ <<>> \o <<>> = <<>> /\ Len(<<>>) = 0
      OBVIOUS
    <2>2. Value(<<>>) = 0
      BY <2>1, ValueRec
    <2>3. Strtol(<<>> \o <<>>) = Value(<<>>)
      BY <1>6, <2>1, StrtolConcat
    <2>. QED
      BY <2>1, <2>2, <2>3
  <1>. HIDE DEF t
  <1>10. Parse(Method \o t) = [user |-> v, id |-> 0]
    BY <1>1, <1>3, <1>4, <1>5, <1>7, <1>8, <1>9, ParseOf
  <1>. QED
    BY <1>10 DEF t

\* The parts of a path.
LEMMA PathJoined ==
    ASSUME NEW u \in Seq(Cells), NEW ds \in Seq(Cells)
    PROVE  /\ PathOf(u, ds) = Prefix \o (u \o (<<"/">> \o ds))
           /\ <<"/">> \o ds \in Seq(Cells) /\ u \o (<<"/">> \o ds) \in Seq(Cells)
  <1>. DEFINE slash == <<"/">>
              pre == Prefix
  <1>1. slash \in Seq(Cells) /\ pre \in Seq(Cells)
    BY SlashTypes, PrefixTypes
  <1>2. PathOf(u, ds) = ((pre \o u) \o slash) \o ds
    BY DEF PathOf
  <1>. HIDE DEF slash, pre
  <1>3. pre \o u \in Seq(Cells) /\ slash \o ds \in Seq(Cells) /\ u \o (slash \o ds) \in Seq(Cells)
    BY <1>1, Joined, Zenon
  <1>. DEFINE front == pre \o u
              back == slash \o ds
  <1>4. front \in Seq(Cells) /\ back \in Seq(Cells)
    BY <1>3
  <1>5. pre \o (u \o back) = front \o back
    <2>. HIDE DEF back
    <2>1. pre \in Seq(Cells) /\ u \in Seq(Cells) /\ back \in Seq(Cells)
      BY <1>1, <1>4, Zenon
    <2>2. (pre \o u) \o back = pre \o (u \o back)
      BY <2>1, JoinedAssociative, ZenonT(40)
    <2>. QED
      BY <2>2
  <1>6. (front \o slash) \o ds = front \o back
    <2>. HIDE DEF front
    <2>1. front \in Seq(Cells) /\ slash \in Seq(Cells)
      BY <1>1, <1>4, Zenon
    <2>. QED
      BY <2>1, JoinedAssociative, ZenonT(40)
  <1>. QED
    BY <1>2, <1>3, <1>5, <1>6 DEF slash, pre

\* The id of a request.
LEMMA IdOf == \A u, i : [user |-> u, id |-> i].id = i
  OBVIOUS

\* What handle_request makes of a line that recv ended: nothing, a request for row 0, or
\* one for the user of the request and the first digits of its row.
LEMMA ParseCut ==
    ASSUME NEW r \in Requests, NEW m \in 1 .. Len(Encode(r)) - 1,
           NEW p, p = Parse(SubSeq(Encode(r), 1, m))
    PROVE  \/ p = Other
           \/ p.id = 0
           \/ /\ r # Other
              /\ \E q \in 1 .. Len(Decimal(r.id)) :
                    p = [user |-> r.user, id |-> Value(SubSeq(Decimal(r.id), 1, q))]
  <1>. DEFINE c == Encode(r)
              s == SubSeq(c, 1, m)
  <1>. SUFFICES ASSUME p # Other
                PROVE  \/ p.id = 0
                       \/ /\ r # Other
                          /\ \E q \in 1 .. Len(Decimal(r.id)) :
                                p = [user |-> r.user, id |-> Value(SubSeq(Decimal(r.id), 1, q))]
    OBVIOUS
  <1>1. c \in Seq(Cells) /\ m \in 1 .. Len(c) - 1
    BY EncodeTypes, Zenon
  <1>. HIDE DEF c
  <1>2. s \in Seq(Cells) /\ Len(s) = m
    BY <1>1
  <1>3. p = Parse(s)
    BY DEF c
  <1>. HIDE DEF s
  <1>4. m >= 5
    BY <1>2, <1>3, PrefixOfLine
  <1>5. CASE r = Other
    <2>1. c = Method \o <<"/", "x">>
      BY <1>5, EncodeTypes, Zenon DEF c
    <2>2. Len(c) = Len(Method) + Len(<<"/", "x">>)
      BY <2>1, MethodTypes, OtherTypes, Joined, Zenon
    <2>3. Len(c) = 2 + 2
      BY <2>2, MethodTypes, OtherTypes, Zenon
    <2>. QED
      BY <1>1, <1>4, <2>3
  <1>6. CASE r # Other
    <2>. DEFINE u == r.user
                ds == Decimal(r.id)
                slash == <<"/">>
                back == slash \o ds
                n == m - 5
    <2>1. u \in Seq(Cells) /\ Clear(u) /\ ds \in Seq(Digits)
      BY <1>6, RequestParts, Zenon
    <2>2. c = Method \o PathOf(u, ds)
      BY <1>6, EncodeTypes, Zenon DEF c
    <2>. HIDE DEF u, ds
    <2>3. ds \in Seq(Cells)
      BY <2>1, DigitsTypes
    <2>4. PathOf(u, ds) = Prefix \o (u \o back) /\ back \in Seq(Cells) /\ u \o back \in Seq(Cells)
      BY <2>1, <2>3, PathJoined, Zenon
    <2>5. slash \in Seq(Cells) /\ Len(slash) = 1
      BY SlashTypes
    <2>. HIDE DEF slash
    <2>6. Len(back) = Len(slash) + Len(ds) /\ Len(slash) \in Nat /\ Len(ds) \in Nat
      BY <2>3, <2>5, Joined, Zenon
    <2>. HIDE DEF back
    <2>. DEFINE w == u \o back
                t == Prefix \o w
    <2>7. Len(w) = Len(u) + Len(back) /\ Len(u) \in Nat /\ Len(back) \in Nat /\ w \in Seq(Cells)
      BY <2>1, <2>4, Joined, Zenon
    <2>. HIDE DEF w
    <2>8. Len(t) = Len(Prefix) + Len(w) /\ t \in Seq(Cells) /\ Len(w) \in Nat
      BY <2>7, PrefixTypes, Joined, Zenon
    <2>9. c = Method \o t
      BY <2>2, <2>4, Zenon DEF w
    <2>. HIDE DEF t
    <2>10. Len(c) = Len(Method) + Len(t)
      BY <2>8, <2>9, MethodTypes, Joined, Zenon
    <2>11. Len(Method) = 2 /\ Len(Prefix) = 3
      BY MethodTypes, PrefixTypes, Zenon
    <2>12. /\ n \in 0 .. Len(w) /\ m - 2 \in 0 .. Len(t)
           /\ m = 2 + (m - 2) /\ m - 2 = 3 + n
      BY <1>1, <1>4, <2>8, <2>10, <2>11
    <2>13. s = Method \o SubSeq(t, 1, m - 2)
      <3>1. SubSeq(Method \o t, 1, Len(Method) + (m - 2)) = Method \o SubSeq(t, 1, m - 2)
        BY <2>8, <2>12, MethodTypes, JoinedPart, Zenon
      <3>. QED
        BY <2>9, <2>11, <2>12, <3>1, Zenon DEF s
    <2>14. SubSeq(t, 1, m - 2) = Prefix \o SubSeq(w, 1, n)
      <3>1. SubSeq(Prefix \o w, 1, Len(Prefix) + n) = Prefix \o SubSeq(w, 1, n)
        BY <2>7, <2>12, PrefixTypes, JoinedPart, Zenon
      <3>. HIDE DEF n
      <3>. QED
        BY <2>11, <2>12, <3>1, Zenon DEF t
    <2>. HIDE DEF n
    <2>15. CASE n <= Len(u)
      <3>. DEFINE v == SubSeq(u, 1, n)
      <3>1. n \in 0 .. Len(u)
        BY <2>7, <2>12, <2>15
      <3>2. SubSeq(w, 1, n) = v
        BY <2>1, <2>4, <3>1, JoinedPart, Zenon DEF w
      <3>3. v \in Seq(Cells) /\ Clear(v)
        BY <2>1, <3>1 DEF Clear
      <3>. HIDE DEF v
      <3>4. Parse(Method \o (Prefix \o v)) = [user |-> v, id |-> 0]
        BY <3>3, ParseName
      <3>5. p = [user |-> v, id |-> 0]
        BY <1>3, <2>13, <2>14, <3>2, <3>4, Zenon
      <3>6. p.id = 0
        BY <3>5, IdOf, Zenon
      <3>. QED
        BY <3>6, Zenon
    <2>16. CASE n > Len(u)
      <3>. DEFINE q == n - Len(u) - 1
                  v == SubSeq(ds, 1, q)
      <3>1. q \in 0 .. Len(ds) /\ 1 + q \in 0 .. Len(back) /\ n = Len(u) + (1 + q)
        BY <2>5, <2>6, <2>7, <2>12, <2>16
      <3>. HIDE DEF q
      <3>2. SubSeq(w, 1, n) = u \o SubSeq(back, 1, 1 + q)
        BY <2>1, <2>4, <3>1, JoinedPart, Zenon DEF w
      <3>3. SubSeq(back, 1, 1 + q) = slash \o v
        BY <2>3, <2>5, <3>1, JoinedPart, ZenonT(40) DEF back
      <3>4. v \in Seq(Digits)
        BY <2>1, <3>1
      <3>. HIDE DEF v
      <3>5. v \in Seq(Cells)
        BY <3>4, DigitsTypes
      <3>6. PathOf(u, v) = Prefix \o (u \o (slash \o v)) /\ u \o (slash \o v) \in Seq(Cells)
        BY <2>1, <3>5, PathJoined, Zenon DEF slash
      <3>7. s = Method \o PathOf(u, v)
        BY <2>13, <2>14, <3>2, <3>3, <3>6, Zenon
      <3>8. Parse(s) = [user |-> u, id |-> Value(v)]
        <4>1. s = s \o <<>> /\ <<>> \in Seq(Cells)
          BY <1>2
        <4>2. Parse((Method \o PathOf(u, v)) \o <<>>) = [user |-> u, id |-> Value(v)]
          BY <2>1, <3>4, <4>1, ParseNumber
        <4>. QED
          BY <3>7, <4>1, <4>2, Zenon
      <3>9. CASE q = 0
        <4>1. v = <<>> /\ Len(<<>>) = 0 /\ <<>> \in Seq(Digits)
          BY <2>1, <3>9 DEF v
        <4>2. Value(v) = 0
          BY <4>1, ValueRec
        <4>3. p = [user |-> u, id |-> 0]
          BY <1>3, <3>8, <4>2, Zenon
        <4>4. p.id = 0
          BY <4>3, IdOf, Zenon
        <4>. QED
          BY <4>4, Zenon
      <3>10. CASE q # 0
        <4>1. q \in 1 .. Len(ds)
          BY <2>6, <3>1, <3>10
        <4>2. p = [user |-> u, id |-> Value(SubSeq(ds, 1, q))]
          BY <1>3, <3>8, Zenon DEF v
        <4>. QED
          BY <1>6, <4>1, <4>2, Zenon DEF u, ds
      <3>. QED
        BY <3>9, <3>10
    <2>17. n <= Len(u) \/ n > Len(u)
      BY <2>7, <2>12
    <2>. QED
      BY <2>15, <2>16, <2>17, Zenon
  <1>. QED
    BY <1>5, <1>6

\* The function that FlattenSeq is defined by exists and satisfies its recursion.
LEMMA FlattenRec ==
    ASSUME NEW s, Len(s) \in Nat \ {0}
    PROVE  \E f : /\ FlattenSeq(s) = f[Len(s)]
                /\ \A i \in 1 .. Len(s) : f[i] = IF i = 1 THEN s[i] ELSE f[i - 1] \o s[i]
  <1>. DEFINE n == Len(s)
              Body(f, k) == IF k = 1 THEN s[k] ELSE f[k - 1] \o s[k]
              Eq(f, m) == f = [k \in 1 .. m |-> Body(f, k)]
              T == {m \in Nat : ~ \E f : Eq(f, m)}
  <1>1. T = {}
    <2>1. SUFFICES ASSUME NEW m \in T, \A y \in T : m <= y PROVE FALSE
      <3>. HIDE DEF T
      <3>1. T \subseteq Nat
        BY DEF T
      <3>. QED
        BY <3>1, Least
    <2>2. m \in Nat
      OBVIOUS
    <2>3. \E f : \A k \in 1 .. m - 1 : f[k] = Body(f, k)
      <3>1. CASE m = 0
        BY <3>1
      <3>2. CASE m > 0
        <4>1. m - 1 \in Nat /\ m - 1 \notin T
          <5>. HIDE DEF T
          <5>. QED
            BY <2>1, <2>2, <3>2
        <4>2. PICK f : Eq(f, m - 1)
          BY <4>1
        <4>3. \A k \in 1 .. m - 1 : f[k] = Body(f, k)
          <5>. HIDE DEF Body
          <5>. QED
            BY <4>2
        <4>. QED
          BY <4>3
      <3>. QED
        BY <3>1, <3>2, <2>2
    <2>4. PICK f : \A k \in 1 .. m - 1 : f[k] = Body(f, k)
      BY <2>3
    <2>. DEFINE g == [k \in 1 .. m |-> IF k < m THEN f[k] ELSE Body(f, m)]
    <2>5. g = [k \in 1 .. m |-> Body(g, k)]
      <3>. SUFFICES ASSUME NEW k \in 1 .. m PROVE g[k] = Body(g, k)
        BY Zenon
      <3>1. k # 1 => g[k - 1] = f[k - 1]
        BY <2>2
      <3>2. Body(g, k) = Body(f, k)
        <4>. HIDE DEF g
        <4>. QED
          BY <3>1
      <3>3. CASE k < m
        <4>1. k \in 1 .. m - 1
          BY <3>3, <2>2
        <4>2. g[k] = f[k]
          BY <3>3
        <4>. HIDE DEF g, Body
        <4>. QED
          BY <4>1, <4>2, <3>2, <2>4
      <3>4. CASE k = m
        <4>1. g[k] = Body(f, m)
          BY <3>4
        <4>. QED
          BY <4>1, <3>2, <3>4
      <3>. QED
        BY <3>3, <3>4, <2>2
    <2>6. \E h : Eq(h, m)
      <3>. HIDE DEF g, Body
      <3>. QED
        BY <2>5
    <2>. QED
      BY <2>6
  <1>2. \E f : Eq(f, n)
    BY <1>1
  <1>. DEFINE f == CHOOSE f : Eq(f, n)
  <1>3. Eq(f, n)
    <2>. HIDE DEF Eq
    <2>. QED
      BY <1>2
  <1>4. FlattenSeq(s) = f[n]
    BY DEF FlattenSeq
  <1>. HIDE DEF f
  <1>5. \A k \in 1 .. n : f[k] = Body(f, k)
    <2>. HIDE DEF Body
    <2>. QED
      BY <1>3
  <1>. QED
    BY <1>4, <1>5

-----------------------------------------------------------------------------
(***************************************************************************)
(* The inductive invariant.                                                *)
(***************************************************************************)

\* What the wire holds for a request.
Item == [cells : Seq(Cells), line : Nat]

\* The requests that are received to the end ...
Done == Len(sent) - Len(wire)

\* ... whether the next one is received in part ...
Cut == IF wire # <<>> /\ wire[1].line = 0 THEN 1 ELSE 0

\* ... and those received at least in part.
Begun == Done + Cut

\* What func_http may handle.
Hits == [user : Names, id : Nat \ {0}]

\* Types; no request is on the wire that was not sent.
StreamTypes ==
    /\ wire \in Seq(Item) /\ sent \in Seq(Requests) /\ handled \in Seq(Hits)
    /\ req_cnt \in Nat /\ splits \in Nat /\ broken \in Nat
    /\ broken <= splits /\ splits <= req_cnt
    /\ Len(wire) <= Len(sent)

\* The wire holds the requests sent last, in order, and only the first may be a remainder.
WireHolds == \A j \in 1 .. Len(wire) :
                Whole(wire[j], sent[Done + j]) \/ (j = 1 /\ Rest(wire[1]))

\* What is in h stems from the first b of s, in order, and all but c of it is as it was
\* sent.  With others of s that are for another path, what is as it was sent are n at
\* least, but for c.
Traces(h, s, b, c, n) ==
    \E at \in [1 .. Len(h) -> 1 .. b] :
        /\ \A j \in 1 .. Len(h) : /\ StemsFrom(h[j], s[at[j]])
                                  /\ \A i \in 1 .. j - 1 : at[i] < at[j]
        /\ \E A \in SUBSET (1 .. Len(h)), O \in SUBSET (1 .. b) :
              /\ \A j \in 1 .. Len(h) : j \notin A => h[j] = s[at[j]]
              /\ \A d \in O : s[d] = Other
              /\ Cardinality(A) <= c
              /\ n - c <= Cardinality(O) + (Len(h) - Cardinality(A))

\* What is handled stems from what was sent; the calls of recv, less those that ended inside
\* a request whose remainder is received, and one for each broken path, are at most as
\* many as the requests handled as sent and those for another path that began a line.
OriginsHold == Traces(handled, sent, Begun, broken, req_cnt - splits + Cut)

\* The inductive invariant.
StreamInv == StreamTypes /\ WireHolds /\ OriginsHold

\* A sequence of two cells has a first and a second one, whatever is joined to it.
LEMMA TwoAtLeast ==
    ASSUME NEW n \in Nat, NEW p \in Nat, n >= 2
    PROVE  1 \in 1 .. n /\ 2 \in 1 .. n /\ n + p >= 2
  OBVIOUS

\* What begins like a request still does when it goes on.
LEMMA StartJoined ==
    ASSUME NEW a \in Seq(Cells), NEW b \in Seq(Cells), Len(a) >= 2, a[1] = "P", a[2] = " "
    PROVE  StartsRequest(a \o b)
  <1>1. /\ Len(a \o b) = Len(a) + Len(b) /\ Len(a) \in Nat /\ Len(b) \in Nat
        /\ \A i \in 1 .. Len(a) : (a \o b)[i] = a[i]
    BY Joined, Zenon
  <1>2. 1 \in 1 .. Len(a) /\ 2 \in 1 .. Len(a) /\ Len(a \o b) >= 2
    <2>2. 1 \in 1 .. Len(a) /\ 2 \in 1 .. Len(a) /\ Len(a) + Len(b) >= 2
      BY <1>1, TwoAtLeast, Zenon
    <2>. QED
      BY <1>1, <2>2, Zenon
  <1>3. (a \o b)[1] = "P" /\ (a \o b)[2] = " "
    BY <1>1, <1>2, Zenon
  <1>. QED
    BY <1>2, <1>3, Zenon DEF StartsRequest

\* A request on the wire begins like one, and so does every part from its beginning.
LEMMA WholeStarts ==
    ASSUME NEW r \in Requests, NEW e, Whole(e, r)
    PROVE  /\ e.cells \in Seq(Cells) /\ e.cells # <<>> /\ e.line \in 2 .. Len(e.cells)
           /\ \A b \in Seq(Cells) : StartsRequest(e.cells \o b)
           /\ \A m \in 1 .. Len(e.cells) : StartsRequest(SubSeq(e.cells, 1, m))
  <1>. DEFINE p == Encode(r)
  <1>1. PICK x \in Tails : e = [cells |-> p \o x, line |-> Len(p)]
    BY DEF Whole
  <1>2. x \in Seq(Cells) /\ Len(x) \in Nat \ {0}
    BY TailTypes, Zenon
  <1>3. p \in Seq(Cells) /\ Len(p) >= 2 /\ p[1] = "P" /\ p[2] = " "
    BY EncodeTypes, Zenon
  <1>. DEFINE c == e.cells
  <1>4. c = p \o x /\ e.line = Len(p)
    BY <1>1
  <1>. HIDE DEF c, p
  <1>5. c \in Seq(Cells) /\ Len(c) = Len(p) + Len(x)
    <2>1. p \o x \in Seq(Cells) /\ Len(p \o x) = Len(p) + Len(x)
      BY <1>2, <1>3, Joined, Zenon
    <2>. QED
      BY <1>4, <2>1, Zenon
  <1>6. Len(p) \in Nat
    BY <1>3, LenProperties, Zenon
  <1>7. Len(p) \in 2 .. Len(c) /\ c # <<>>
    <2>1. \A n \in Nat, q \in Nat \ {0} : n >= 2 => n \in 2 .. n + q /\ n + q # 0
      OBVIOUS
    <2>2. Len(p) \in 2 .. Len(c) /\ Len(c) # 0
      BY <1>2, <1>3, <1>5, <1>6, <2>1, Zenon
    <2>3. Len(<<>>) = 0
      OBVIOUS
    <2>. QED
      BY <2>2, <2>3, Zenon
  <1>8. ASSUME NEW b \in Seq(Cells) PROVE StartsRequest(c \o b)
    <2>0. p \in Seq(Cells) /\ x \in Seq(Cells)
      BY <1>2, <1>3, Zenon
    <2>1. (p \o x) \o b = p \o (x \o b) /\ x \o b \in Seq(Cells)
      BY <2>0, JoinedAssociative
    <2>2. StartsRequest(p \o (x \o b))
      BY <1>3, <2>1, StartJoined, Zenon
    <2>. QED
      BY <1>4, <2>1, <2>2, Zenon
  <1>9. ASSUME NEW m \in 1 .. Len(c) PROVE StartsRequest(SubSeq(c, 1, m))
    <2>1. \A i \in 1 .. Len(p) : (p \o x)[i] = p[i]
      BY <1>2, <1>3, Joined, Zenon
    <2>2. 1 \in 1 .. Len(p) /\ 2 \in 1 .. Len(p)
      BY <1>3, <1>6, TwoAtLeast, Zenon
    <2>3. c[1] = "P" /\ c[2] = " "
      BY <1>3, <1>4, <2>1, <2>2, Zenon
    <2>4. Len(SubSeq(c, 1, m)) = m /\ SubSeq(c, 1, m)[1] = c[1] /\ (m >= 2 => SubSeq(c, 1, m)[2] = c[2])
      BY <1>5
    <2>. QED
      BY <2>3, <2>4, Zenon DEF StartsRequest
  <1>. QED
    BY <1>4, <1>5, <1>7, <1>8, <1>9, Zenon DEF c

\* A remainder has cells and no line.
LEMMA RestTypes ==
    ASSUME NEW e, Rest(e)
    PROVE  e.cells \in Seq(Cells) /\ e.cells # <<>> /\ e.line = 0
  <1>1. PICK r \in Requests, x \in Tails : \E i \in 2 .. Len(Encode(r) \o x) :
                LET s == Encode(r) \o x
                IN  /\ s \in Seq(Cells) /\ Len(s) \in i .. Len(s)
                    /\ e = [cells |-> SubSeq(s, i, Len(s)), line |-> 0]
                    /\ e.cells \in Seq(Cells) /\ Len(e.cells) = Len(s) - i + 1
    BY RestIs, Zenon
  <1>. DEFINE s == Encode(r) \o x
  <1>2. PICK i \in 2 .. Len(s) :
                /\ s \in Seq(Cells) /\ Len(s) \in i .. Len(s)
                /\ e = [cells |-> SubSeq(s, i, Len(s)), line |-> 0]
                /\ e.cells \in Seq(Cells) /\ Len(e.cells) = Len(s) - i + 1
    BY <1>1, Zenon
  <1>. HIDE DEF s
  <1>3. Len(e.cells) # 0
    <2>1. Len(s) \in Nat
      BY <1>2
    <2>. QED
      BY <1>2, <2>1
  <1>4. e.cells # <<>>
    BY <1>3
  <1>5. e.line = 0
    BY <1>2
  <1>. QED
    BY <1>2, <1>4, <1>5

\* Items of the wire have requests behind them.
LEMMA WireTypes ==
    ASSUME StreamTypes, WireHolds, NEW j \in 1 .. Len(wire)
    PROVE  /\ wire[j] \in Item /\ wire[j].cells \in Seq(Cells)
           /\ Done + j \in 1 .. Len(sent) /\ sent[Done + j] \in Requests
           /\ Whole(wire[j], sent[Done + j]) \/ (j = 1 /\ Rest(wire[1]))
  <1>1. wire \in Seq(Item) /\ sent \in Seq(Requests) /\ Len(wire) <= Len(sent)
    BY DEF StreamTypes
  <1>2. wire[j] \in Item
    BY <1>1
  <1>3. wire[j].cells \in Seq(Cells)
    BY <1>2 DEF Item
  <1>4. Done + j \in 1 .. Len(sent)
    BY <1>1 DEF Done
  <1>5. sent[Done + j] \in Requests
    BY <1>1, <1>4
  <1>. QED
    BY <1>2, <1>3, <1>4, <1>5, Zenon DEF WireHolds

\* Cut tells whether the first item is a remainder.
LEMMA CutIff ==
    ASSUME StreamTypes, WireHolds, wire # <<>>
    PROVE  /\ Cut = 1 => Rest(wire[1])
           /\ Cut # 1 => Cut = 0 /\ Whole(wire[1], sent[Done + 1])
  <1>1. 1 \in 1 .. Len(wire)
    <2>1. wire \in Seq(Item)
      BY DEF StreamTypes
    <2>. QED
      BY <2>1
  <1>2. sent[Done + 1] \in Requests /\ (Whole(wire[1], sent[Done + 1]) \/ Rest(wire[1]))
    BY <1>1, WireTypes, Zenon
  <1>3. CASE Rest(wire[1])
    <2>1. wire[1].line = 0
      BY <1>3, RestTypes
    <2>. QED
      BY <1>3, <2>1 DEF Cut
  <1>4. CASE Whole(wire[1], sent[Done + 1])
    <2>1. wire[1].line \in 2 .. Len(wire[1].cells)
      BY <1>2, <1>4, WholeStarts, Zenon
    <2>2. wire[1].line # 0
      BY <2>1
    <2>. QED
      BY <1>4, <2>2 DEF Cut
  <1>. QED
    BY <1>2, <1>3, <1>4, Zenon

\* Joining sequences of cells is associative and gives one.
LEMMA JoinedThree ==
    ASSUME NEW a \in Seq(Cells), NEW b \in Seq(Cells), NEW c \in Seq(Cells)
    PROVE  (a \o b) \o c = a \o (b \o c) /\ b \o c \in Seq(Cells)
  <1>1. (a \o b) \o c = a \o (b \o c)
    BY JoinedAssociative, Zenon
  <1>2. b \o c \in Seq(Cells)
    BY Joined, Zenon
  <1>. QED
    BY <1>1, <1>2

\* Received begins with the first item, and goes on with the second.
LEMMA ReceivedFrom ==
    ASSUME StreamTypes, WireHolds, NEW k \in 1 .. Len(wire)
    PROVE  \E b \in Seq(Cells) :
              /\ Received(k) = wire[1].cells \o b
              /\ k = 1 => b = <<>>
              /\ k # 1 => \E d \in Seq(Cells) : b = wire[2].cells \o d
  <1>. DEFINE s == [j \in 1 .. k |-> wire[j].cells]
  <1>1. Len(wire) \in Nat /\ Len(s) = k /\ k \in Nat \ {0}
    <2>1. Len(wire) \in Nat
      BY LenProperties DEF StreamTypes
    <2>. QED
      BY <2>1
  <1>2. \A j \in 1 .. k : s[j] = wire[j].cells
    OBVIOUS
  <1>3. Received(k) = FlattenSeq(s)
    BY DEF Received
  <1>. HIDE DEF s
  <1>4. \A j \in 1 .. k : s[j] \in Seq(Cells)
    <2>1. \A j \in 1 .. k : j \in 1 .. Len(wire)
      BY <1>1
    <2>2. \A j \in 1 .. k : wire[j].cells \in Seq(Cells)
      BY <2>1, WireTypes, Zenon
    <2>. QED
      BY <1>2, <2>2
  <1>5. PICK f : /\ FlattenSeq(s) = f[k]
                 /\ \A i \in 1 .. k : f[i] = IF i = 1 THEN s[i] ELSE f[i - 1] \o s[i]
    BY <1>1, FlattenRec
  <1>. DEFINE Good(i) == \E b \in Seq(Cells) :
                            /\ f[i] = s[1] \o b
                            /\ i = 1 => b = <<>>
                            /\ i # 1 => \E d \in Seq(Cells) : b = s[2] \o d
              U == {i \in 1 .. k : ~Good(i)}
  <1>6. U = {}
    <2>1. SUFFICES ASSUME NEW i \in U, \A y \in U : i <= y PROVE FALSE
      <3>. HIDE DEF U
      <3>1. U \subseteq Nat
        BY DEF U
      <3>. QED
        BY <3>1, <2>1, Least
    <2>2. i \in 1 .. k /\ ~Good(i)
      OBVIOUS
    <2>. HIDE DEF U
    <2>0. <<>> \in Seq(Cells)
      OBVIOUS
    <2>3. CASE i = 1
      <3>1. f[i] = s[1] /\ s[1] \in Seq(Cells)
        BY <1>1, <1>4, <1>5, <2>3
      <3>2. f[i] = s[1] \o <<>>
        BY <3>1, <2>0, Joined, Zenon
      <3>. QED
        BY <2>0, <2>2, <2>3, <3>2, Zenon
    <2>4. CASE i # 1
      <3>1. i - 1 \in 1 .. k /\ i - 1 \notin U
        <4>1. i - 1 \in 1 .. k /\ ~(i <= i - 1)
          BY <1>1, <2>2, <2>4
        <4>. QED
          BY <2>1, <4>1
      <3>2. Good(i - 1)
        BY <3>1 DEF U
      <3>3. f[i] = f[i - 1] \o s[i]
        BY <1>5, <2>2, <2>4, Zenon
      <3>4. s[1] \in Seq(Cells) /\ s[i] \in Seq(Cells)
        BY <1>1, <1>4, <2>2
      <3>5. CASE i = 2
        <4>1. i - 1 = 1
          BY <3>5
        <4>2. f[i - 1] = s[1] \o <<>>
          BY <3>2, <4>1, Zenon
        <4>3. f[i] = s[1] \o s[2]
          BY <2>0, <3>3, <3>4, <3>5, <4>2, Joined, Zenon
        <4>4. s[2] = s[2] \o <<>> /\ s[2] \in Seq(Cells)
          BY <2>0, <3>4, <3>5, Joined, Zenon
        <4>. QED
          BY <2>0, <2>2, <2>4, <4>3, <4>4, Zenon
      <3>6. CASE i # 2
        <4>1. i - 1 # 1
          BY <1>1, <2>2, <3>6
        <4>2. PICK b \in Seq(Cells) : /\ f[i - 1] = s[1] \o b
                                      /\ \E d \in Seq(Cells) : b = s[2] \o d
          BY <3>2, <4>1, Zenon
        <4>3. PICK d \in Seq(Cells) : b = s[2] \o d
          BY <4>2, Zenon
        <4>4. s[2] \in Seq(Cells)
          BY <1>1, <1>4, <2>2, <2>4
        <4>. HIDE DEF Good
        <4>5. (s[1] \o b) \o s[i] = s[1] \o (b \o s[i])
          <5>. DEFINE first == s[1]
                      last  == s[i]
          <5>1. first \in Seq(Cells) /\ last \in Seq(Cells)
            BY <3>4
          <5>. HIDE DEF first, last
          <5>2. (first \o b) \o last = first \o (b \o last)
            BY <5>1, <4>2, JoinedAssociative, Zenon
          <5>. QED
            BY <5>2 DEF first, last
        <4>6. (s[2] \o d) \o s[i] = s[2] \o (d \o s[i]) /\ d \o s[i] \in Seq(Cells)
          <5>. DEFINE second == s[2]
                      last   == s[i]
          <5>1. second \in Seq(Cells) /\ last \in Seq(Cells)
            BY <3>4, <4>4
          <5>. HIDE DEF second, last
          <5>2. (second \o d) \o last = second \o (d \o last)
            BY <5>1, JoinedAssociative, ZenonT(40)
          <5>3. d \o last \in Seq(Cells)
            BY <5>1, Joined, Zenon
          <5>. QED
            BY <5>2, <5>3 DEF second, last
        <4>7. b \o s[i] \in Seq(Cells) /\ b \o s[i] = s[2] \o (d \o s[i])
          BY <3>4, <4>3, <4>6, Joined, Zenon
        <4>8. f[i] = s[1] \o (b \o s[i])
          BY <3>3, <4>2, <4>5, Zenon
        <4>. QED
          BY <2>2, <2>4, <4>6, <4>7, <4>8, Zenon DEF Good
      <3>. QED
        BY <3>5, <3>6, Zenon
    <2>. QED
      BY <2>3, <2>4, Zenon
  <1>7. Good(k)
    <2>1. k \in 1 .. k
      BY <1>1
    <2>2. k \notin U
      <3>. HIDE DEF U
      <3>. QED
        BY <1>6
    <2>. HIDE DEF Good
    <2>. QED
      BY <2>1, <2>2
  <1>. HIDE DEF U, Good
  <1>8. s[1] = wire[1].cells /\ (k # 1 => s[2] = wire[2].cells)
    BY <1>1, <1>2
  <1>9. Received(k) = f[k]
    BY <1>3, <1>5, <1>1, Zenon
  <1>10. PICK t \in Seq(Cells) : /\ f[k] = s[1] \o t
                                 /\ k = 1 => t = <<>>
                                 /\ k # 1 => \E d \in Seq(Cells) : t = s[2] \o d
    BY <1>7, Zenon DEF Good
  <1>11. Received(k) = wire[1].cells \o t
    BY <1>8, <1>9, <1>10
  <1>12. k # 1 => \E d \in Seq(Cells) : t = wire[2].cells \o d
    <2>. SUFFICES ASSUME k # 1 PROVE \E d \in Seq(Cells) : t = wire[2].cells \o d
      OBVIOUS
    <2>1. PICK d \in Seq(Cells) : t = s[2] \o d
      BY <1>10
    <2>. QED
      BY <1>8, <2>1
  <1>. QED
    BY <1>10, <1>11, <1>12, Zenon

\* What handle_request makes of the next line.
First == IF Cut = 1 THEN Other ELSE sent[Done + 1]

\* A line is parsed as the first item of the wire, if a request begins behind it.
LEMMA FirstParsed ==
    ASSUME StreamTypes, WireHolds, wire # <<>>, NEW b \in Seq(Cells), StartsRequest(b)
    PROVE  Parse(wire[1].cells \o b) = First
  <1>1. 1 \in 1 .. Len(wire)
    <2>1. wire \in Seq(Item)
      BY DEF StreamTypes
    <2>. QED
      BY <2>1
  <1>2. sent[Done + 1] \in Requests
    BY <1>1, WireTypes, Zenon
  <1>3. CASE Cut = 1
    <2>1. Rest(wire[1])
      BY <1>3, CutIff
    <2>. QED
      BY <1>3, <2>1, LineOfRest, Zenon DEF First
  <1>4. CASE Cut # 1
    <2>1. Whole(wire[1], sent[Done + 1])
      BY <1>4, CutIff
    <2>. QED
      BY <1>2, <1>4, <2>1, LineOfWhole, Zenon DEF First
  <1>. QED
    BY <1>3, <1>4

\* Every item but the first begins like a request.
LEMMA SecondStarts ==
    ASSUME StreamTypes, WireHolds, NEW j \in 2 .. Len(wire)
    PROVE  /\ wire[j].cells \in Seq(Cells)
           /\ \A d \in Seq(Cells) : StartsRequest(wire[j].cells \o d)
           /\ \A m \in 1 .. Len(wire[j].cells) : StartsRequest(SubSeq(wire[j].cells, 1, m))
  <1>1. j \in 1 .. Len(wire) /\ j # 1
    <2>1. Len(wire) \in Nat
      BY LenProperties DEF StreamTypes
    <2>. QED
      BY <2>1
  <1>2. sent[Done + j] \in Requests /\ Whole(wire[j], sent[Done + j])
    BY <1>1, WireTypes, Zenon
  <1>. QED
    BY <1>2, WholeStarts, Zenon

\* The beginning of what follows a cell, and what follows the beginning of it.
LEMMA PieceOf ==
    ASSUME NEW s \in Seq(Cells), NEW i \in 1 .. Len(s), NEW m \in 1 .. Len(s) - i + 1
    PROVE  /\ SubSeq(SubSeq(s, i, Len(s)), 1, m) = SubSeq(s, i, i + m - 1)
           /\ From(SubSeq(s, i, Len(s)), m + 1) = From(s, i + m)
  <1>1. SubSeq(SubSeq(s, i, Len(s)), 1, m) = SubSeq(s, i, i + m - 1)
    OBVIOUS
  <1>2. From(SubSeq(s, i, Len(s)), m + 1) = From(s, i + m)
    BY DEF From
  <1>. QED
    BY <1>1, <1>2

\* Items that are received whole are parsed as the first of them ...
LEMMA WholeLine ==
    ASSUME StreamTypes, WireHolds, NEW k \in 1 .. Len(wire)
    PROVE  Parse(Received(k)) = First
  <1>0. wire # <<>> /\ Len(wire) \in Nat
    <2>1. wire \in Seq(Item)
      BY DEF StreamTypes
    <2>. QED
      BY <2>1
  <1>1. PICK b \in Seq(Cells) : /\ Received(k) = wire[1].cells \o b
                                /\ k = 1 => b = <<>>
                                /\ k # 1 => \E d \in Seq(Cells) : b = wire[2].cells \o d
    BY ReceivedFrom, Zenon
  <1>2. StartsRequest(b)
    <2>1. CASE k = 1
      BY <1>1, <2>1, Zenon DEF StartsRequest
    <2>2. CASE k # 1
      <3>1. 2 \in 2 .. Len(wire)
        BY <1>0, <2>2
      <3>. QED
        BY <1>1, <2>2, <3>1, SecondStarts, Zenon
    <2>. QED
      BY <2>1, <2>2, Zenon
  <1>. QED
    BY <1>0, <1>1, <1>2, FirstParsed, Zenon

\* ... and so they are with a part of the next.
LEMMA PartLine ==
    ASSUME StreamTypes, WireHolds, NEW k \in 0 .. Len(wire) - 1,
           NEW m \in 1 .. Len(wire[k + 1].cells) - 1, k # 0 \/ m >= wire[k + 1].line
    PROVE  Parse(Received(k) \o SubSeq(wire[k + 1].cells, 1, m)) = First
  <1>. DEFINE c == wire[k + 1].cells
              part == SubSeq(c, 1, m)
  <1>0. wire \in Seq(Item) /\ Len(wire) \in Nat
    BY LenProperties DEF StreamTypes
  <1>1. k \in Nat /\ k + 1 \in 1 .. Len(wire) /\ wire # <<>> /\ 1 \in 1 .. Len(wire)
    BY <1>0
  <1>2. wire[k + 1] \in Item /\ c \in Seq(Cells)
    BY <1>1, WireTypes, Zenon
  <1>3. wire[k + 1].line \in Nat
    BY <1>2 DEF Item
  <1>. HIDE DEF c
  <1>4. part \in Seq(Cells) /\ m \in 1 .. Len(c) /\ Len(c) \in Nat
    BY <1>2 DEF c
  <1>5. CASE k = 0
    <2>1. Received(k) = <<>>
      <3>1. \A f : f = [j \in 1 .. 0 |-> wire[j].cells] => f = <<>>
        OBVIOUS
      <3>2. Len(<<>>) = 0
        OBVIOUS
      <3>. QED
        BY <1>5, <3>1, <3>2 DEF Received, FlattenSeq
    <2>2. Received(k) \o part = part
      BY <1>4, <2>1
    <2>3. c = wire[1].cells /\ wire[k + 1] = wire[1]
      BY <1>5 DEF c
    <2>4. CASE Cut = 1
      <3>1. Rest(wire[1])
        BY <1>1, <2>4, CutIff
      <3>2. PICK r \in Requests, x \in Tails : \E i \in 2 .. Len(Encode(r) \o x) :
                LET s == Encode(r) \o x
                IN  /\ s \in Seq(Cells) /\ wire[1].cells = SubSeq(s, i, Len(s))
                    /\ Len(wire[1].cells) = Len(s) - i + 1
        BY <3>1, RestIs, Zenon
      <3>. DEFINE s == Encode(r) \o x
      <3>3. PICK i \in 2 .. Len(s) : /\ s \in Seq(Cells) /\ c = SubSeq(s, i, Len(s))
                                     /\ Len(c) = Len(s) - i + 1
        BY <2>3, <3>2, Zenon
      <3>. HIDE DEF s
      <3>4. Len(s) \in Nat
        BY <3>3
      <3>5. i + m - 1 \in i .. Len(s)
        <4>1. \A l, a, q \in Nat : q >= 1 /\ q <= l - a + 1 => a + q - 1 \in a .. l
          OBVIOUS
        <4>2. Len(s) \in Nat /\ i \in Nat /\ m \in Nat /\ m >= 1 /\ m <= Len(s) - i + 1
          BY <1>4, <3>3, <3>4
        <4>. QED
          BY <4>1, <4>2, Zenon
      <3>6. part = SubSeq(s, i, i + m - 1)
        <4>1. i \in 1 .. Len(s) /\ m \in 1 .. Len(s) - i + 1
          BY <1>4, <3>3, <3>4
        <4>. QED
          BY <3>3, <4>1, PieceOf, Zenon
      <3>7. part = part \o <<>> /\ <<>> \in Seq(Cells) /\ StartsRequest(<<>>)
        BY <1>4 DEF StartsRequest
      <3>8. Parse(part \o <<>>) = Other
        BY <3>5, <3>6, <3>7, ParseRest, Zenon DEF s
      <3>. QED
        BY <2>2, <2>4, <3>7, <3>8, Zenon DEF First, c
    <2>5. CASE Cut # 1
      <3>. DEFINE r == sent[Done + 1]
                  p == Encode(r)
      <3>1. Whole(wire[1], r)
        BY <1>1, <2>5, CutIff
      <3>0. r \in Requests
        BY <1>1, WireTypes, Zenon
      <3>. HIDE DEF r, p
      <3>2. PICK x \in Tails : wire[1] = [cells |-> p \o x, line |-> Len(p)]
        BY <3>1, Zenon DEF Whole, p
      <3>3. x \in Seq(Cells) /\ Len(x) \in Nat /\ x # <<>> /\ x[1] \in Blank
        <4>1. x # <<>>
          BY StreamAssumption, Zenon
        <4>. QED
          BY <4>1, TailTypes, LenProperties, Zenon
      <3>4. p \in Seq(Cells) /\ Len(p) \in Nat
        BY <3>0, EncodeTypes, LenProperties, Zenon DEF p
      <3>5. c = p \o x /\ wire[k + 1].line = Len(p)
        BY <2>3, <3>2
      <3>6. Len(c) = Len(p) + Len(x)
        BY <3>3, <3>4, <3>5, Joined, Zenon
      <3>7. m - Len(p) \in 0 .. Len(x)
        <4>1. m >= Len(p)
          BY <1>5, <3>5, Zenon
        <4>. QED
          BY <1>4, <3>3, <3>4, <3>6, <4>1
      <3>. DEFINE y == SubSeq(x, 1, m - Len(p))
      <3>8. part = p \o y
        <4>1. m = Len(p) + (m - Len(p))
          BY <1>4, <3>4
        <4>. QED
          <5>1. SubSeq(p \o x, 1, Len(p) + (m - Len(p))) = p \o y
            BY <3>3, <3>4, <3>7, JoinedPart, Zenon
          <5>2. part = SubSeq(p \o x, 1, m)
            BY <3>5, Zenon
          <5>. QED
            BY <4>1, <5>1, <5>2, Zenon
      <3>9. y \in Seq(Cells) /\ (y = <<>> \/ y[1] = x[1])
        BY <3>3, <3>4, <3>7
      <3>. HIDE DEF y
      <3>10. Parse(p \o y) = r
        BY <3>0, <3>3, <3>9, ParseWhole, Zenon DEF p
      <3>. QED
        BY <2>2, <2>5, <3>8, <3>10, Zenon DEF First, r, c
    <2>. QED
      BY <2>4, <2>5, Zenon
  <1>6. CASE k # 0
    <2>1. k \in 1 .. Len(wire) /\ k + 1 \in 2 .. Len(wire)
      BY <1>0, <1>1, <1>6
    <2>2. PICK b \in Seq(Cells) : /\ Received(k) = wire[1].cells \o b
                                  /\ k = 1 => b = <<>>
                                  /\ k # 1 => \E d \in Seq(Cells) : b = wire[2].cells \o d
      BY <2>1, ReceivedFrom, Zenon
    <2>3. wire[1].cells \in Seq(Cells)
      BY <1>1, WireTypes, Zenon
    <2>0. part \in Seq(Cells)
      BY <1>4
    <2>. HIDE DEF part
    <2>4. (wire[1].cells \o b) \o part = wire[1].cells \o (b \o part) /\ b \o part \in Seq(Cells)
      BY <2>0, <2>3, JoinedThree, Zenon
    <2>5. StartsRequest(b \o part)
      <3>1. CASE k = 1
        <4>1. b \o part = part
          BY <1>4, <2>2, <3>1
        <4>2. StartsRequest(part)
          BY <1>4, <2>1, SecondStarts, Zenon DEF c, part
        <4>. QED
          BY <4>1, <4>2, Zenon
      <3>2. CASE k # 1
        <4>1. 2 \in 2 .. Len(wire)
          BY <1>0, <2>1
        <4>2. PICK d \in Seq(Cells) : b = wire[2].cells \o d
          BY <2>2, <3>2, Zenon
        <4>3. wire[2].cells \in Seq(Cells)
          BY <4>1, SecondStarts, Zenon
        <4>4. (wire[2].cells \o d) \o part = wire[2].cells \o (d \o part) /\ d \o part \in Seq(Cells)
          BY <2>0, <4>3, JoinedThree, Zenon
        <4>5. StartsRequest(wire[2].cells \o (d \o part))
          BY <4>1, <4>4, SecondStarts, Zenon
        <4>. QED
          BY <4>2, <4>4, <4>5, Zenon
      <3>. QED
        BY <3>1, <3>2, Zenon
    <2>. QED
      BY <1>1, <2>2, <2>4, <2>5, FirstParsed, Zenon DEF c, part
  <1>. QED
    BY <1>5, <1>6, Zenon

\* The counts of requests received are in order.
LEMMA BegunTypes ==
    ASSUME StreamTypes
    PROVE  /\ Cut \in {0, 1} /\ (wire = <<>> => Cut = 0)
           /\ Done \in Nat /\ Done + Len(wire) = Len(sent)
           /\ Begun \in Done .. Len(sent)
           /\ Len(wire) \in Nat /\ Len(sent) \in Nat
  <1>1. wire \in Seq(Item) /\ Len(wire) \in Nat /\ Len(sent) \in Nat /\ Len(wire) <= Len(sent)
    BY LenProperties DEF StreamTypes
  <1>2. Cut \in {0, 1} /\ (wire = <<>> => Cut = 0)
    BY DEF Cut
  <1>3. wire # <<>> => Len(wire) >= 1
    BY <1>1
  <1>4. Cut <= Len(wire)
    BY <1>1, <1>2, <1>3
  <1>. QED
    BY <1>1, <1>2, <1>4 DEF Begun, Done

\* The numbers from 1 to n are n.
LEMMA CountTo ==
    ASSUME NEW n \in Nat
    PROVE  IsFiniteSet(1 .. n) /\ Cardinality(1 .. n) = n
  BY FS_Interval

\* A request for a row is what may be handled, and stems from itself.
LEMMA StemsSelf ==
    ASSUME NEW r \in Requests, r # Other
    PROVE  r \in Hits /\ r.id # 0 /\ StemsFrom(r, r)
  <1>1. r \in [user : Names, id : Ids] /\ r.id \in Nat \ {0}
    BY RequestTypes
  <1>2. r \in Hits /\ r.id # 0
    BY <1>1 DEF Hits
  <1>3. Decimal(r.id) \in Seq(Digits)
    BY RequestParts, Zenon
  <1>4. IsPrefix(Decimal(r.id), Decimal(r.id))
    BY <1>3 DEF IsPrefix
  <1>. QED
    BY <1>2, <1>4, Zenon DEF StemsFrom

\* What is handled of a line that is the beginning of a request: nothing, or what stems
\* from it.
LEMMA CutHandled ==
    ASSUME NEW r \in Requests, NEW m \in 1 .. Len(Encode(r)) - 1
    PROVE  \/ CollectsIn(SubSeq(Encode(r), 1, m)) = <<>>
           \/ \E h \in Hits : CollectsIn(SubSeq(Encode(r), 1, m)) = <<h>> /\ StemsFrom(h, r)
  <1>. DEFINE s == SubSeq(Encode(r), 1, m)
              p == Parse(s)
  <1>1. CASE p = Other \/ p.id = 0
    BY <1>1, Zenon DEF CollectsIn
  <1>2. CASE p # Other /\ p.id # 0
    <2>1. r # Other /\ \E q \in 1 .. Len(Decimal(r.id)) :
                          p = [user |-> r.user, id |-> Value(SubSeq(Decimal(r.id), 1, q))]
      BY <1>2, ParseCut, Zenon
    <2>. HIDE DEF p, s
    <2>2. PICK q \in 1 .. Len(Decimal(r.id)) :
                  p = [user |-> r.user, id |-> Value(SubSeq(Decimal(r.id), 1, q))]
      BY <2>1, Zenon
    <2>. DEFINE ds == Decimal(r.id)
                w == SubSeq(ds, 1, q)
                v == Value(w)
    <2>3. r.id \in Nat \ {0} /\ r.user \in Names
      BY <2>1, RequestTypes
    <2>4. v \in Nat \ {0} /\ Decimal(v) = w
      BY <2>3, DecimalPrefix, Zenon
    <2>5. ds \in Seq(Digits) /\ q \in 1 .. Len(ds)
      BY <2>1, RequestParts, Zenon
    <2>. HIDE DEF ds
    <2>6. IsPrefix(w, ds)
      BY <2>5 DEF IsPrefix
    <2>7. p = [user |-> r.user, id |-> v]
      BY <2>2, Zenon DEF ds
    <2>. HIDE DEF v, w
    <2>8. p \in Hits /\ p.user = r.user /\ p.id = v
      BY <2>3, <2>4, <2>7 DEF Hits
    <2>9. StemsFrom(p, r)
      BY <2>1, <2>4, <2>6, <2>8, Zenon DEF StemsFrom, ds
    <2>10. CollectsIn(s) = <<p>>
      BY <1>2, Zenon DEF CollectsIn, p
    <2>. QED
      BY <2>8, <2>9, <2>10, Zenon DEF s
  <1>. QED
    BY <1>1, <1>2, Zenon

\* The parts of the trace.
LEMMA TracesParts ==
    ASSUME NEW h \in Seq(Hits), NEW s, NEW b \in Nat, NEW A \in SUBSET (1 .. Len(h)), NEW O \in SUBSET (1 .. b)
    PROVE  /\ Len(h) \in Nat
           /\ IsFiniteSet(A) /\ Cardinality(A) \in Nat
           /\ IsFiniteSet(O) /\ Cardinality(O) \in Nat
  <1>1. Len(h) \in Nat
    OBVIOUS
  <1>2. IsFiniteSet(1 .. Len(h)) /\ IsFiniteSet(1 .. b)
    BY <1>1, FS_Interval
  <1>. QED
    BY <1>1, <1>2, FS_Subset, FS_CardinalityType

\* What shows that the trace holds.
LEMMA TracesBy ==
    ASSUME NEW h, NEW s, NEW b, NEW c, NEW n,
           NEW at \in [1 .. Len(h) -> 1 .. b], NEW A \in SUBSET (1 .. Len(h)), NEW O \in SUBSET (1 .. b),
           \A j \in 1 .. Len(h) : StemsFrom(h[j], s[at[j]]) /\ \A i \in 1 .. j - 1 : at[i] < at[j],
           \A j \in 1 .. Len(h) : j \notin A => h[j] = s[at[j]],
           \A d \in O : s[d] = Other,
           Cardinality(A) <= c, n - c <= Cardinality(O) + (Len(h) - Cardinality(A))
    PROVE  Traces(h, s, b, c, n)
  BY Zenon DEF Traces

\* The trace holds with more of s, more that may be altered and less to account for.
LEMMA TracesMore ==
    ASSUME NEW h \in Seq(Hits), NEW s, NEW b \in Nat, NEW c \in Nat, NEW n \in Int, Traces(h, s, b, c, n),
           NEW t, NEW bb \in Nat, NEW cc \in Nat, NEW nn \in Int,
           b <= bb, c <= cc, nn - cc <= n - c, \A d \in 1 .. b : t[d] = s[d]
    PROVE  Traces(h, t, bb, cc, nn)
  <1>1. PICK at \in [1 .. Len(h) -> 1 .. b] :
          /\ \A j \in 1 .. Len(h) : StemsFrom(h[j], s[at[j]]) /\ \A i \in 1 .. j - 1 : at[i] < at[j]
          /\ \E A \in SUBSET (1 .. Len(h)), O \in SUBSET (1 .. b) :
                /\ \A j \in 1 .. Len(h) : j \notin A => h[j] = s[at[j]]
                /\ \A d \in O : s[d] = Other
                /\ Cardinality(A) <= c /\ n - c <= Cardinality(O) + (Len(h) - Cardinality(A))
    BY Zenon DEF Traces
  <1>2. PICK A \in SUBSET (1 .. Len(h)), O \in SUBSET (1 .. b) :
          /\ \A j \in 1 .. Len(h) : j \notin A => h[j] = s[at[j]]
          /\ \A d \in O : s[d] = Other
          /\ Cardinality(A) <= c /\ n - c <= Cardinality(O) + (Len(h) - Cardinality(A))
    BY <1>1, Zenon
  <1>3. Cardinality(A) \in Nat /\ Cardinality(O) \in Nat /\ Len(h) \in Nat
    BY TracesParts, Zenon
  <1>4. \A j \in 1 .. Len(h) : at[j] \in 1 .. b /\ t[at[j]] = s[at[j]]
    BY <1>1
  <1>5. 1 .. b \subseteq 1 .. bb
    OBVIOUS
  <1>6. at \in [1 .. Len(h) -> 1 .. bb] /\ O \in SUBSET (1 .. bb)
    BY <1>5
  <1>7. \A j \in 1 .. Len(h) : StemsFrom(h[j], t[at[j]]) /\ \A i \in 1 .. j - 1 : at[i] < at[j]
    BY <1>1, <1>4, Zenon
  <1>8. \A j \in 1 .. Len(h) : j \notin A => h[j] = t[at[j]]
    BY <1>2, <1>4, Zenon
  <1>9. \A d \in O : t[d] = Other
    BY <1>2, Zenon
  <1>10. Cardinality(A) <= cc /\ nn - cc <= Cardinality(O) + (Len(h) - Cardinality(A))
    <2>. DEFINE x == Cardinality(A)
                y == Cardinality(O)
                z == Len(h)
    <2>1. x \in Nat /\ y \in Nat /\ z \in Nat /\ x <= c /\ n - c <= y + (z - x)
      BY <1>2, <1>3
    <2>. HIDE DEF x, y, z
    <2>2. x <= cc /\ nn - cc <= y + (z - x)
      BY <2>1
    <2>. QED
      BY <2>2 DEF x, y, z
  <1>. QED
    BY <1>6, <1>7, <1>8, <1>9, <1>10, Zenon DEF Traces

\* A request for another path that begins a line is accounted for.
LEMMA TracesOther ==
    ASSUME NEW h \in Seq(Hits), NEW s, NEW b \in Nat, NEW c \in Nat, NEW n \in Int, Traces(h, s, b, c, n),
           NEW bb \in Nat, b + 1 <= bb, s[b + 1] = Other
    PROVE  Traces(h, s, bb, c, n + 1)
  <1>1. PICK at \in [1 .. Len(h) -> 1 .. b] :
          /\ \A j \in 1 .. Len(h) : StemsFrom(h[j], s[at[j]]) /\ \A i \in 1 .. j - 1 : at[i] < at[j]
          /\ \E A \in SUBSET (1 .. Len(h)), O \in SUBSET (1 .. b) :
                /\ \A j \in 1 .. Len(h) : j \notin A => h[j] = s[at[j]]
                /\ \A d \in O : s[d] = Other
                /\ Cardinality(A) <= c /\ n - c <= Cardinality(O) + (Len(h) - Cardinality(A))
    BY Zenon DEF Traces
  <1>2. PICK A \in SUBSET (1 .. Len(h)), O \in SUBSET (1 .. b) :
          /\ \A j \in 1 .. Len(h) : j \notin A => h[j] = s[at[j]]
          /\ \A d \in O : s[d] = Other
          /\ Cardinality(A) <= c /\ n - c <= Cardinality(O) + (Len(h) - Cardinality(A))
    BY <1>1, Zenon
  <1>3. Cardinality(A) \in Nat /\ Cardinality(O) \in Nat /\ Len(h) \in Nat /\ IsFiniteSet(O)
    BY TracesParts, Zenon
  <1>. DEFINE P == O \cup {b + 1}
  <1>4. 1 .. b \subseteq 1 .. bb /\ b + 1 \in 1 .. bb /\ b + 1 \notin O
    OBVIOUS
  <1>5. Cardinality(P) = Cardinality(O) + 1
    BY <1>3, <1>4, FS_AddElement
  <1>6. at \in [1 .. Len(h) -> 1 .. bb] /\ P \in SUBSET (1 .. bb)
    BY <1>4
  <1>7. \A d \in P : s[d] = Other
    BY <1>2
  <1>. HIDE DEF P
  <1>8. (n + 1) - c <= Cardinality(P) + (Len(h) - Cardinality(A))
    <2>. DEFINE x == Cardinality(A)
                y == Cardinality(O)
                z == Len(h)
    <2>1. x \in Nat /\ y \in Nat /\ z \in Nat /\ n - c <= y + (z - x)
      BY <1>2, <1>3
    <2>. HIDE DEF x, y, z
    <2>2. (n + 1) - c <= (y + 1) + (z - x)
      BY <2>1
    <2>. QED
      BY <1>5, <2>2 DEF x, y, z
  <1>9. \A j \in 1 .. Len(h) : StemsFrom(h[j], s[at[j]]) /\ \A i \in 1 .. j - 1 : at[i] < at[j]
    BY <1>1, Zenon
  <1>. QED
    BY <1>2, <1>6, <1>7, <1>8, <1>9, TracesBy, Zenon

\* What is handled next stems from the next of s, as it was sent or altered.
LEMMA TracesStem ==
    ASSUME NEW h \in Seq(Hits), NEW s, NEW b \in Nat, NEW c \in Nat, NEW n \in Int, Traces(h, s, b, c, n),
           NEW bb \in Nat, b + 1 <= bb, NEW x \in Hits, StemsFrom(x, s[b + 1]),
           NEW cc \in Nat, (cc = c /\ x = s[b + 1]) \/ cc = c + 1
    PROVE  Append(h, x) \in Seq(Hits) /\ Traces(Append(h, x), s, bb, cc, n + 1)
  <1>1. PICK at \in [1 .. Len(h) -> 1 .. b] :
          /\ \A j \in 1 .. Len(h) : StemsFrom(h[j], s[at[j]]) /\ \A i \in 1 .. j - 1 : at[i] < at[j]
          /\ \E A \in SUBSET (1 .. Len(h)), O \in SUBSET (1 .. b) :
                /\ \A j \in 1 .. Len(h) : j \notin A => h[j] = s[at[j]]
                /\ \A d \in O : s[d] = Other
                /\ Cardinality(A) <= c /\ n - c <= Cardinality(O) + (Len(h) - Cardinality(A))
    BY Zenon DEF Traces
  <1>2. PICK A \in SUBSET (1 .. Len(h)), O \in SUBSET (1 .. b) :
          /\ \A j \in 1 .. Len(h) : j \notin A => h[j] = s[at[j]]
          /\ \A d \in O : s[d] = Other
          /\ Cardinality(A) <= c /\ n - c <= Cardinality(O) + (Len(h) - Cardinality(A))
    BY <1>1, Zenon
  <1>3. Cardinality(A) \in Nat /\ Cardinality(O) \in Nat /\ Len(h) \in Nat /\ IsFiniteSet(A)
    BY TracesParts, Zenon
  <1>. DEFINE g == Append(h, x)
              k == Len(h)
              bt == [j \in 1 .. k + 1 |-> IF j <= k THEN at[j] ELSE b + 1]
              B == IF cc = c THEN A ELSE A \cup {k + 1}
  <1>4. /\ g \in Seq(Hits) /\ Len(g) = k + 1 /\ g[k + 1] = x
        /\ \A j \in 1 .. k : g[j] = h[j]
    OBVIOUS
  <1>. HIDE DEF g
  <1>5. 1 .. b \subseteq 1 .. bb /\ b + 1 \in 1 .. bb /\ k \in Nat
    BY <1>3
  <1>. HIDE DEF k
  <1>6. /\ \A j \in 1 .. k + 1 : j \in 1 .. k \/ j = k + 1
        /\ \A j \in 1 .. k : bt[j] = at[j] /\ at[j] \in 1 .. b
        /\ bt[k + 1] = b + 1
        /\ \A j \in 1 .. k + 1 : \A i \in 1 .. j - 1 : i \in 1 .. k
        /\ \A j \in 1 .. k : \A i \in 1 .. j - 1 : i \in 1 .. k
    <2>1. \A j \in 1 .. k : j \in 1 .. k + 1 /\ j <= k
      BY <1>5
    <2>2. \A j \in 1 .. k : bt[j] = at[j] /\ at[j] \in 1 .. b
      BY <1>1, <2>1, Zenon DEF k
    <2>3. bt[k + 1] = b + 1
      BY <1>5
    <2>4. /\ \A j \in 1 .. k + 1 : j \in 1 .. k \/ j = k + 1
          /\ \A j \in 1 .. k + 1 : \A i \in 1 .. j - 1 : i \in 1 .. k
          /\ \A j \in 1 .. k : \A i \in 1 .. j - 1 : i \in 1 .. k
      BY <1>5
    <2>. QED
      BY <2>2, <2>3, <2>4, Zenon
  <1>7. bt \in [1 .. k + 1 -> 1 .. bb]
    <2>1. \A j \in 1 .. k + 1 : (IF j <= k THEN at[j] ELSE b + 1) \in 1 .. bb
      <3>1. \A j \in 1 .. k + 1 : j <= k => j \in 1 .. k
        BY <1>5
      <3>. QED
        BY <1>5, <1>6, <3>1, Zenon
    <2>. QED
      BY <2>1, Zenon
  <1>. HIDE DEF bt
  <1>8. \A i \in 1 .. k : bt[i] < bt[k + 1]
    BY <1>6
  <1>9. ASSUME NEW j \in 1 .. k + 1
        PROVE  StemsFrom(g[j], s[bt[j]]) /\ \A i \in 1 .. j - 1 : bt[i] < bt[j]
    <2>1. CASE j \in 1 .. k
      BY <1>1, <1>4, <1>6, <2>1, Zenon DEF k
    <2>2. CASE j = k + 1
      BY <1>4, <1>6, <1>8, <2>2, Zenon
    <2>. QED
      BY <1>6, <2>1, <2>2, Zenon
  <1>10. k + 1 \notin A /\ A \in SUBSET (1 .. k + 1) /\ k + 1 \in 1 .. k + 1
    BY <1>5 DEF k
  <1>11. B \in SUBSET (1 .. k + 1)
    BY <1>10
  <1>12. \A j \in 1 .. k + 1 : j \notin B => g[j] = s[bt[j]]
    <2>. SUFFICES ASSUME NEW j \in 1 .. k + 1, j \notin B PROVE g[j] = s[bt[j]]
      OBVIOUS
    <2>1. j \notin A /\ (j = k + 1 => cc = c)
      OBVIOUS
    <2>2. CASE j \in 1 .. k
      BY <1>2, <1>4, <1>6, <2>1, <2>2, Zenon DEF k
    <2>3. CASE j = k + 1
      <3>1. cc # c + 1
        BY <2>1, <2>3
      <3>. QED
        BY <1>4, <1>6, <2>3, <3>1, Zenon
    <2>. QED
      BY <1>6, <2>2, <2>3, Zenon
  <1>13. Cardinality(B) = Cardinality(A) + (cc - c)
    <2>1. CASE cc = c
      BY <1>3, <2>1
    <2>2. CASE cc = c + 1
      <3>1. B = A \cup {k + 1}
        BY <2>2
      <3>2. Cardinality(A \cup {k + 1}) = Cardinality(A) + 1
        BY <1>3, <1>10, FS_AddElement
      <3>3. cc - c = 1
        BY <2>2
      <3>. QED
        BY <3>1, <3>2, <3>3
    <2>. QED
      BY <2>1, <2>2
  <1>. HIDE DEF B
  <1>14. Cardinality(B) <= cc /\ (n + 1) - cc <= Cardinality(O) + ((k + 1) - Cardinality(B))
    <2>. DEFINE a == Cardinality(A)
                y == Cardinality(O)
                w == Cardinality(B)
    <2>1. a \in Nat /\ y \in Nat /\ k \in Nat /\ a <= c /\ n - c <= y + (k - a) /\ w = a + (cc - c)
      BY <1>2, <1>3, <1>13 DEF k
    <2>. HIDE DEF a, y, w
    <2>2. w <= cc /\ (n + 1) - cc <= y + ((k + 1) - w)
      BY <2>1
    <2>. QED
      BY <2>2 DEF y, w
  <1>15. O \in SUBSET (1 .. bb)
    BY <1>5
  <1>16. Traces(g, s, bb, cc, n + 1)
    <2>1. Len(g) = k + 1
      BY <1>4
    <2>2. bt \in [1 .. Len(g) -> 1 .. bb]
      BY <1>7, <2>1, Zenon
    <2>3. \A j \in 1 .. Len(g) : StemsFrom(g[j], s[bt[j]]) /\ \A i \in 1 .. j - 1 : bt[i] < bt[j]
      BY <1>9, <2>1, Zenon
    <2>4. B \in SUBSET (1 .. Len(g)) /\ \A j \in 1 .. Len(g) : j \notin B => g[j] = s[bt[j]]
      BY <1>11, <1>12, <2>1, Zenon
    <2>5. (n + 1) - cc <= Cardinality(O) + (Len(g) - Cardinality(B))
      BY <1>14, <2>1, Zenon
    <2>. QED
      BY <1>2, <1>14, <1>15, <2>2, <2>3, <2>4, <2>5, TracesBy, Zenon
  <1>. QED
    BY <1>4, <1>16 DEF g

\* The counts that the trace is about.
LEMMA CountTypes ==
    ASSUME StreamTypes
    PROVE  /\ handled \in Seq(Hits) /\ broken \in Nat /\ Begun \in Nat
           /\ req_cnt - splits + Cut \in Int /\ req_cnt - splits + 1 \in Int
           /\ Cut = 1 => req_cnt - splits + Cut = req_cnt - splits + 1
           /\ Cut = 0 => req_cnt - splits + 1 = (req_cnt - splits + Cut) + 1 /\ Begun = Done
  <1>1. Cut \in {0, 1} /\ Begun \in Nat /\ Done \in Nat
    BY BegunTypes
  <1>2. req_cnt \in Nat /\ splits \in Nat /\ handled \in Seq(Hits) /\ broken \in Nat
    BY DEF StreamTypes
  <1>. QED
    BY <1>1, <1>2 DEF Begun

\* A line that is parsed as the first item adds it to what is handled or to the requests
\* for another path, or is a remainder.
LEMMA ServedHolds ==
    ASSUME StreamTypes, WireHolds, OriginsHold, wire # <<>>,
           NEW s, Parse(s) = First, Serve(s), broken' = broken,
           Begun' \in Nat, Begun <= Begun', Done + 1 <= Begun',
           req_cnt' - splits' + Cut' = req_cnt - splits + 1
    PROVE  handled' \in Seq(Hits) /\ OriginsHold'
  <1>. DEFINE n == req_cnt - splits + Cut
              r == sent[Done + 1]
  <1>1. /\ handled \in Seq(Hits) /\ broken \in Nat /\ Begun \in Nat /\ n \in Int
        /\ Cut = 1 => n = req_cnt - splits + 1
        /\ Cut = 0 => req_cnt - splits + 1 = n + 1 /\ Begun = Done
    BY CountTypes, Zenon
  <1>2. Traces(handled, sent, Begun, broken, n)
    BY Zenon DEF OriginsHold
  <1>. HIDE DEF n
  <1>3. r \in Requests /\ Cut \in {0, 1}
    <2>1. 1 \in 1 .. Len(wire)
      <3>1. wire \in Seq(Item)
        BY DEF StreamTypes
      <3>. QED
        BY <3>1
    <2>. QED
      BY <2>1, WireTypes, BegunTypes, Zenon
  <1>4. sent' = sent /\ handled' = handled \o CollectsIn(s)
    BY DEF Serve, ServeAs
  <1>5. Traces(handled', sent, Begun', broken, req_cnt - splits + 1) => OriginsHold'
    BY <1>4, Zenon DEF OriginsHold
  <1>6. CASE Cut = 1
    <2>1. CollectsIn(s) = <<>>
      BY <1>6, Zenon DEF CollectsIn, First
    <2>2. handled' = handled
      BY <1>1, <1>4, <2>1
    <2>3. Traces(handled, sent, Begun', broken, n)
      <3>1. broken <= broken /\ n - broken <= n - broken
        BY <1>1
      <3>. QED
        BY <1>1, <1>2, <3>1, TracesMore, Zenon
    <2>. QED
      BY <1>1, <1>5, <1>6, <2>2, <2>3, Zenon
  <1>7. CASE Cut = 0 /\ r = Other
    <2>1. CollectsIn(s) = <<>>
      BY <1>7 DEF CollectsIn, First
    <2>2. handled' = handled
      BY <1>1, <1>4, <2>1
    <2>3. Traces(handled, sent, Begun', broken, n + 1)
      <3>1. Begun + 1 <= Begun' /\ sent[Begun + 1] = Other
        BY <1>1, <1>7, Zenon
      <3>. QED
        BY <1>1, <1>2, <3>1, TracesOther, Zenon
    <2>. QED
      BY <1>1, <1>5, <1>7, <2>2, <2>3, Zenon
  <1>8. CASE Cut = 0 /\ r # Other
    <2>1. r \in Hits /\ r.id # 0 /\ StemsFrom(r, r)
      BY <1>3, <1>8, StemsSelf, Zenon
    <2>2. CollectsIn(s) = <<r>>
      <3>1. Cut # 1
        BY <1>8
      <3>. QED
        BY <1>8, <2>1, <3>1, Zenon DEF CollectsIn, First
    <2>. HIDE DEF r
    <2>3. handled' = Append(handled, r)
      BY <1>1, <1>4, <2>1, <2>2
    <2>4. Append(handled, r) \in Seq(Hits) /\ Traces(Append(handled, r), sent, Begun', broken, n + 1)
      <3>1. Begun + 1 <= Begun' /\ sent[Begun + 1] = r
        BY <1>1, <1>8, Zenon DEF r
      <3>. QED
        BY <1>1, <1>2, <2>1, <3>1, TracesStem, Zenon
    <2>. QED
      BY <1>1, <1>5, <1>8, <2>3, <2>4, Zenon
  <1>. QED
    BY <1>3, <1>6, <1>7, <1>8, Zenon

\* A line that is the beginning of a request adds nothing, or what stems from it.
LEMMA BrokenHolds ==
    ASSUME StreamTypes, OriginsHold, Cut = 0, NEW s, Serve(s), broken' = broken + 1,
           \/ CollectsIn(s) = <<>>
           \/ \E h \in Hits : CollectsIn(s) = <<h>> /\ StemsFrom(h, sent[Done + 1]),
           Begun' \in Nat, Begun <= Begun', Done + 1 <= Begun',
           req_cnt' - splits' + Cut' = req_cnt - splits + 1
    PROVE  handled' \in Seq(Hits) /\ OriginsHold'
  <1>. DEFINE n == req_cnt - splits + Cut
  <1>1. /\ handled \in Seq(Hits) /\ broken \in Nat /\ Begun \in Nat /\ n \in Int
        /\ req_cnt - splits + 1 = n + 1 /\ Begun = Done
    BY CountTypes, Zenon
  <1>2. Traces(handled, sent, Begun, broken, n)
    BY Zenon DEF OriginsHold
  <1>. HIDE DEF n
  <1>3. /\ broken + 1 \in Nat /\ broken <= broken + 1 /\ n + 1 \in Int
        /\ (n + 1) - (broken + 1) <= n - broken
    BY <1>1
  <1>4. sent' = sent /\ handled' = handled \o CollectsIn(s)
    BY DEF Serve, ServeAs
  <1>5. Traces(handled', sent, Begun', broken + 1, n + 1) => OriginsHold'
    BY <1>1, <1>4, Zenon DEF OriginsHold
  <1>6. CASE CollectsIn(s) = <<>>
    <2>1. handled' = handled
      BY <1>1, <1>4, <1>6
    <2>2. Traces(handled, sent, Begun', broken + 1, n + 1)
      BY <1>1, <1>2, <1>3, TracesMore, Zenon
    <2>. QED
      BY <1>1, <1>5, <2>1, <2>2, Zenon
  <1>7. ASSUME NEW h \in Hits, CollectsIn(s) = <<h>>, StemsFrom(h, sent[Done + 1])
        PROVE  handled' \in Seq(Hits) /\ OriginsHold'
    <2>1. handled' = Append(handled, h)
      BY <1>1, <1>4, <1>7
    <2>2. Append(handled, h) \in Seq(Hits) /\ Traces(Append(handled, h), sent, Begun', broken + 1, n + 1)
      <3>1. Begun + 1 <= Begun' /\ StemsFrom(h, sent[Begun + 1])
        BY <1>1, <1>7, Zenon
      <3>. QED
        BY <1>1, <1>2, <1>3, <3>1, TracesStem, Zenon
    <2>. QED
      BY <1>5, <2>1, <2>2, Zenon
  <1>. QED
    BY <1>6, <1>7, Zenon

\* The inductive invariant holds before anything is sent.
LEMMA InvInit == Init => StreamInv
  <1>. SUFFICES ASSUME Init PROVE StreamInv
    OBVIOUS
  <1>1. /\ wire = <<>> /\ sent = <<>> /\ handled = <<>>
        /\ req_cnt = 0 /\ splits = 0 /\ broken = 0
    BY DEF Init
  <1>2. StreamTypes /\ WireHolds
    BY <1>1 DEF StreamTypes, WireHolds
  <1>3. Done = 0 /\ Cut = 0 /\ Begun = 0
    BY <1>1 DEF Done, Cut, Begun
  <1>4. OriginsHold
    <2>1. [j \in 1 .. 0 |-> 0] \in [1 .. 0 -> 1 .. 0]
      OBVIOUS
    <2>2. Len(<<>>) = 0 /\ 1 .. 0 = {}
      OBVIOUS
    <2>3. {} \in SUBSET (1 .. 0) /\ Cardinality({}) = 0
      BY FS_EmptySet
    <2>4. Cardinality({}) <= 0 /\ 0 - 0 <= Cardinality({}) + (0 - Cardinality({})) /\ 0 - 0 + 0 = 0
      BY <2>3
    <2>5. Traces(<<>>, <<>>, 0, 0, 0)
      BY <2>1, <2>2, <2>3, <2>4, Zenon DEF Traces
    <2>. QED
      BY <1>1, <1>3, <2>4, <2>5, Zenon DEF OriginsHold
  <1>. QED
    BY <1>2, <1>4 DEF StreamInv

\* The inductive invariant implies the type invariant.
LEMMA InvTypeOK == StreamInv => TypeOK
  <1>. SUFFICES ASSUME StreamTypes, WireHolds PROVE TypeOK
    BY DEF StreamInv
  <1>0. DOMAIN wire = 1 .. Len(wire)
    BY LenProperties DEF StreamTypes
  <1>1. ASSUME NEW j \in DOMAIN wire
        PROVE  wire[j].cells # <<>> /\ wire[j].line \in 0 .. Len(wire[j].cells)
    <2>0. j \in 1 .. Len(wire)
      BY <1>0
    <2>1. wire[j].cells \in Seq(Cells) /\ sent[Done + j] \in Requests
      BY <2>0, WireTypes, Zenon
    <2>2. CASE Whole(wire[j], sent[Done + j])
      <3>1. wire[j].cells # <<>> /\ wire[j].line \in 2 .. Len(wire[j].cells)
        BY <2>1, <2>2, WholeStarts, Zenon
      <3>. QED
        BY <3>1
    <2>3. CASE Rest(wire[j])
      <3>1. wire[j].cells # <<>> /\ wire[j].line = 0
        BY <2>3, RestTypes, Zenon
      <3>2. Len(wire[j].cells) \in Nat
        BY <2>1, LenProperties, Zenon
      <3>. QED
        BY <3>1, <3>2
    <2>. QED
      BY <2>0, <2>2, <2>3, WireTypes, Zenon
  <1>2. ToSet(sent) \subseteq Requests /\ ToSet(handled) \subseteq Hits
    BY DEF StreamTypes, ToSet
  <1>3. req_cnt \in Nat /\ splits \in 0 .. req_cnt /\ broken \in 0 .. splits
    BY DEF StreamTypes
  <1>. QED
    BY <1>1, <1>2, <1>3 DEF TypeOK, Hits

\* The inductive invariant gives the origins of what is handled.
LEMMA InvOrigins ==
    ASSUME StreamInv
    PROVE  \E at \in Origins : \E O \in SUBSET (1 .. Begun) :
              /\ Altered(at) \in SUBSET (1 .. Len(handled))
              /\ Cardinality(Altered(at)) <= broken
              /\ \A d \in O : sent[d] = Other
              /\ req_cnt - splits + Cut - broken
                   <= Cardinality(O) + (Len(handled) - Cardinality(Altered(at)))
  <1>0. StreamTypes /\ OriginsHold
    BY DEF StreamInv
  <1>1. DOMAIN handled = 1 .. Len(handled) /\ DOMAIN sent = 1 .. Len(sent)
    BY <1>0, LenProperties DEF StreamTypes
  <1>2. 1 .. Begun \subseteq DOMAIN sent
    BY <1>0, <1>1, BegunTypes
  <1>. DEFINE n == req_cnt - splits + Cut
  <1>3. handled \in Seq(Hits) /\ broken \in Nat /\ Begun \in Nat /\ n \in Int
    BY <1>0, CountTypes, Zenon
  <1>4. PICK at \in [1 .. Len(handled) -> 1 .. Begun] :
          /\ \A j \in 1 .. Len(handled) : /\ StemsFrom(handled[j], sent[at[j]])
                                          /\ \A i \in 1 .. j - 1 : at[i] < at[j]
          /\ \E A \in SUBSET (1 .. Len(handled)), O \in SUBSET (1 .. Begun) :
                /\ \A j \in 1 .. Len(handled) : j \notin A => handled[j] = sent[at[j]]
                /\ \A d \in O : sent[d] = Other
                /\ Cardinality(A) <= broken
                /\ n - broken <= Cardinality(O) + (Len(handled) - Cardinality(A))
    BY <1>0, Zenon DEF OriginsHold, Traces
  <1>. HIDE DEF n
  <1>5. PICK A \in SUBSET (1 .. Len(handled)), O \in SUBSET (1 .. Begun) :
                /\ \A j \in 1 .. Len(handled) : j \notin A => handled[j] = sent[at[j]]
                /\ \A d \in O : sent[d] = Other
                /\ Cardinality(A) <= broken
                /\ n - broken <= Cardinality(O) + (Len(handled) - Cardinality(A))
    BY <1>4, Zenon
  <1>6. at \in [DOMAIN handled -> DOMAIN sent]
    BY <1>1, <1>2, <1>4
  <1>7. at \in Origins
    BY <1>1, <1>4, <1>6, Zenon DEF Origins
  <1>. DEFINE B == Altered(at)
  <1>8. B \subseteq A /\ B \in SUBSET (1 .. Len(handled))
    BY <1>1, <1>5 DEF Altered
  <1>. HIDE DEF B
  <1>9. /\ IsFiniteSet(A) /\ Cardinality(A) \in Nat /\ Cardinality(O) \in Nat
        /\ Len(handled) \in Nat /\ Cardinality(B) \in Nat
    BY <1>3, <1>8, TracesParts, Zenon
  <1>10. Cardinality(B) <= Cardinality(A)
    BY <1>8, <1>9, FS_Subset
  <1>11. Cardinality(B) <= broken /\ n - broken <= Cardinality(O) + (Len(handled) - Cardinality(B))
    <2>. DEFINE a == Cardinality(A)
                y == Cardinality(O)
                w == Cardinality(B)
                l == Len(handled)
    <2>1. /\ a \in Nat /\ y \in Nat /\ w \in Nat /\ l \in Nat /\ w <= a
          /\ a <= broken /\ n - broken <= y + (l - a)
      BY <1>5, <1>9, <1>10
    <2>. HIDE DEF a, y, w, l
    <2>2. w <= broken /\ n - broken <= y + (l - w)
      BY <1>3, <2>1
    <2>. QED
      BY <2>2 DEF a, y, w, l
  <1>12. n - broken = req_cnt - splits + Cut - broken
    BY <1>0, BegunTypes DEF n, StreamTypes
  <1>13. req_cnt - splits + Cut - broken <= Cardinality(O) + (Len(handled) - Cardinality(B))
    BY <1>11, <1>12, Zenon
  <1>. QED
    BY <1>5, <1>7, <1>8, <1>11, <1>13, Zenon DEF B

\* The inductive invariant implies that what is handled stems from requests sent.
LEMMA InvHandled == StreamInv => HandledStemFromSent
  BY InvOrigins, Zenon DEF HandledStemFromSent

\* With the count of the answers it bounds the requests that are lost.
LEMMA InvLosses == StreamInv /\ CountKeepsUp => LossesAreCuts
  <1>. SUFFICES ASSUME StreamInv, CountKeepsUp, wire = <<>>
                PROVE  \E at \in Origins :
                          Cardinality(Collects) - (Len(handled) - Cardinality(Altered(at)))
                             <= splits + broken
    BY Zenon DEF LossesAreCuts
  <1>0. StreamTypes
    BY DEF StreamInv
  <1>1. PICK at \in Origins : \E O \in SUBSET (1 .. Begun) :
              /\ Altered(at) \in SUBSET (1 .. Len(handled))
              /\ \A d \in O : sent[d] = Other
              /\ req_cnt - splits + Cut - broken
                   <= Cardinality(O) + (Len(handled) - Cardinality(Altered(at)))
    BY InvOrigins, Zenon
  <1>2. PICK O \in SUBSET (1 .. Begun) :
              /\ Altered(at) \in SUBSET (1 .. Len(handled))
              /\ \A d \in O : sent[d] = Other
              /\ req_cnt - splits + Cut - broken
                   <= Cardinality(O) + (Len(handled) - Cardinality(Altered(at)))
    BY <1>1, Zenon
  <1>. DEFINE B == Altered(at)
  <1>3. DOMAIN sent = 1 .. Len(sent) /\ Len(sent) \in Nat
    BY <1>0, LenProperties DEF StreamTypes
  <1>4. Cut = 0 /\ 1 .. Begun \subseteq 1 .. Len(sent)
    BY <1>0, <1>3, BegunTypes
  <1>5. req_cnt \in Nat /\ splits \in Nat /\ broken \in Nat /\ req_cnt >= Len(sent)
    BY <1>0, <1>3 DEF StreamTypes, CountKeepsUp
  <1>6. handled \in Seq(Hits) /\ Begun \in Nat
    BY <1>0, CountTypes, Zenon
  <1>. HIDE DEF B
  <1>7. Cardinality(O) \in Nat /\ Cardinality(B) \in Nat /\ Len(handled) \in Nat
    BY <1>2, <1>6, TracesParts, Zenon DEF B
  <1>8. Collects \subseteq 1 .. Len(sent) /\ O \subseteq 1 .. Len(sent) /\ O \cap Collects = {}
    BY <1>2, <1>3, <1>4 DEF Collects
  <1>9. IsFiniteSet(1 .. Len(sent)) /\ Cardinality(1 .. Len(sent)) = Len(sent)
    BY <1>3, CountTo
  <1>10. IsFiniteSet(O) /\ IsFiniteSet(Collects) /\ Cardinality(Collects) \in Nat
    BY <1>8, <1>9, FS_Subset, FS_CardinalityType
  <1>11. Cardinality(O) + Cardinality(Collects) <= Len(sent)
    <2>1. Cardinality(O \cup Collects)
            = Cardinality(O) + Cardinality(Collects) - Cardinality(O \cap Collects)
      BY <1>10, FS_Union
    <2>2. Cardinality(O \cap Collects) = 0
      BY <1>8, FS_EmptySet
    <2>3. Cardinality(O \cup Collects) <= Len(sent)
      <3>1. O \cup Collects \in SUBSET (1 .. Len(sent))
        BY <1>8
      <3>. QED
        BY <1>9, <3>1, FS_Subset
    <2>. QED
      BY <1>7, <1>10, <2>1, <2>2, <2>3
  <1>12. Cardinality(Collects) - (Len(handled) - Cardinality(B)) <= splits + broken
    <2>. DEFINE y == Cardinality(O)
                w == Cardinality(B)
                l == Len(handled)
                q == Cardinality(Collects)
                t == Len(sent)
    <2>1. /\ y \in Nat /\ w \in Nat /\ l \in Nat /\ q \in Nat /\ t \in Nat
          /\ y + q <= t /\ req_cnt >= t
      BY <1>3, <1>5, <1>7, <1>10, <1>11
    <2>2. req_cnt - splits + 0 - broken <= y + (l - w)
      BY <1>2, <1>4, Zenon DEF B
    <2>. HIDE DEF y, w, l, q, t
    <2>3. q - (l - w) <= splits + broken
      BY <1>5, <2>1, <2>2
    <2>. QED
      BY <2>3 DEF w, l, q
  <1>. QED
    BY <1>12, Zenon DEF B

-----------------------------------------------------------------------------
(***************************************************************************)
(* Its steps.                                                              *)
(***************************************************************************)

\* The wire after its first k items.
LEMMA WireSuffix ==
    ASSUME StreamTypes, NEW k \in 0 .. Len(wire)
    PROVE  /\ From(wire, k + 1) \in Seq(Item) /\ Len(From(wire, k + 1)) = Len(wire) - k
           /\ \A j \in 1 .. Len(wire) - k : From(wire, k + 1)[j] = wire[k + j]
  <1>1. wire \in Seq(Item)
    BY DEF StreamTypes
  <1>. QED
    BY <1>1 DEF From

\* Sending a request keeps the inductive invariant.
LEMMA SendHolds ==
    ASSUME StreamInv, NEW r \in Requests, NEW x \in Tails, Send(r, x)
    PROVE  StreamInv'
  <1>. DEFINE e == [cells |-> Encode(r) \o x, line |-> Len(Encode(r))]
  <1>0. StreamTypes /\ WireHolds /\ OriginsHold
    BY DEF StreamInv
  <1>1. Whole(e, r)
    BY DEF Whole
  <1>2. e \in Item
    <2>1. Encode(r) \in Seq(Cells) /\ x \in Seq(Cells)
      BY EncodeTypes, TailTypes, Zenon
    <2>2. Encode(r) \o x \in Seq(Cells) /\ Len(Encode(r)) \in Nat
      BY <2>1, Joined, Zenon
    <2>. QED
      BY <2>2 DEF Item
  <1>3. e.line # 0
    <2>1. e.line \in 2 .. Len(e.cells)
      BY <1>1, WholeStarts, Zenon
    <2>. HIDE DEF e
    <2>. QED
      BY <2>1
  <1>4. wire' = Append(wire, e) /\ sent' = Append(sent, r) /\ UNCHANGED <<req_cnt, handled, splits, broken>>
    BY DEF Send
  <1>. HIDE DEF e
  <1>5. wire \in Seq(Item) /\ sent \in Seq(Requests)
    BY <1>0 DEF StreamTypes
  <1>6. /\ wire' \in Seq(Item) /\ Len(wire') = Len(wire) + 1 /\ wire' # <<>>
        /\ \A j \in 1 .. Len(wire) : wire'[j] = wire[j]
        /\ wire'[Len(wire) + 1] = e
    BY <1>2, <1>4, <1>5
  <1>7. /\ sent' \in Seq(Requests) /\ Len(sent') = Len(sent) + 1
        /\ \A j \in 1 .. Len(sent) : sent'[j] = sent[j]
        /\ sent'[Len(sent) + 1] = r
    BY <1>4, <1>5
  <1>8. Len(wire) \in Nat /\ Len(sent) \in Nat /\ Done \in Nat /\ Done + Len(wire) = Len(sent)
    BY <1>0, BegunTypes
  <1>9. Done' = Done
    BY <1>6, <1>7, <1>8 DEF Done
  <1>10. Cut' = Cut
    <2>1. CASE wire = <<>>
      <3>1. wire'[1] = e
        BY <1>6, <2>1
      <3>. QED
        BY <1>3, <2>1, <3>1 DEF Cut
    <2>2. CASE wire # <<>>
      <3>1. wire'[1] = wire[1]
        BY <1>5, <1>6, <2>2
      <3>. QED
        BY <1>6, <2>2, <3>1 DEF Cut
    <2>. QED
      BY <2>1, <2>2
  <1>11. Begun' = Begun /\ Begun \in 0 .. Len(sent)
    BY <1>0, <1>9, <1>10, BegunTypes DEF Begun
  <1>12. StreamTypes'
    BY <1>0, <1>4, <1>6, <1>7, <1>8 DEF StreamTypes
  <1>13. WireHolds'
    <2>. SUFFICES ASSUME NEW j \in 1 .. Len(wire')
                  PROVE  (Whole(wire[j], sent[Done + j]) \/ (j = 1 /\ Rest(wire[1])))'
      BY DEF WireHolds
    <2>1. CASE j = Len(wire) + 1
      <3>1. wire'[j] = e /\ sent'[Done' + j] = r
        <4>1. Done' + j = Len(sent) + 1
          BY <1>8, <1>9, <2>1
        <4>. QED
          BY <1>6, <1>7, <2>1, <4>1, Zenon
      <3>. QED
        BY <1>1, <3>1 DEF Whole
    <2>2. CASE j # Len(wire) + 1
      <3>1. j \in 1 .. Len(wire) /\ Done + j \in 1 .. Len(sent)
        BY <1>6, <1>8, <2>2
      <3>2. wire'[j] = wire[j] /\ sent'[Done' + j] = sent[Done + j]
        BY <1>6, <1>7, <1>9, <3>1
      <3>3. Whole(wire[j], sent[Done + j]) \/ (j = 1 /\ Rest(wire[1]))
        BY <1>0, <3>1 DEF WireHolds
      <3>4. CASE Whole(wire[j], sent[Done + j])
        BY <3>2, <3>4 DEF Whole
      <3>5. CASE j = 1 /\ Rest(wire[1])
        BY <3>2, <3>5 DEF Rest
      <3>. QED
        BY <3>3, <3>4, <3>5
    <2>. QED
      BY <2>1, <2>2
  <1>14. OriginsHold'
    <2>. DEFINE n == req_cnt - splits + Cut
    <2>1. Traces(handled, sent, Begun, broken, n)
      BY <1>0, Zenon DEF OriginsHold
    <2>2. /\ handled \in Seq(Hits) /\ broken \in Nat /\ Begun \in Nat /\ n \in Int
      BY <1>0, CountTypes, Zenon
    <2>3. \A d \in 1 .. Begun : sent'[d] = sent[d]
      BY <1>7, <1>8, <1>11
    <2>. HIDE DEF n
    <2>4. Begun <= Begun /\ broken <= broken /\ n - broken <= n - broken
      BY <2>2
    <2>5. Traces(handled, sent', Begun, broken, n)
      BY <2>1, <2>2, <2>3, <2>4, TracesMore, Zenon
    <2>6. Traces(handled', sent', Begun', broken', n)
      BY <1>4, <1>11, <2>5, Zenon
    <2>7. req_cnt' - splits' + Cut' = n
      BY <1>4, <1>10 DEF n
    <2>. QED
      BY <2>6, <2>7, Zenon DEF OriginsHold
  <1>. QED
    BY <1>12, <1>13, <1>14 DEF StreamInv

\* The requests received to the end when k items leave the wire.
LEMMA DoneAfter ==
    ASSUME StreamTypes, NEW k \in Nat
    PROVE  Len(sent) - (Len(wire) - k) = Done + k
  <1>. DEFINE w == Len(wire)
              s == Len(sent)
  <1>1. w \in Nat /\ s \in Nat
    BY BegunTypes
  <1>2. Done = s - w
    BY DEF Done
  <1>. HIDE DEF w, s
  <1>3. s - (w - k) = (s - w) + k
    BY <1>1
  <1>. QED
    BY <1>2, <1>3 DEF w, s

\* A call of recv that ends between two requests keeps the inductive invariant.
LEMMA WholeHolds ==
    ASSUME StreamInv, NEW k \in 1 .. Len(wire), RecvWhole(k)
    PROVE  StreamInv'
  <1>0. StreamTypes /\ WireHolds /\ OriginsHold
    BY DEF StreamInv
  <1>1. /\ wire' = From(wire, k + 1) /\ splits' = splits /\ broken' = broken
        /\ Serve(Received(k))
        /\ req_cnt' = req_cnt + 1 /\ sent' = sent
    BY DEF RecvWhole, Serve, ServeAs
  <1>2. /\ Len(wire) \in Nat /\ Len(sent) \in Nat /\ Done \in Nat /\ Done + Len(wire) = Len(sent)
        /\ Begun = Done + Cut /\ Cut \in {0, 1}
    BY <1>0, BegunTypes DEF Begun
  <1>w. k \in 0 .. Len(wire) /\ k \in Nat \ {0} /\ wire # <<>>
    <2>1. wire \in Seq(Item)
      BY <1>0 DEF StreamTypes
    <2>. QED
      BY <1>2, <2>1
  <1>3. /\ wire' \in Seq(Item) /\ Len(wire') = Len(wire) - k
        /\ \A j \in 1 .. Len(wire') : wire'[j] = wire[k + j]
    BY <1>0, <1>1, <1>w, WireSuffix
  <1>4. Done' = Done + k
    <2>1. Done' = Len(sent) - Len(wire')
      BY <1>1 DEF Done
    <2>2. Len(wire') = Len(wire) - k /\ k \in Nat
      BY <1>3, <1>w
    <2>3. Done' = Len(sent) - (Len(wire) - k)
      BY <2>1, <2>2
    <2>4. Len(sent) - (Len(wire) - k) = Done + k
      BY <1>0, <2>2, DoneAfter, Zenon
    <2>. QED
      BY <2>3, <2>4
  <1>5. \A j \in 1 .. Len(wire') : Whole(wire'[j], sent'[Done' + j])
    <2>. SUFFICES ASSUME NEW j \in 1 .. Len(wire') PROVE Whole(wire'[j], sent'[Done' + j])
      OBVIOUS
    <2>1. k + j \in 1 .. Len(wire) /\ k + j # 1 /\ Done' + j = Done + (k + j)
      BY <1>2, <1>3, <1>4, <1>w
    <2>2. Whole(wire[k + j], sent[Done + (k + j)])
      BY <1>0, <2>1, WireTypes, Zenon
    <2>. QED
      BY <1>1, <1>3, <2>1, <2>2, Zenon
  <1>6. Cut' = 0
    <2>. SUFFICES ASSUME wire' # <<>> PROVE wire'[1].line # 0
      BY DEF Cut
    <2>1. 1 \in 1 .. Len(wire') /\ k + 1 \in 1 .. Len(wire)
      BY <1>2, <1>3, <1>w
    <2>2. sent[Done + (k + 1)] \in Requests
      BY <1>0, <2>1, WireTypes, Zenon
    <2>3. sent'[Done' + 1] \in Requests
      <3>1. Done' + 1 = Done + (k + 1)
        BY <1>2, <1>4, <1>w
      <3>. QED
        BY <1>1, <2>2, <3>1
    <2>4. wire'[1].line \in 2 .. Len(wire'[1].cells)
      BY <1>5, <2>1, <2>3, WholeStarts, Zenon
    <2>. QED
      BY <2>4
  <1>7. Begun' = Done + k
    BY <1>2, <1>4, <1>6, <1>w DEF Begun
  <1>8. handled' \in Seq(Hits) /\ OriginsHold'
    <2>1. Parse(Received(k)) = First
      BY <1>0, WholeLine, Zenon
    <2>2. Begun' \in Nat /\ Begun <= Begun' /\ Done + 1 <= Begun'
      BY <1>2, <1>7, <1>w
    <2>3. req_cnt' - splits' + Cut' = req_cnt - splits + 1
      BY <1>0, <1>1, <1>6 DEF StreamTypes
    <2>. QED
      BY <1>0, <1>1, <1>w, <2>1, <2>2, <2>3, ServedHolds, Zenon
  <1>9. StreamTypes'
    <2>1. /\ req_cnt' \in Nat /\ splits' \in Nat /\ splits' <= req_cnt' /\ sent' \in Seq(Requests)
          /\ broken' \in Nat /\ broken' <= splits'
      BY <1>0, <1>1 DEF StreamTypes
    <2>2. Len(wire') <= Len(sent')
      BY <1>1, <1>2, <1>3, <1>w
    <2>. QED
      BY <1>3, <1>8, <2>1, <2>2 DEF StreamTypes
  <1>10. WireHolds'
    BY <1>5 DEF WireHolds
  <1>. QED
    BY <1>8, <1>9, <1>10 DEF StreamInv

\* What recv leaves of a request, or of a remainder, is a remainder.
LEMMA RestOf ==
    ASSUME NEW r \in Requests, NEW e, Whole(e, r) \/ Rest(e), NEW m \in 1 .. Len(e.cells) - 1
    PROVE  Rest([cells |-> From(e.cells, m + 1), line |-> 0])
  <1>1. CASE Whole(e, r)
    <2>1. PICK x \in Tails : e = [cells |-> Encode(r) \o x, line |-> Len(Encode(r))]
      BY <1>1, Zenon DEF Whole
    <2>. DEFINE s == Encode(r) \o x
    <2>2. s \in Seq(Cells) /\ e.cells = s
      BY <2>1, SentTypes
    <2>. HIDE DEF s
    <2>3. m + 1 \in 2 .. Len(s)
      BY <2>2
    <2>. QED
      BY <2>2, <2>3, Zenon DEF Rest, s
  <1>2. CASE Rest(e)
    <2>1. PICK q \in Requests, x \in Tails : \E i \in 2 .. Len(Encode(q) \o x) :
              LET s == Encode(q) \o x
              IN  /\ s \in Seq(Cells) /\ e.cells = SubSeq(s, i, Len(s))
                  /\ Len(e.cells) = Len(s) - i + 1
      BY <1>2, RestIs, Zenon
    <2>. DEFINE s == Encode(q) \o x
    <2>2. PICK i \in 2 .. Len(s) : /\ s \in Seq(Cells) /\ e.cells = SubSeq(s, i, Len(s))
                                   /\ Len(e.cells) = Len(s) - i + 1
      BY <2>1, Zenon
    <2>. HIDE DEF s
    <2>3. Len(s) \in Nat
      BY <2>2
    <2>4. /\ i \in 1 .. Len(s) /\ m \in 1 .. Len(s) - i + 1
          /\ i + m \in 2 .. Len(s)
      BY <2>2, <2>3
    <2>5. From(e.cells, m + 1) = From(s, i + m)
      BY <2>2, <2>4, PieceOf, Zenon
    <2>. QED
      BY <2>4, <2>5, Zenon DEF Rest, s
  <1>. QED
    BY <1>1, <1>2

\* A call of recv that ends inside a request keeps the inductive invariant.
LEMMA PartHolds ==
    ASSUME StreamInv, NEW k \in 0 .. Len(wire) - 1,
           NEW m \in 1 .. Len(wire[k + 1].cells) - 1, RecvPart(k, m)
    PROVE  StreamInv'
  <1>. DEFINE next == wire[k + 1]
              e == [cells |-> From(next.cells, m + 1), line |-> 0]
              line == Received(k) \o SubSeq(next.cells, 1, m)
  <1>0. StreamTypes /\ WireHolds /\ OriginsHold
    BY DEF StreamInv
  <1>1. /\ wire' = <<e>> \o From(wire, k + 2) /\ splits' = splits + 1
        /\ Serve(line) /\ req_cnt' = req_cnt + 1 /\ sent' = sent
        /\ broken' = broken + IF k = 0 /\ m < next.line THEN 1 ELSE 0
    BY DEF RecvPart, Serve, ServeAs
  <1>2. /\ Len(wire) \in Nat /\ Len(sent) \in Nat /\ Done \in Nat /\ Done + Len(wire) = Len(sent)
        /\ Begun = Done + Cut /\ Cut \in {0, 1}
    BY <1>0, BegunTypes DEF Begun
  <1>w. k + 1 \in 0 .. Len(wire) /\ k \in Nat /\ k + 1 \in 1 .. Len(wire) /\ wire # <<>>
    <2>1. wire \in Seq(Item)
      BY <1>0 DEF StreamTypes
    <2>. QED
      BY <1>2, <2>1
  <1>e. Rest(e)
    <2>1. Whole(next, sent[Done + (k + 1)]) \/ Rest(next)
      BY <1>0, <1>w, WireTypes, Zenon
    <2>2. sent[Done + (k + 1)] \in Requests
      BY <1>0, <1>w, WireTypes, Zenon
    <2>. QED
      BY <1>1, <2>1, <2>2, RestOf, Zenon
  <1>i. e \in Item
    <2>1. e.cells \in Seq(Cells)
      BY <1>e, RestTypes, Zenon
    <2>. QED
      BY <2>1 DEF Item
  <1>p. k # 0 \/ m >= next.line => Parse(line) = First
    BY <1>0, PartLine, Zenon
  <1>b. k = 0 /\ m < next.line =>
           /\ Cut = 0
           /\ \/ CollectsIn(line) = <<>>
              \/ \E h \in Hits : CollectsIn(line) = <<h>> /\ StemsFrom(h, sent[Done + 1])
    <2>. SUFFICES ASSUME k = 0, m < next.line
                  PROVE  /\ Cut = 0
                         /\ \/ CollectsIn(line) = <<>>
                            \/ \E h \in Hits : CollectsIn(line) = <<h>> /\ StemsFrom(h, sent[Done + 1])
      OBVIOUS
    <2>. HIDE DEF line
    <2>0. next = wire[1] /\ 1 \in 1 .. Len(wire)
      BY <1>w
    <2>. HIDE DEF next
    <2>r. sent[Done + 1] \in Requests
      BY <1>0, <2>0, WireTypes, Zenon
    <2>1. ~Rest(wire[1])
      <3>. SUFFICES ASSUME Rest(wire[1]) PROVE FALSE
        OBVIOUS
      <3>1. wire[1].line = 0
        BY RestTypes, Zenon
      <3>2. ~(m < 0)
        OBVIOUS
      <3>. QED
        BY <2>0, <3>1, <3>2, Zenon
    <2>2. Cut = 0 /\ Whole(wire[1], sent[Done + 1])
      BY <1>0, <1>w, <2>1, CutIff, Zenon
    <2>3. line = SubSeq(wire[1].cells, 1, m)
      <3>. DEFINE part == SubSeq(wire[1].cells, 1, m)
      <3>1. Received(k) = <<>>
        <4>1. \A f : f = [j \in 1 .. 0 |-> wire[j].cells] => f = <<>>
          OBVIOUS
        <4>2. Len(<<>>) = 0
          OBVIOUS
        <4>. QED
          BY <4>1, <4>2 DEF Received, FlattenSeq
      <3>2. part \in Seq(Cells)
        <4>1. wire[1].cells \in Seq(Cells)
          BY <1>0, <2>0, WireTypes, Zenon
        <4>2. m \in 1 .. Len(wire[1].cells)
          BY <2>0, <4>1 DEF next
        <4>. QED
          BY <4>1, <4>2
      <3>3. line = Received(k) \o part
        BY <2>0, Zenon DEF line
      <3>. HIDE DEF part
      <3>4. line = part
        BY <3>1, <3>2, <3>3
      <3>. QED
        BY <3>4 DEF part
    <2>. DEFINE r == sent[Done + 1]
                p == Encode(r)
    <2>4. PICK x \in Tails : wire[1] = [cells |-> p \o x, line |-> Len(p)]
      BY <2>2, Zenon DEF Whole
    <2>5. p \in Seq(Cells) /\ x \in Seq(Cells) /\ Len(p) \in Nat
      BY <2>r, EncodeTypes, TailTypes, LenProperties, Zenon
    <2>. HIDE DEF r, p
    <2>6. wire[1].cells = p \o x /\ next.line = Len(p)
      BY <2>0, <2>4
    <2>7. m \in 0 .. Len(p) /\ m \in 1 .. Len(p) - 1
      <3>1. m < Len(p)
        BY <2>6, Zenon
      <3>2. m \in Nat /\ m >= 1
        OBVIOUS
      <3>. QED
        BY <2>5, <3>1, <3>2
    <2>8. line = SubSeq(p, 1, m)
      <3>1. SubSeq(p \o x, 1, m) = SubSeq(p, 1, m)
        BY <2>5, <2>7, JoinedPart, Zenon
      <3>2. line = SubSeq(p \o x, 1, m)
        BY <2>3, <2>6
      <3>. QED
        BY <3>1, <3>2, Zenon
    <2>. QED
      BY <2>2, <2>7, <2>8, <2>r, CutHandled, Zenon DEF r, p
  <1>l. e.line = 0
    OBVIOUS
  <1>. HIDE DEF e, line, next
  <1>3. /\ wire' \in Seq(Item) /\ Len(wire') = Len(wire) - k /\ wire'[1] = e
        /\ \A j \in 2 .. Len(wire') : wire'[j] = wire[k + j]
    <2>. DEFINE s == From(wire, k + 2)
    <2>1. (k + 1) + 1 = k + 2
      BY <1>w
    <2>2. /\ s \in Seq(Item) /\ Len(s) = Len(wire) - (k + 1)
          /\ \A j \in 1 .. Len(wire) - (k + 1) : s[j] = wire[(k + 1) + j]
      BY <1>0, <1>w, <2>1, WireSuffix
    <2>. HIDE DEF s
    <2>3. wire' = <<e>> \o s
      BY <1>1 DEF s
    <2>4. wire' \in Seq(Item) /\ Len(wire') = Len(wire) - k /\ wire'[1] = e
      BY <1>2, <1>i, <1>w, <2>2, <2>3
    <2>5. ASSUME NEW j \in 2 .. Len(wire') PROVE wire'[j] = wire[k + j]
      <3>1. wire'[j] = s[j - 1]
        BY <1>2, <1>i, <1>w, <2>2, <2>3, <2>4
      <3>2. j - 1 \in 1 .. Len(wire) - (k + 1) /\ (k + 1) + (j - 1) = k + j
        BY <1>2, <1>w, <2>4
      <3>. QED
        BY <2>2, <3>1, <3>2
    <2>. QED
      BY <2>4, <2>5
  <1>4. Done' = Done + k
    <2>1. Done' = Len(sent) - Len(wire')
      BY <1>1 DEF Done
    <2>2. Len(wire') = Len(wire) - k /\ k \in Nat
      BY <1>3, <1>w
    <2>3. Done' = Len(sent) - (Len(wire) - k)
      BY <2>1, <2>2
    <2>4. Len(sent) - (Len(wire) - k) = Done + k
      BY <1>0, <2>2, DoneAfter, Zenon
    <2>. QED
      BY <2>3, <2>4
  <1>5. WireHolds'
    <2>. SUFFICES ASSUME NEW j \in 1 .. Len(wire')
                  PROVE  Whole(wire'[j], sent'[Done' + j]) \/ (j = 1 /\ Rest(wire'[1]))
      BY DEF WireHolds
    <2>1. CASE j = 1
      BY <1>3, <1>e, <2>1
    <2>2. CASE j # 1
      <3>1. j \in 2 .. Len(wire')
        BY <1>3, <2>2
      <3>2. k + j \in 1 .. Len(wire) /\ k + j # 1 /\ Done' + j = Done + (k + j)
        BY <1>2, <1>3, <1>4, <1>w, <3>1
      <3>3. Whole(wire[k + j], sent[Done + (k + j)])
        BY <1>0, <3>2, WireTypes, Zenon
      <3>. QED
        BY <1>1, <1>3, <3>1, <3>2, <3>3, Zenon
    <2>. QED
      BY <2>1, <2>2
  <1>6. Cut' = 1
    <2>1. Len(wire') >= 1 /\ wire' \in Seq(Item)
      BY <1>2, <1>3, <1>w
    <2>2. wire' # <<>>
      BY <2>1
    <2>. QED
      BY <1>3, <1>l, <2>2 DEF Cut
  <1>7. Begun' = Done + k + 1
    <2>1. Begun' = Done' + Cut'
      BY DEF Begun
    <2>. QED
      BY <1>4, <1>6, <2>1
  <1>8. handled' \in Seq(Hits) /\ OriginsHold'
    <2>1. Begun' \in Nat /\ Begun <= Begun' /\ Done + 1 <= Begun'
      BY <1>2, <1>7, <1>w
    <2>2. req_cnt' - splits' + Cut' = req_cnt - splits + 1
      <3>1. req_cnt \in Nat /\ splits \in Nat
        BY <1>0 DEF StreamTypes
      <3>. QED
        BY <1>1, <1>6, <3>1
    <2>3. CASE k = 0 /\ m < next.line
      <3>1. broken' = broken + 1
        BY <1>1, <2>3
      <3>. QED
        BY <1>0, <1>1, <1>b, <2>1, <2>2, <2>3, <3>1, BrokenHolds, Zenon
    <2>4. CASE ~(k = 0 /\ m < next.line)
      <3>1. broken' = broken
        <4>1. broken \in Nat
          BY <1>0 DEF StreamTypes
        <4>. QED
          BY <1>1, <2>4, <4>1
      <3>2. k # 0 \/ m >= next.line
        <4>1. next.line \in Nat
          BY <1>0, <1>w, WireTypes DEF next, Item
        <4>. QED
          BY <2>4, <4>1
      <3>. QED
        BY <1>0, <1>1, <1>p, <1>w, <2>1, <2>2, <3>1, <3>2, ServedHolds, Zenon
    <2>. QED
      BY <2>3, <2>4, Zenon
  <1>9. StreamTypes'
    <2>1. /\ req_cnt' \in Nat /\ splits' \in Nat /\ splits' <= req_cnt' /\ sent' \in Seq(Requests)
          /\ broken' \in Nat /\ broken' <= splits'
      BY <1>0, <1>1 DEF StreamTypes
    <2>2. Len(wire') <= Len(sent')
      BY <1>1, <1>2, <1>3, <1>w
    <2>. QED
      BY <1>3, <1>8, <2>1, <2>2 DEF StreamTypes
  <1>. QED
    BY <1>5, <1>8, <1>9 DEF StreamInv

\* The inductive invariant is kept by every step.
LEMMA StreamNext == StreamInv /\ [Next]_stream => StreamInv'
  <1>. SUFFICES ASSUME StreamInv, [Next]_stream PROVE StreamInv'
    OBVIOUS
  <1>1. CASE UNCHANGED stream
    <2>1. /\ wire' = wire /\ sent' = sent /\ req_cnt' = req_cnt
          /\ handled' = handled /\ splits' = splits /\ broken' = broken
      BY <1>1 DEF stream
    <2>2. StreamTypes' /\ Done' = Done /\ Cut' = Cut
      BY <2>1 DEF StreamInv, StreamTypes, Done, Cut
    <2>3. Begun' = Begun
      BY <2>2 DEF Begun
    <2>4. WireHolds'
      BY <2>1, <2>2 DEF StreamInv, WireHolds, Whole, Rest
    <2>5. OriginsHold'
      BY <2>1, <2>2, <2>3 DEF StreamInv, OriginsHold
    <2>. QED
      BY <2>2, <2>4, <2>5 DEF StreamInv
  <1>2. ASSUME NEW r \in Requests, NEW x \in Tails, Send(r, x) PROVE StreamInv'
    BY <1>2, SendHolds
  <1>3. ASSUME NEW k \in 1 .. Len(wire), RecvWhole(k) PROVE StreamInv'
    BY <1>3, WholeHolds
  <1>4. ASSUME NEW k \in 0 .. Len(wire) - 1,
               NEW m \in 1 .. Len(wire[k + 1].cells) - 1, RecvPart(k, m)
        PROVE  StreamInv'
    BY <1>4, PartHolds
  <1>. QED
    BY <1>1, <1>2, <1>3, <1>4, Zenon DEF Next, Quiet

-----------------------------------------------------------------------------
(***************************************************************************)
(* What follows from it.                                                   *)
(***************************************************************************)

\* Wherever recv ends, what is handled is for a user that a client may name and a row
\* above 0: a path cut in its id gives a row, and one cut before it gives none.
THEOREM TypesHold == Spec => []TypeOK
  BY InvInit, StreamNext, InvTypeOK, PTL DEF Spec

\* Wherever recv ends, for any user ids, ids, tails and number of requests, what
\* func_http handles stems from requests that were sent, none twice and none out of order,
\* and all of it is as it was sent but for one request at most for each broken path.
THEOREM HandledHold == Spec => []HandledStemFromSent
  BY InvInit, StreamNext, InvHandled, PTL DEF Spec

\* handle_request reads from a request line the user and the row that the client wrote
\* into it: the parsing is the inverse of the encoding.
THEOREM RequestParsed ==
    ASSUME NEW r \in Requests, NEW x \in Tails
    PROVE  Parse(Encode(r) \o x) = r
  <1>1. x \in Seq(Cells) /\ x # <<>> /\ x[1] \in Blank
    <2>1. x # <<>> /\ x[1] \in Blank
      BY StreamAssumption, Zenon
    <2>. QED
      BY <2>1, TailTypes, Zenon
  <1>. QED
    BY <1>1, ParseWhole

\* For any user ids, ids, tails and number of requests: what is not handled as it was sent
\* is at most one request for each time recv ended inside one, and one more for each time
\* that was all of a path it returned.
THEOREM LossesHold == Spec => []LossesAreCuts
  BY InvInit, StreamNext, InvLosses, CountHolds, PTL DEF Spec

=============================================================================
