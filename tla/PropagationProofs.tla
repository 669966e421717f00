-------------------------- MODULE PropagationProofs --------------------------
(***************************************************************************)
(* What the callee reads of the headers the caller writes, for ids of any   *)
(* length and bytes, and baggage of any size, keys and values.  All of it    *)
(* is about functions defined by recursion along a text (Cut, FlattenSeq),   *)
(* so the module begins with induction over the numbers and over sequences,  *)
(* from the least element of a set of numbers, and with the equations of a   *)
(* function defined by recursion.                                            *)
(***************************************************************************)
EXTENDS Propagation, SequenceTheorems, WellFoundedInduction, TLAPS

-----------------------------------------------------------------------------
(* Induction and recursion over 0, 1, 2, ... *)

LEMMA NatInduct ==
  ASSUME NEW T, T \subseteq Nat, 0 \in T, \A n \in T : n + 1 \in T
  PROVE  T = Nat
<1> SUFFICES ASSUME Nat \ T # {} PROVE FALSE
  OBVIOUS
<1>1. PICK x \in Nat \ T : \A y \in Nat \ T : ~(<<y, x>> \in OpToRel(<, Nat))
  <2>1. Nat \ T \subseteq Nat
    OBVIOUS
  <2>2. QED
    BY <2>1, NatLessThanWellFounded, WFMin, Zenon
<1>2. x # 0 /\ x - 1 \in Nat /\ x - 1 < x /\ (x - 1) + 1 = x
  <2>1. x \in Nat /\ x # 0
    OBVIOUS
  <2>2. QED
    BY <2>1
<1>3. <<x - 1, x>> \in OpToRel(<, Nat)
  BY <1>1, <1>2 DEF OpToRel
<1>4. x - 1 \in T
  BY <1>1, <1>2, <1>3
<1>5. QED
  BY <1>1, <1>2, <1>4

LEMMA SeqInduct ==
  ASSUME NEW A, NEW T, <<>> \in T,
         \A s \in Seq(A), c \in A : s \in T => Append(s, c) \in T
  PROVE  Seq(A) \subseteq T
<1> DEFINE D == {n \in Nat : \A s \in Seq(A) : Len(s) = n => s \in T}
<1>1. 0 \in D
  <2>1. \A s \in Seq(A) : Len(s) = 0 => s = <<>>
    OBVIOUS
  <2>2. QED
    BY <2>1
<1>2. ASSUME NEW n \in D PROVE n + 1 \in D
  <2>1. ASSUME NEW s \in Seq(A), Len(s) = n + 1 PROVE s \in T
    <3>1. s # <<>>
      BY <1>2, <2>1
    <3>2. PICK r \in Seq(A), c \in A : s = Append(r, c)
      BY <3>1, SequenceEmptyOrAppend, Zenon
    <3>3. Len(r) = n
      <4>1. Len(s) = Len(r) + 1 /\ Len(r) \in Nat
        BY <3>2, AppendProperties, LenProperties, Zenon
      <4>2. QED
        BY <1>2, <2>1, <4>1
    <3>4. QED
      BY <3>2, <3>3
  <2>2. QED
    BY <2>1
<1>3. D = Nat
  <2>1. D \subseteq Nat
    OBVIOUS
  <2> HIDE DEF D
  <2>2. QED
    BY <1>1, <1>2, <2>1, NatInduct, Zenon
<1>4. ASSUME NEW s \in Seq(A) PROVE s \in T
  <2>1. Len(s) \in D
    BY <1>3, LenProperties
  <2>2. QED
    BY <2>1
<1>5. QED
  BY <1>4

(* A recursion of n steps over S, and the function it defines. *)
Steps(S, base, n, step) == base \in S /\ n \in Nat /\ step \in [1 .. n -> [S -> S]]

Unrolled(S, base, n, step, f) ==
    /\ f \in [0 .. n -> S]
    /\ f[0] = base
    /\ \A i \in 1 .. n : f[i] = step[i][f[i - 1]]

LEMMA Recursion ==
  ASSUME NEW S, NEW base, NEW n, NEW step, Steps(S, base, n, step)
  PROVE  \E f : Unrolled(S, base, n, step, f)
<1> base \in S /\ n \in Nat /\ step \in [1 .. n -> [S -> S]]
  BY DEF Steps
<1> DEFINE Upto(m, f) == f[0] = base /\ \A i \in 1 .. m : f[i] = step[i][f[i - 1]]
           T == {m \in Nat : m <= n => \E f \in [0 .. m -> S] : Upto(m, f)}
<1>1. 0 \in T
  <2> DEFINE f == [i \in 0 .. 0 |-> base]
  <2>1. f \in [0 .. 0 -> S] /\ Upto(0, f)
    OBVIOUS
  <2>2. QED
    BY <2>1
<1>2. ASSUME NEW m \in T PROVE m + 1 \in T
  <2>0. m \in Nat
    OBVIOUS
  <2> SUFFICES ASSUME m + 1 <= n PROVE \E f \in [0 .. m + 1 -> S] : Upto(m + 1, f)
    <3> HIDE DEF Upto
    <3>1. QED
      BY <2>0
  <2>1. PICK g \in [0 .. m -> S] : Upto(m, g)
    BY <1>2
  <2> DEFINE e == step[m + 1][g[m]]
             f == [i \in 0 .. m + 1 |-> IF i = m + 1 THEN e ELSE g[i]]
  <2>2. e \in S
    <3>1. m + 1 \in 1 .. n /\ g[m] \in S
      BY <1>2, <2>1
    <3>2. QED
      BY <3>1
  <2> HIDE DEF e
  <2>3. f \in [0 .. m + 1 -> S]
    BY <1>2, <2>1, <2>2
  <2>4. f[0] = base
    BY <1>2, <2>1
  <2>5. ASSUME NEW i \in 1 .. m + 1 PROVE f[i] = step[i][f[i - 1]]
    <3>1. i - 1 \in 0 .. m /\ f[i - 1] = g[i - 1]
      BY <1>2
    <3>2. CASE i = m + 1
      <4>1. i - 1 = m /\ f[i] = e
        BY <1>2, <3>2
      <4>2. QED
        BY <3>1, <3>2, <4>1 DEF e
    <3>3. CASE i # m + 1
      <4>1. i \in 1 .. m /\ f[i] = g[i]
        BY <1>2, <3>3
      <4>2. QED
        BY <2>1, <3>1, <4>1
    <3>4. QED
      BY <3>2, <3>3
  <2> HIDE DEF f
  <2>6. QED
    BY <2>3, <2>4, <2>5
<1>3. T = Nat
  <2>1. T \subseteq Nat
    OBVIOUS
  <2> HIDE DEF T
  <2>2. QED
    BY <1>1, <1>2, <2>1, NatInduct, Zenon
<1>4. \E f \in [0 .. n -> S] : Upto(n, f)
  <2>1. n \in T
    BY <1>3
  <2> HIDE DEF Upto
  <2>2. QED
    BY <2>1
<1>5. QED
  BY <1>4 DEF Unrolled

-----------------------------------------------------------------------------
(* explode *)

CutStates(A) == [arr : Seq(Seq(A)), k : Nat \ {0}]

(* What a character does to the state of the loop. *)
CutAt(delimiter, str, i, before) ==
    IF str[i] = delimiter
    THEN [arr |-> Append(before.arr, SubSeq(str, before.k, i - 1)), k |-> i + 1]
    ELSE before

IsLoop(A, delimiter, str, w) ==
    /\ w \in [0 .. Len(str) -> CutStates(A)]
    /\ Cut(delimiter, str) = w[Len(str)]
    /\ w[0] = [arr |-> <<>>, k |-> 1]
    /\ \A i \in 1 .. Len(str) : w[i] = CutAt(delimiter, str, i, w[i - 1])

LEMMA PieceType ==
  ASSUME NEW A, NEW str \in Seq(A), NEW k \in Nat \ {0}, NEW i \in 0 .. Len(str)
  PROVE  /\ SubSeq(str, k, i) \in Seq(A)
         /\ Len(SubSeq(str, k, i)) = IF k <= i THEN i - k + 1 ELSE 0
         /\ \A j \in 1 .. i - k + 1 : SubSeq(str, k, i)[j] = str[k + j - 1]
<1>1. k \in Int /\ i \in Int /\ \A j \in k .. i : str[j] \in A
  <2>1. \A j \in k .. i : j \in 1 .. Len(str)
    BY LenProperties
  <2>2. QED
    BY <2>1, ElementOfSeq, LenProperties
<1>2. QED
  BY <1>1, SubSeqProperties

LEMMA CutAtType ==
  ASSUME NEW A, NEW delimiter, NEW str \in Seq(A), NEW i \in 1 .. Len(str),
         NEW before \in CutStates(A)
  PROVE  CutAt(delimiter, str, i, before) \in CutStates(A)
<1>1. i - 1 \in 0 .. Len(str) /\ i + 1 \in Nat \ {0}
  BY LenProperties
<1>2. SubSeq(str, before.k, i - 1) \in Seq(A)
  BY <1>1, PieceType DEF CutStates
<1>3. Append(before.arr, SubSeq(str, before.k, i - 1)) \in Seq(Seq(A))
  BY <1>2, AppendProperties DEF CutStates
<1>4. QED
  BY <1>1, <1>3 DEF CutAt, CutStates

LEMMA CutLoop ==
  ASSUME NEW A, NEW delimiter, NEW str \in Seq(A)
  PROVE  \E w : IsLoop(A, delimiter, str, w)
<1> DEFINE n == Len(str)
           Loop(f) == [i \in 0 .. n |->
                         IF i = 0 THEN [arr |-> <<>>, k |-> 1]
                         ELSE IF str[i] = delimiter
                              THEN [arr |-> Append(f[i - 1].arr, SubSeq(str, f[i - 1].k, i - 1)),
                                    k |-> i + 1]
                              ELSE f[i - 1]]
           base == [arr |-> <<>>, k |-> 1]
           step == [i \in 1 .. n |-> [x \in CutStates(A) |-> CutAt(delimiter, str, i, x)]]
<1>0. n \in Nat
  BY LenProperties
<1>1. base \in CutStates(A)
  BY DEF CutStates
<1>2. step \in [1 .. n -> [CutStates(A) -> CutStates(A)]]
  BY CutAtType
<1>3. \A i \in 1 .. n, x \in CutStates(A) : step[i][x] = CutAt(delimiter, str, i, x)
  OBVIOUS
<1> HIDE DEF step, base
<1>4. PICK w : Unrolled(CutStates(A), base, n, step, w)
  BY <1>0, <1>1, <1>2, Recursion, Zenon DEF Steps
<1>5. /\ w \in [0 .. n -> CutStates(A)] /\ w[0] = base
      /\ \A i \in 1 .. n : w[i] = step[i][w[i - 1]]
  BY <1>4 DEF Unrolled
<1>6. \A i \in 1 .. n : w[i] = CutAt(delimiter, str, i, w[i - 1])
  <2>1. \A i \in 1 .. n : i - 1 \in 0 .. n
    BY <1>0
  <2>2. QED
    BY <1>3, <1>5, <2>1
<1>7. w = Loop(w)
  <2>1. \A i \in 0 .. n : Loop(w)[i] = w[i]
    <3> SUFFICES ASSUME NEW i \in 0 .. n PROVE Loop(w)[i] = w[i]
      OBVIOUS
    <3>1. CASE i = 0
      BY <1>5, <3>1 DEF base
    <3>2. CASE i # 0
      <4>1. i \in 1 .. n
        BY <1>0, <3>2
      <4>2. QED
        BY <1>6, <3>2, <4>1 DEF CutAt
    <3>3. QED
      BY <3>1, <3>2
  <2>2. QED
    BY <2>1, <1>5
<1>8. Cut(delimiter, str) = (CHOOSE f : f = Loop(f))[n]
  BY Zenon DEF Cut
<1> DEFINE c == CHOOSE f : f = Loop(f)
<1>9. c = Loop(c)
  <2> HIDE DEF Loop
  <2>1. QED
    BY <1>7, Zenon
<1> HIDE DEF c
<1>10. c[0] = base /\ \A i \in 1 .. n : c[i] = CutAt(delimiter, str, i, c[i - 1])
  <2>1. c[0] = base
    BY <1>9, <1>0 DEF base
  <2>2. ASSUME NEW i \in 1 .. n PROVE c[i] = CutAt(delimiter, str, i, c[i - 1])
    <3>1. i # 0 /\ i \in 0 .. n
      BY <1>0
    <3>2. c[i] = Loop(c)[i]
      BY <1>9
    <3>3. QED
      BY <3>1, <3>2 DEF CutAt
  <2>3. QED
    BY <2>1, <2>2
<1>11. c = w
  <2> DEFINE T == {i \in Nat : i \in 0 .. n => c[i] = w[i]}
  <2>1. 0 \in T
    BY <1>5, <1>10
  <2>2. ASSUME NEW i \in T PROVE i + 1 \in T
    <3>1. ASSUME i + 1 \in 0 .. n PROVE c[i + 1] = w[i + 1]
      <4>1. i + 1 \in 1 .. n /\ i \in 0 .. n /\ (i + 1) - 1 = i
        BY <1>0, <3>1
      <4>2. c[i] = w[i]
        BY <4>1
      <4>3. QED
        BY <1>6, <1>10, <4>1, <4>2, Zenon
    <3>2. QED
      BY <3>1
  <2>3. T = Nat
    <3>1. T \subseteq Nat
      OBVIOUS
    <3> HIDE DEF T
    <3>2. QED
      BY <2>1, <2>2, <3>1, NatInduct, Zenon
  <2>4. \A i \in 0 .. n : c[i] = w[i]
    BY <2>3
  <2>5. DOMAIN c = 0 .. n /\ c = [i \in 0 .. n |-> c[i]]
    BY <1>9
  <2>6. w = [i \in 0 .. n |-> w[i]]
    BY <1>5
  <2>7. QED
    BY <2>4, <2>5, <2>6
<1>12. QED
  BY <1>5, <1>6, <1>8, <1>11 DEF IsLoop, c, base

LEMMA PieceOfPrefix ==
  ASSUME NEW A, NEW str \in Seq(A), NEW c \in A, NEW k \in Nat \ {0}, NEW i \in 0 .. Len(str)
  PROVE  SubSeq(Append(str, c), k, i) = SubSeq(str, k, i)
<1> DEFINE more == Append(str, c)
           p == SubSeq(more, k, i)
           q == SubSeq(str, k, i)
<1>1. /\ more \in Seq(A) /\ Len(more) = Len(str) + 1 /\ Len(str) \in Nat
      /\ \A j \in 1 .. Len(str) : more[j] = str[j]
  BY AppendProperties, LenProperties
<1>2. i \in 0 .. Len(more)
  BY <1>1
<1> HIDE DEF more
<1>3. /\ p \in Seq(A) /\ Len(p) = (IF k <= i THEN i - k + 1 ELSE 0)
      /\ \A j \in 1 .. i - k + 1 : p[j] = more[k + j - 1]
  BY <1>1, <1>2, PieceType
<1>4. /\ q \in Seq(A) /\ Len(q) = (IF k <= i THEN i - k + 1 ELSE 0)
      /\ \A j \in 1 .. i - k + 1 : q[j] = str[k + j - 1]
  BY PieceType
<1> HIDE DEF p, q
<1>5. \A j \in 1 .. Len(p) : p[j] = q[j]
  <2> SUFFICES ASSUME NEW j \in 1 .. Len(p) PROVE p[j] = q[j]
    OBVIOUS
  <2>1. j \in 1 .. i - k + 1 /\ k + j - 1 \in 1 .. Len(str)
    BY <1>1, <1>3
  <2>2. QED
    BY <1>1, <1>3, <1>4, <2>1
<1>6. p = q
  BY <1>3, <1>4, <1>5, SeqEqual
<1>7. QED
  BY <1>6 DEF p, q, more

LEMMA PieceGrows ==
  ASSUME NEW A, NEW str \in Seq(A), NEW c \in A, NEW k \in 1 .. Len(str) + 1
  PROVE  SubSeq(Append(str, c), k, Len(str) + 1) = Append(SubSeq(str, k, Len(str)), c)
<1> DEFINE more == Append(str, c)
           n == Len(str)
           p == SubSeq(more, k, n + 1)
           q == SubSeq(str, k, n)
           r == Append(q, c)
<1>1. /\ more \in Seq(A) /\ Len(more) = n + 1 /\ n \in Nat /\ k \in Nat \ {0} /\ k <= n + 1
      /\ \A j \in 1 .. n : more[j] = str[j]
      /\ more[n + 1] = c
  BY AppendProperties, LenProperties
<1>2. n + 1 \in 0 .. Len(more) /\ n \in 0 .. Len(str)
  BY <1>1
<1> HIDE DEF more
<1>3. /\ p \in Seq(A) /\ Len(p) = n + 1 - k + 1
      /\ \A j \in 1 .. n + 1 - k + 1 : p[j] = more[k + j - 1]
  BY <1>1, <1>2, PieceType
<1>4. /\ q \in Seq(A) /\ Len(q) = n - k + 1
      /\ \A j \in 1 .. n - k + 1 : q[j] = str[k + j - 1]
  BY <1>1, <1>2, PieceType
<1> HIDE DEF p, q
<1>5. /\ r \in Seq(A) /\ Len(r) = Len(q) + 1
      /\ \A j \in 1 .. Len(q) : r[j] = q[j]
      /\ r[Len(q) + 1] = c
  <2>1. q \in Seq(A)
    BY <1>4
  <2>2. QED
    BY <2>1, AppendProperties
<1> HIDE DEF r
<1>6. \A j \in 1 .. Len(p) : p[j] = r[j]
  <2> SUFFICES ASSUME NEW j \in 1 .. Len(p) PROVE p[j] = r[j]
    OBVIOUS
  <2> HIDE DEF n
  <2>1. CASE j = n - k + 2
    BY <1>1, <1>3, <1>4, <1>5, <2>1
  <2>2. CASE j # n - k + 2
    <3>1. j \in 1 .. n - k + 1 /\ k + j - 1 \in 1 .. n
      BY <1>1, <1>3, <2>2
    <3>2. QED
      BY <1>1, <1>3, <1>4, <1>5, <3>1
  <2>3. QED
    BY <2>1, <2>2
<1>7. Len(p) = Len(r)
  BY <1>1, <1>3, <1>4, <1>5
<1>8. p = r
  BY <1>3, <1>5, <1>6, <1>7, SeqEqual
<1>9. QED
  BY <1>8 DEF p, q, r, more

LEMMA CutEmpty ==
  ASSUME NEW delimiter
  PROVE  Cut(delimiter, <<>>) = [arr |-> <<>>, k |-> 1]
<1>1. <<>> \in Seq({}) /\ Len(<<>>) = 0
  OBVIOUS
<1>2. PICK w : IsLoop({}, delimiter, <<>>, w)
  BY <1>1, CutLoop, Zenon
<1>3. QED
  BY <1>1, <1>2, Zenon DEF IsLoop

LEMMA CutAppend ==
  ASSUME NEW A, NEW delimiter, NEW str \in Seq(A), NEW c \in A
  PROVE  Cut(delimiter, Append(str, c)) =
            CutAt(delimiter, Append(str, c), Len(str) + 1, Cut(delimiter, str))
<1> DEFINE more == Append(str, c)
           n == Len(str)
<1>1. /\ more \in Seq(A) /\ Len(more) = n + 1 /\ n \in Nat
      /\ \A j \in 1 .. n : more[j] = str[j]
  BY AppendProperties, LenProperties
<1>2. PICK v : IsLoop(A, delimiter, str, v)
  BY CutLoop, Zenon
<1>3. PICK w : IsLoop(A, delimiter, more, w)
  BY <1>1, CutLoop, Zenon
<1> DEFINE T == {i \in Nat : i \in 0 .. n => w[i] = v[i]}
<1>4. 0 \in T
  BY <1>2, <1>3 DEF IsLoop
<1> HIDE DEF more
<1>5. ASSUME NEW i \in T PROVE i + 1 \in T
  <2> SUFFICES ASSUME i + 1 \in 0 .. n PROVE w[i + 1] = v[i + 1]
    OBVIOUS
  <2>1. /\ i + 1 \in 1 .. n /\ i + 1 \in 1 .. Len(more) /\ (i + 1) - 1 = i /\ i \in 0 .. n
    BY <1>1
  <2>2. w[i] = v[i] /\ v[i] \in CutStates(A)
    BY <1>2, <2>1 DEF IsLoop
  <2>3. more[i + 1] = str[i + 1]
    BY <1>1, <2>1
  <2>4. SubSeq(more, v[i].k, i) = SubSeq(str, v[i].k, i)
    BY <2>1, <2>2, PieceOfPrefix DEF more, CutStates
  <2>5. CutAt(delimiter, more, i + 1, v[i]) = CutAt(delimiter, str, i + 1, v[i])
    BY <2>1, <2>3, <2>4, Zenon DEF CutAt
  <2>6. /\ w[i + 1] = CutAt(delimiter, more, i + 1, w[i])
        /\ v[i + 1] = CutAt(delimiter, str, i + 1, v[i])
    BY <1>2, <1>3, <2>1, Zenon DEF IsLoop
  <2>7. QED
    BY <2>2, <2>5, <2>6, Zenon
<1>6. T = Nat
  <2>1. T \subseteq Nat
    OBVIOUS
  <2> HIDE DEF T
  <2>2. QED
    BY <1>4, <1>5, <2>1, NatInduct, Zenon
<1>7. w[n] = v[n]
  BY <1>1, <1>6
<1>8. n + 1 \in 1 .. Len(more) /\ (n + 1) - 1 = n
  BY <1>1
<1>9. w[n + 1] = CutAt(delimiter, more, n + 1, w[n])
  BY <1>3, <1>8, Zenon DEF IsLoop
<1>10. QED
  BY <1>1, <1>2, <1>3, <1>7, <1>9, Zenon DEF more, IsLoop

(* The pieces cut off, and the one still open. *)
Closed(delimiter, str) == Cut(delimiter, str).arr
Open(delimiter, str) == SubSeq(str, Cut(delimiter, str).k, Len(str))

LEMMA CutType ==
  ASSUME NEW A, NEW delimiter, NEW str \in Seq(A)
  PROVE  Cut(delimiter, str) \in CutStates(A) /\ Cut(delimiter, str).k <= Len(str) + 1
<1> DEFINE T == {s \in Seq(A) : Cut(delimiter, s) \in CutStates(A)
                                 /\ Cut(delimiter, s).k <= Len(s) + 1}
<1>1. <<>> \in T
  <2>1. [arr |-> <<>>, k |-> 1] \in CutStates(A) /\ [arr |-> <<>>, k |-> 1].k = 1
    BY DEF CutStates
  <2>2. <<>> \in Seq(A) /\ 1 <= Len(<<>>) + 1
    OBVIOUS
  <2>3. QED
    BY <2>1, <2>2, CutEmpty, Zenon
<1>2. ASSUME NEW s \in Seq(A), NEW c \in A, s \in T PROVE Append(s, c) \in T
  <2> DEFINE more == Append(s, c)
  <2>1. more \in Seq(A) /\ Len(more) = Len(s) + 1 /\ Len(s) \in Nat
    BY AppendProperties, LenProperties
  <2>2. Cut(delimiter, more) = CutAt(delimiter, more, Len(s) + 1, Cut(delimiter, s))
    BY CutAppend
  <2>3. Cut(delimiter, s) \in CutStates(A) /\ Cut(delimiter, s).k <= Len(s) + 1
    BY <1>2
  <2>4. Len(s) + 1 \in 1 .. Len(more)
    BY <2>1
  <2> HIDE DEF more
  <2>5. Cut(delimiter, more) \in CutStates(A)
    BY <2>1, <2>2, <2>3, <2>4, CutAtType
  <2>6. Cut(delimiter, more).k <= Len(more) + 1
    <3>1. Cut(delimiter, more).k = Len(s) + 2 \/ Cut(delimiter, more).k = Cut(delimiter, s).k
      BY <2>1, <2>2 DEF CutAt
    <3>2. Cut(delimiter, s).k \in Nat
      BY <2>3 DEF CutStates
    <3>3. QED
      BY <2>1, <2>3, <3>1, <3>2
  <2>7. QED
    BY <2>1, <2>5, <2>6 DEF more
<1>3. Seq(A) \subseteq T
  <2> HIDE DEF T
  <2>1. QED
    BY <1>1, <1>2, SeqInduct, Zenon
<1>4. QED
  BY <1>3

LEMMA ExplodeType ==
  ASSUME NEW A, NEW delimiter, NEW str \in Seq(A)
  PROVE  /\ Closed(delimiter, str) \in Seq(Seq(A)) /\ Open(delimiter, str) \in Seq(A)
         /\ Explode(delimiter, str) = Append(Closed(delimiter, str), Open(delimiter, str))
         /\ Explode(delimiter, str) \in Seq(Seq(A))
<1>1. Cut(delimiter, str).arr \in Seq(Seq(A)) /\ Cut(delimiter, str).k \in Nat \ {0}
  BY CutType DEF CutStates
<1>2. Len(str) \in 0 .. Len(str)
  BY LenProperties
<1>3. Open(delimiter, str) \in Seq(A)
  BY <1>1, <1>2, PieceType DEF Open
<1>4. Explode(delimiter, str) = Append(Closed(delimiter, str), Open(delimiter, str))
  BY Zenon DEF Explode, Closed, Open
<1>5. QED
  BY <1>1, <1>3, <1>4, AppendProperties DEF Closed

LEMMA ExplodeEmpty ==
  ASSUME NEW delimiter
  PROVE  Closed(delimiter, <<>>) = <<>> /\ Open(delimiter, <<>>) = <<>>
<1>1. Cut(delimiter, <<>>).arr = <<>> /\ Cut(delimiter, <<>>).k = 1
  BY CutEmpty
<1>2. SubSeq(<<>>, 1, 0) = <<>> /\ Len(<<>>) = 0
  BY SubSeqEmpty
<1>3. QED
  BY <1>1, <1>2, Zenon DEF Closed, Open

(* What one more character does to the pieces. *)
ExplodedOn(delimiter, str, c) ==
    IF c = delimiter
    THEN /\ Closed(delimiter, Append(str, c)) = Explode(delimiter, str)
         /\ Open(delimiter, Append(str, c)) = <<>>
    ELSE /\ Closed(delimiter, Append(str, c)) = Closed(delimiter, str)
         /\ Open(delimiter, Append(str, c)) = Append(Open(delimiter, str), c)

LEMMA ExplodeAppend ==
  ASSUME NEW A, NEW delimiter, NEW str \in Seq(A), NEW c \in A
  PROVE  ExplodedOn(delimiter, str, c)
<1> DEFINE more == Append(str, c)
           n == Len(str)
           cut == Cut(delimiter, str)
<1>1. /\ more \in Seq(A) /\ Len(more) = n + 1 /\ n \in Nat /\ more[n + 1] = c
  BY AppendProperties, LenProperties
<1>2. Cut(delimiter, more) = CutAt(delimiter, more, n + 1, cut)
  BY CutAppend
<1>3. cut.k \in Nat \ {0} /\ cut.k \in 1 .. n + 1
  BY CutType, <1>1 DEF CutStates
<1>4. n \in 0 .. Len(str) /\ (n + 1) - 1 = n /\ (n + 1) + 1 = n + 2
  BY <1>1
<1>5. SubSeq(more, cut.k, n) = SubSeq(str, cut.k, n)
  BY <1>3, <1>4, PieceOfPrefix
<1>6. SubSeq(more, cut.k, n + 1) = Append(SubSeq(str, cut.k, n), c)
  BY <1>3, PieceGrows
<1> HIDE DEF more, cut
<1>7. ASSUME c = delimiter
      PROVE  /\ Closed(delimiter, more) = Explode(delimiter, str)
             /\ Open(delimiter, more) = <<>>
  <2>1. Cut(delimiter, more) = [arr |-> Append(cut.arr, SubSeq(str, cut.k, n)), k |-> n + 2]
    BY <1>1, <1>2, <1>4, <1>5, <1>7 DEF CutAt
  <2>2. Explode(delimiter, str) = Append(cut.arr, SubSeq(str, cut.k, n))
    BY Zenon DEF Explode, cut
  <2>3. SubSeq(more, n + 2, n + 1) = <<>>
    BY <1>1, SubSeqEmpty
  <2>4. Cut(delimiter, more).arr = Explode(delimiter, str) /\ Cut(delimiter, more).k = n + 2
    <3> DEFINE arr == Append(cut.arr, SubSeq(str, cut.k, n))
    <3>1. [arr |-> arr, k |-> n + 2].arr = arr /\ [arr |-> arr, k |-> n + 2].k = n + 2
      OBVIOUS
    <3>2. QED
      BY <2>1, <2>2, <3>1, Zenon
  <2>5. QED
    BY <1>1, <2>3, <2>4, Zenon DEF Closed, Open
<1>8. ASSUME c # delimiter
      PROVE  /\ Closed(delimiter, more) = Closed(delimiter, str)
             /\ Open(delimiter, more) = Append(Open(delimiter, str), c)
  <2>1. Cut(delimiter, more) = cut
    BY <1>1, <1>2, <1>8, Zenon DEF CutAt
  <2>2. QED
    BY <1>1, <1>6, <2>1, Zenon DEF Closed, Open, cut
<1>9. QED
  BY <1>7, <1>8, Zenon DEF more, ExplodedOn

LEMMA ContainsAppend ==
  ASSUME NEW A, NEW str \in Seq(A), NEW c \in A, NEW e
  PROVE  Contains(Append(str, c), e) <=> Contains(str, e) \/ c = e
<1> DEFINE more == Append(str, c)
<1>1. /\ Len(more) = Len(str) + 1 /\ Len(str) \in Nat
      /\ \A j \in 1 .. Len(str) : more[j] = str[j]
      /\ more[Len(str) + 1] = c
  BY AppendProperties, LenProperties
<1> HIDE DEF more
<1>2. \A j \in 1 .. Len(more) : j \in 1 .. Len(str) \/ j = Len(str) + 1
  BY <1>1
<1>3. Len(str) + 1 \in 1 .. Len(more) /\ \A j \in 1 .. Len(str) : j \in 1 .. Len(more)
  BY <1>1
<1>4. Contains(more, e) <=> Contains(str, e) \/ c = e
  BY <1>1, <1>2, <1>3, Zenon DEF Contains
<1>5. QED
  BY <1>4 DEF more

Associates(a, b, c) == (a \o b) \o c = a \o (b \o c)

LEMMA ConcatAssociates ==
  ASSUME NEW A, NEW a \in Seq(A), NEW b \in Seq(A), NEW c \in Seq(A)
  PROVE  Associates(a, b, c)
BY ConcatAssociative DEF Associates

LEMMA AppendConcat ==
  ASSUME NEW A, NEW s \in Seq(A), NEW t \in Seq(A), NEW c \in A
  PROVE  s \o Append(t, c) = Append(s \o t, c)
<1>1. <<c>> \in Seq(A) /\ s \o t \in Seq(A)
  BY ConcatProperties
<1>2. Append(t, c) = t \o <<c>> /\ Append(s \o t, c) = (s \o t) \o <<c>>
  BY <1>1, AppendIsConcat, Zenon
<1>3. (s \o t) \o <<c>> = s \o (t \o <<c>>)
  BY <1>1, ConcatAssociative
<1>4. QED
  BY <1>2, <1>3, Zenon

LEMMA ContainsNone ==
  ASSUME NEW e
  PROVE  ~Contains(<<>>, e)
BY DEF Contains

(* A text without the delimiter is one piece. *)
LEMMA ExplodeWhole ==
  ASSUME NEW A, NEW delimiter, NEW str \in Seq(A), ~Contains(str, delimiter)
  PROVE  Closed(delimiter, str) = <<>> /\ Open(delimiter, str) = str
<1> DEFINE Whole(s) == Closed(delimiter, s) = <<>> /\ Open(delimiter, s) = s
           T == {s \in Seq(A) : ~Contains(s, delimiter) => Whole(s)}
<1>1. <<>> \in T
  BY ExplodeEmpty
<1>2. ASSUME NEW s \in Seq(A), NEW c \in A, s \in T PROVE Append(s, c) \in T
  <2>1. Append(s, c) \in Seq(A)
    BY AppendProperties
  <2>2. ASSUME ~Contains(Append(s, c), delimiter) PROVE Whole(Append(s, c))
    <3>1. ~Contains(s, delimiter) /\ c # delimiter
      BY <2>2, ContainsAppend, Zenon
    <3>2. Whole(s)
      BY <1>2, <3>1
    <3>3. ExplodedOn(delimiter, s, c)
      BY ExplodeAppend, Zenon
    <3>4. QED
      BY <3>1, <3>2, <3>3, Zenon DEF ExplodedOn
  <2> HIDE DEF Whole
  <2>3. QED
    BY <2>1, <2>2
<1>3. Seq(A) \subseteq T
  <2> HIDE DEF T
  <2>1. QED
    BY <1>1, <1>2, SeqInduct, Zenon
<1> HIDE DEF Whole
<1>4. Whole(str)
  BY <1>3
<1>5. QED
  BY <1>4 DEF Whole

(* What follows the last delimiter is the last piece. *)
LEMMA ExplodeAfter ==
  ASSUME NEW A, NEW delimiter \in A, NEW str \in Seq(A),
         NEW text \in Seq(A), ~Contains(text, delimiter)
  PROVE  Explode(delimiter, Append(str, delimiter) \o text) = Append(Explode(delimiter, str), text)
<1> DEFINE before == Append(str, delimiter)
           Last1(t) == /\ Closed(delimiter, before \o t) = Explode(delimiter, str)
                       /\ Open(delimiter, before \o t) = t
           T == {t \in Seq(A) : ~Contains(t, delimiter) => Last1(t)}
<1>0. before \in Seq(A)
  BY AppendProperties
<1>1. <<>> \in T
  <2>1. before \o <<>> = before
    BY <1>0, ConcatEmptySeq, Zenon
  <2>2. ExplodedOn(delimiter, str, delimiter)
    BY ExplodeAppend, Zenon
  <2>3. Last1(<<>>)
    BY <2>1, <2>2, Zenon DEF ExplodedOn
  <2> HIDE DEF Last1
  <2>4. QED
    BY <2>3
<1> HIDE DEF before
<1>2. ASSUME NEW s \in Seq(A), NEW c \in A, s \in T PROVE Append(s, c) \in T
  <2>1. Append(s, c) \in Seq(A)
    BY AppendProperties
  <2>2. ASSUME ~Contains(Append(s, c), delimiter) PROVE Last1(Append(s, c))
    <3>1. ~Contains(s, delimiter) /\ c # delimiter
      BY <2>2, ContainsAppend, Zenon
    <3>2. Last1(s)
      BY <1>2, <3>1
    <3>3. before \o s \in Seq(A)
      BY <1>0, ConcatProperties, Zenon
    <3>4. before \o Append(s, c) = Append(before \o s, c)
      BY <1>0, AppendConcat
    <3>5. ExplodedOn(delimiter, before \o s, c)
      BY <3>3, ExplodeAppend, Zenon
    <3>6. QED
      BY <3>1, <3>2, <3>4, <3>5, Zenon DEF ExplodedOn
  <2> HIDE DEF Last1
  <2>3. QED
    BY <2>1, <2>2
<1>3. Seq(A) \subseteq T
  <2> HIDE DEF T
  <2>1. QED
    BY <1>1, <1>2, SeqInduct, Zenon
<1> HIDE DEF Last1
<1>4. Last1(text)
  BY <1>3
<1>5. before \o text \in Seq(A)
  BY <1>0, ConcatProperties, Zenon
<1>6. Explode(delimiter, before \o text) = Append(Explode(delimiter, str), text)
  BY <1>4, <1>5, ExplodeType, Zenon DEF Last1
<1>7. QED
  BY <1>6 DEF before

(* A longer text has no fewer pieces. *)
LEMMA ExplodeGrows ==
  ASSUME NEW A, NEW delimiter, NEW str \in Seq(A), NEW text \in Seq(A)
  PROVE  Len(Explode(delimiter, str)) <= Len(Explode(delimiter, str \o text))
<1> DEFINE n == Len(Explode(delimiter, str))
           T == {t \in Seq(A) : n <= Len(Explode(delimiter, str \o t))}
<1>0. \A s \in Seq(A) : /\ Len(Explode(delimiter, s)) = Len(Closed(delimiter, s)) + 1
                        /\ Len(Closed(delimiter, s)) \in Nat
  BY ExplodeType, AppendProperties, LenProperties
<1>1. <<>> \in T
  <2>1. str \o <<>> = str /\ <<>> \in Seq(A)
    BY ConcatEmptySeq
  <2>2. n <= n
    BY <1>0
  <2>3. QED
    BY <2>1, <2>2
<1>2. ASSUME NEW s \in Seq(A), NEW c \in A, s \in T PROVE Append(s, c) \in T
  <2> DEFINE before == str \o s
  <2>1. /\ Append(s, c) \in Seq(A) /\ before \in Seq(A) /\ Append(before, c) \in Seq(A)
        /\ str \o Append(s, c) = Append(before, c)
    BY AppendProperties, ConcatProperties, AppendConcat
  <2>2. n <= Len(Explode(delimiter, before))
    BY <1>2
  <2> HIDE DEF before, n
  <2>3. ExplodedOn(delimiter, before, c)
    BY <2>1, ExplodeAppend, Zenon
  <2>4. /\ Len(Explode(delimiter, before)) = Len(Closed(delimiter, before)) + 1
        /\ Len(Explode(delimiter, Append(before, c))) = Len(Closed(delimiter, Append(before, c))) + 1
        /\ Len(Closed(delimiter, before)) \in Nat
        /\ Len(Closed(delimiter, Append(before, c))) \in Nat
    BY <1>0, <2>1, Zenon
  <2>5. Len(Explode(delimiter, before)) <= Len(Explode(delimiter, Append(before, c)))
    <3>1. CASE c = delimiter
      <4>1. Closed(delimiter, Append(before, c)) = Explode(delimiter, before)
        BY <2>3, <3>1, Zenon DEF ExplodedOn
      <4>2. QED
        BY <2>4, <4>1
    <3>2. CASE c # delimiter
      <4>1. Closed(delimiter, Append(before, c)) = Closed(delimiter, before)
        BY <2>3, <3>2, Zenon DEF ExplodedOn
      <4>2. QED
        BY <2>4, <4>1
    <3>3. QED
      BY <3>1, <3>2
  <2>6. n \in Int
    BY <1>0 DEF n
  <2>7. n <= Len(Explode(delimiter, Append(before, c)))
    BY <2>2,  <2>5, <2>6, <2>4
  <2>8. QED
    BY <2>1, <2>7
<1>3. Seq(A) \subseteq T
  <2> HIDE DEF T
  <2>1. QED
    BY <1>1, <1>2, SeqInduct, Zenon
<1>4. QED
  BY <1>3

(* A piece has no delimiter, and only characters of the text. *)
PieceOf(delimiter, str, p) == ~Contains(p, delimiter) /\ \A e : Contains(p, e) => Contains(str, e)

LEMMA ExplodePieces ==
  ASSUME NEW A, NEW delimiter, NEW str \in Seq(A)
  PROVE  \A i \in 1 .. Len(Explode(delimiter, str)) : PieceOf(delimiter, str, Explode(delimiter, str)[i])
<1> DEFINE Pieces(s) ==
             /\ PieceOf(delimiter, s, Open(delimiter, s))
             /\ \A i \in 1 .. Len(Closed(delimiter, s)) : PieceOf(delimiter, s, Closed(delimiter, s)[i])
           T == {s \in Seq(A) : Pieces(s)}
<1>0. ASSUME NEW s \in Seq(A), Pieces(s)
      PROVE  \A i \in 1 .. Len(Explode(delimiter, s)) : PieceOf(delimiter, s, Explode(delimiter, s)[i])
  <2> DEFINE whole == Explode(delimiter, s)
             closed == Closed(delimiter, s)
  <2>1. /\ closed \in Seq(Seq(A)) /\ Open(delimiter, s) \in Seq(A)
        /\ whole = Append(closed, Open(delimiter, s))
    BY ExplodeType
  <2> HIDE DEF whole, closed
  <2>2. /\ Len(whole) = Len(closed) + 1 /\ Len(closed) \in Nat
        /\ \A i \in 1 .. Len(closed) : whole[i] = closed[i]
        /\ whole[Len(closed) + 1] = Open(delimiter, s)
    BY <2>1, AppendProperties, LenProperties
  <2>3. \A i \in 1 .. Len(whole) : i \in 1 .. Len(closed) \/ i = Len(closed) + 1
    BY <2>2
  <2>4. \A i \in 1 .. Len(whole) : PieceOf(delimiter, s, whole[i])
    BY <1>0, <2>2, <2>3, Zenon DEF closed
  <2>5. QED
    BY <2>4 DEF whole
<1>1. <<>> \in T
  <2>1. Closed(delimiter, <<>>) = <<>> /\ Open(delimiter, <<>>) = <<>> /\ Len(<<>>) = 0
    BY ExplodeEmpty
  <2>2. PieceOf(delimiter, <<>>, <<>>)
    BY ContainsNone DEF PieceOf
  <2>3. Pieces(<<>>)
    BY <2>1, <2>2
  <2> HIDE DEF Pieces
  <2>4. QED
    BY <2>3
<1>2. ASSUME NEW s \in Seq(A), NEW c \in A, s \in T PROVE Append(s, c) \in T
  <2> DEFINE more == Append(s, c)
  <2>1. Pieces(s)
    BY <1>2
  <2>2. more \in Seq(A) /\ \A e : Contains(more, e) <=> Contains(s, e) \/ c = e
    BY ContainsAppend, AppendProperties
  <2>3. ExplodedOn(delimiter, s, c)
    BY ExplodeAppend, Zenon
  <2>4. Open(delimiter, s) \in Seq(A)
    BY ExplodeType
  <2>5. \A p : PieceOf(delimiter, s, p) => PieceOf(delimiter, more, p)
    <3> HIDE DEF more
    <3>1. QED
      BY <2>2, Zenon DEF PieceOf
  <2>6. Pieces(more)
    <3>1. CASE c = delimiter
      <4>1. /\ Closed(delimiter, more) = Explode(delimiter, s)
            /\ Open(delimiter, more) = <<>>
        BY <2>3, <3>1, Zenon DEF ExplodedOn
      <4>2. PieceOf(delimiter, more, <<>>)
        BY ContainsNone, Zenon DEF PieceOf
      <4> HIDE DEF more
      <4>3. QED
        BY <1>0, <2>1, <2>5, <4>1, <4>2, Zenon
    <3>2. CASE c # delimiter
      <4>1. /\ Closed(delimiter, more) = Closed(delimiter, s)
            /\ Open(delimiter, more) = Append(Open(delimiter, s), c)
        BY <2>3, <3>2, Zenon DEF ExplodedOn
      <4>2. \A e : Contains(Append(Open(delimiter, s), c), e) <=> Contains(Open(delimiter, s), e) \/ c = e
        BY <2>4, ContainsAppend
      <4> HIDE DEF more
      <4>3. PieceOf(delimiter, more, Append(Open(delimiter, s), c))
        BY <2>1, <2>2, <3>2, <4>2, Zenon DEF PieceOf
      <4>4. QED
        BY <2>1, <2>5, <4>1, <4>3, Zenon
    <3>3. QED
      BY <3>1, <3>2
  <2> HIDE DEF Pieces
  <2>7. QED
    BY <2>2, <2>6
<1>3. Seq(A) \subseteq T
  <2> HIDE DEF T
  <2>1. QED
    BY <1>1, <1>2, SeqInduct, Zenon
<1> HIDE DEF Pieces
<1>4. Pieces(str)
  BY <1>3
<1>5. QED
  BY <1>0, <1>4, Zenon

-----------------------------------------------------------------------------
(* FlattenSeq *)

IsFlat(A, seqs, f) ==
    /\ f \in [1 .. Len(seqs) -> Seq(A)]
    /\ FlattenSeq(seqs) = f[Len(seqs)]
    /\ f[1] = seqs[1]
    /\ \A i \in 2 .. Len(seqs) : f[i] = f[i - 1] \o seqs[i]

LEMMA Flatten ==
  ASSUME NEW A, NEW seqs \in Seq(Seq(A)), seqs # <<>>
  PROVE  \E f : IsFlat(A, seqs, f)
<1> DEFINE n == Len(seqs)
           Loop(f) == [i \in 1 .. n |-> IF i = 1 THEN seqs[i] ELSE f[i - 1] \o seqs[i]]
           step == [i \in 1 .. n |-> [x \in Seq(A) |-> IF i = 1 THEN seqs[i] ELSE x \o seqs[i]]]
<1>1. n \in Nat /\ n >= 1 /\ \A i \in 1 .. n : seqs[i] \in Seq(A)
  BY EmptySeq, LenProperties, ElementOfSeq
<1>2. step \in [1 .. n -> [Seq(A) -> Seq(A)]]
  BY <1>1, ConcatProperties
<1>3. <<>> \in Seq(A)
  OBVIOUS
<1>4. \A i \in 1 .. n, x \in Seq(A) : step[i][x] = IF i = 1 THEN seqs[i] ELSE x \o seqs[i]
  OBVIOUS
<1> HIDE DEF step
<1>5. PICK g : Unrolled(Seq(A), <<>>, n, step, g)
  BY <1>1, <1>2, <1>3, Recursion, Zenon DEF Steps
<1> DEFINE w == [i \in 1 .. n |-> g[i]]
<1>6. /\ g \in [0 .. n -> Seq(A)]
      /\ \A i \in 1 .. n : g[i] = step[i][g[i - 1]]
  BY <1>5 DEF Unrolled
<1>7. w \in [1 .. n -> Seq(A)]
  BY <1>1, <1>6
<1>8. ASSUME NEW i \in 1 .. n PROVE w[i] = IF i = 1 THEN seqs[i] ELSE w[i - 1] \o seqs[i]
  <2>1. i - 1 \in 0 .. n /\ (i # 1 => i - 1 \in 1 .. n)
    BY <1>1
  <2>2. g[i - 1] \in Seq(A)
    BY <1>6, <2>1
  <2>3. g[i] = IF i = 1 THEN seqs[i] ELSE g[i - 1] \o seqs[i]
    BY <1>4, <1>6, <2>2, Zenon
  <2>4. QED
    BY <2>1, <2>3
<1>9. w = Loop(w)
  <2>1. w = [i \in 1 .. n |-> w[i]]
    OBVIOUS
  <2> HIDE DEF w
  <2>2. QED
    BY <1>8, <2>1
<1> DEFINE c == CHOOSE f : f = Loop(f)
<1>10. FlattenSeq(seqs) = c[n]
  <2>1. n # 0
    BY <1>1
  <2>2. QED
    BY <2>1, Zenon DEF FlattenSeq
<1>11. c = Loop(c)
  <2> HIDE DEF Loop, w
  <2>1. QED
    BY <1>9, Zenon
<1> HIDE DEF c, w
<1>12. /\ c[1] = seqs[1]
       /\ \A i \in 2 .. n : c[i] = c[i - 1] \o seqs[i]
       /\ c = [i \in 1 .. n |-> c[i]]
  <2>1. \A i \in 1 .. n : c[i] = Loop(c)[i]
    BY <1>11
  <2>2. 1 \in 1 .. n /\ \A i \in 2 .. n : i \in 1 .. n /\ i # 1
    BY <1>1
  <2>3. \A i \in 1 .. n : c[i] = IF i = 1 THEN seqs[i] ELSE c[i - 1] \o seqs[i]
    BY <2>1
  <2>4. c = [i \in 1 .. n |-> c[i]]
    BY <1>11
  <2>5. QED
    BY <2>2, <2>3, <2>4, Zenon
<1>13. \A i \in 1 .. n : c[i] = w[i]
  <2> DEFINE T == {i \in Nat : i + 1 \in 1 .. n => c[i + 1] = w[i + 1]}
  <2>1. 0 \in T
    <3>1. 0 + 1 = 1 /\ 1 \in 1 .. n
      BY <1>1
    <3>2. c[1] = w[1]
      BY <1>8, <1>12, <3>1, Zenon
    <3>3. QED
      BY <3>1, <3>2
  <2>2. ASSUME NEW i \in T PROVE i + 1 \in T
    <3>1. ASSUME (i + 1) + 1 \in 1 .. n PROVE c[(i + 1) + 1] = w[(i + 1) + 1]
      <4>1. /\ i + 1 \in 1 .. n /\ (i + 1) + 1 \in 2 .. n /\ (i + 1) + 1 # 1
            /\ ((i + 1) + 1) - 1 = i + 1
        BY <1>1, <3>1
      <4>2. c[i + 1] = w[i + 1]
        BY <4>1
      <4>3. c[(i + 1) + 1] = c[((i + 1) + 1) - 1] \o seqs[(i + 1) + 1]
        BY <1>12, <4>1, Zenon
      <4>4. w[(i + 1) + 1] = w[((i + 1) + 1) - 1] \o seqs[(i + 1) + 1]
        BY <1>8, <3>1, <4>1, Zenon
      <4>5. QED
        BY <4>1, <4>2, <4>3, <4>4, Zenon
    <3>2. QED
      BY <3>1
  <2>3. T = Nat
    <3>1. T \subseteq Nat
      OBVIOUS
    <3> HIDE DEF T
    <3>2. QED
      BY <2>1, <2>2, <3>1, NatInduct, Zenon
  <2>4. \A i \in 1 .. n : i - 1 \in Nat /\ (i - 1) + 1 = i
    BY <1>1
  <2>5. QED
    BY <2>3, <2>4
<1>14. c \in [1 .. n -> Seq(A)]
  BY <1>7, <1>12, <1>13
<1>15. QED
  BY <1>10, <1>12, <1>14, Zenon DEF IsFlat

-----------------------------------------------------------------------------
(* Hex *)

HexChars == {HexDigits[i] : i \in 1 .. 16}
High(byte) == HexDigits[(byte \div 16) + 1]
Low(byte) == HexDigits[(byte % 16) + 1]

LEMMA HexDigitFacts ==
  /\ Len(HexDigits) = 16
  /\ \A i, j \in 1 .. 16 : HexDigits[i] = HexDigits[j] => i = j
  /\ HexChars \cap {"-", ",", " ", "+"} = {}
  /\ {"0", "1"} \subseteq HexChars
<1>1. /\ Len(HexDigits) = 16
      /\ HexDigits[1] = "0" /\ HexDigits[2] = "1" /\ HexDigits[3] = "2" /\ HexDigits[4] = "3"
      /\ HexDigits[5] = "4" /\ HexDigits[6] = "5" /\ HexDigits[7] = "6" /\ HexDigits[8] = "7"
      /\ HexDigits[9] = "8" /\ HexDigits[10] = "9" /\ HexDigits[11] = "a" /\ HexDigits[12] = "b"
      /\ HexDigits[13] = "c" /\ HexDigits[14] = "d" /\ HexDigits[15] = "e" /\ HexDigits[16] = "f"
  BY DEF HexDigits
<1>2. \A i \in 1 .. 16 : \/ i = 1 \/ i = 2 \/ i = 3 \/ i = 4 \/ i = 5 \/ i = 6 \/ i = 7 \/ i = 8
                         \/ i = 9 \/ i = 10 \/ i = 11 \/ i = 12 \/ i = 13 \/ i = 14 \/ i = 15
                         \/ i = 16
  OBVIOUS
<1>3. \A i, j \in 1 .. 16 : HexDigits[i] = HexDigits[j] => i = j
  BY <1>1, <1>2
<1>4. \A i \in 1 .. 16 : HexDigits[i] \notin {"-", ",", " ", "+"}
  BY <1>1, <1>2
<1>5. 1 \in 1 .. 16 /\ 2 \in 1 .. 16
  OBVIOUS
<1>6. "0" \in HexChars /\ "1" \in HexChars
  BY <1>1, <1>5, Zenon DEF HexChars
<1>7. HexChars \cap {"-", ",", " ", "+"} = {}
  BY <1>4 DEF HexChars
<1>8. {"0", "1"} \subseteq HexChars
  BY <1>6
<1>9. QED
  BY <1>1, <1>3, <1>7, <1>8, Zenon

LEMMA DigitRead ==
  ASSUME NEW d \in 0 .. 15
  PROVE  Digit(HexDigits[d + 1]) = d /\ HexDigits[d + 1] \in HexChars
<1>1. d + 1 \in 1 .. 16 /\ (d + 1) - 1 = d
  OBVIOUS
<1>2. Contains(HexDigits, HexDigits[d + 1])
  BY <1>1, HexDigitFacts, Zenon DEF Contains
<1>3. (CHOOSE i \in 1 .. 16 : HexDigits[i] = HexDigits[d + 1]) = d + 1
  BY <1>1, HexDigitFacts, Zenon
<1>4. Digit(HexDigits[d + 1]) = (d + 1) - 1
  BY <1>2, <1>3, Zenon DEF Digit
<1>5. QED
  BY <1>1, <1>4, Zenon DEF HexChars

LEMMA Nibbles ==
  ASSUME NEW byte \in 0 .. 255
  PROVE  /\ byte \div 16 \in 0 .. 15 /\ byte % 16 \in 0 .. 15
         /\ (byte \div 16) * 16 + (byte % 16) = byte
OBVIOUS

(* Two digits of a byte are read back as it. *)
LEMMA ByteRead ==
  ASSUME NEW byte \in 0 .. 255
  PROVE  /\ High(byte) \in HexChars /\ Low(byte) \in HexChars
         /\ Atoul(<<High(byte), Low(byte)>>) = byte
<1>1. /\ Digit(High(byte)) = byte \div 16 /\ Digit(Low(byte)) = byte % 16
      /\ High(byte) \in HexChars /\ Low(byte) \in HexChars
  BY Nibbles, DigitRead, Zenon DEF High, Low
<1> DEFINE str == <<High(byte), Low(byte)>>
<1>2. Len(str) = 2 /\ str[2] = Low(byte) /\ str[1] = High(byte)
  OBVIOUS
<1>3. str[1] \notin {" ", "+"}
  BY <1>1, <1>2, HexDigitFacts
<1> HIDE DEF str
<1>4. 2 # 1 /\ ~(byte % 16 < 0) /\ ~(byte \div 16 < 0)
  BY Nibbles
<1>5. Atoul(str) = (byte \div 16) * 16 + (byte % 16)
  BY <1>1, <1>2, <1>3, <1>4, Zenon DEF Atoul
<1>6. QED
  BY <1>1, <1>5, Nibbles DEF str

(* The digits of what Hex::encode writes. *)
LEMMA EncodedDigits ==
  ASSUME NEW n \in Nat \ {0}, NEW data \in [1 .. n -> 0 .. 255]
  PROVE  /\ HexEncode(data) \in Seq(HexChars)
         /\ Len(HexEncode(data)) = 2 * n
         /\ \A i \in 1 .. n : /\ HexEncode(data)[2 * i - 1] = High(data[i])
                              /\ HexEncode(data)[2 * i] = Low(data[i])
<1> DEFINE pairs == [i \in 1 .. n |-> <<High(data[i]), Low(data[i])>>]
<1>1. \A i \in 1 .. n : data[i] \in 0 .. 255 /\ pairs[i] = <<High(data[i]), Low(data[i])>>
  OBVIOUS
<1>2. ASSUME NEW i \in 1 .. n
      PROVE  /\ pairs[i] \in Seq(HexChars) /\ Len(pairs[i]) = 2
             /\ pairs[i][1] = High(data[i]) /\ pairs[i][2] = Low(data[i])
  <2>1. High(data[i]) \in HexChars /\ Low(data[i]) \in HexChars
    BY <1>1, ByteRead
  <2>2. QED
    BY <1>1, <2>1
<1>3. pairs \in Seq(Seq(HexChars)) /\ Len(pairs) = n /\ pairs # <<>>
  <2>1. pairs \in [1 .. n -> Seq(HexChars)]
    BY <1>2
  <2>2. pairs \in Seq(Seq(HexChars)) /\ Len(pairs) = n
    <3> HIDE DEF pairs
    <3>1. QED
      BY <2>1
  <2>3. QED
    BY <2>2
<1>4. HexEncode(data) = FlattenSeq(pairs)
  <2>1. DOMAIN data = 1 .. n
    OBVIOUS
  <2>2. QED
    BY <2>1, Zenon DEF HexEncode, High, Low
<1> HIDE DEF pairs
<1>5. PICK f : IsFlat(HexChars, pairs, f)
  BY <1>3, Flatten, Zenon
<1>6. /\ f \in [1 .. n -> Seq(HexChars)] /\ HexEncode(data) = f[n] /\ f[1] = pairs[1]
      /\ \A i \in 2 .. n : f[i] = f[i - 1] \o pairs[i]
  BY <1>3, <1>4, <1>5, Zenon DEF IsFlat
<1> DEFINE Read(i) == /\ Len(f[i]) = 2 * i
                      /\ \A j \in 1 .. i : /\ f[i][2 * j - 1] = High(data[j])
                                           /\ f[i][2 * j] = Low(data[j])
           T == {i \in Nat : i + 1 \in 1 .. n => Read(i + 1)}
<1>7. 0 \in T
  <2>1. 1 \in 1 .. n
    OBVIOUS
  <2>2. Read(1)
    BY <1>2, <1>6, <2>1
  <2> HIDE DEF Read
  <2>3. QED
    BY <2>2
<1>8. ASSUME NEW i \in T PROVE i + 1 \in T
  <2> DEFINE k == i + 1
  <2>1. ASSUME k + 1 \in 1 .. n PROVE Read(k + 1)
    <3>1. /\ k \in 1 .. n /\ k + 1 \in 2 .. n /\ (k + 1) - 1 = k /\ k \in Nat \ {0}
      BY <2>1
    <3>2. Read(k)
      BY <3>1
    <3> HIDE DEF k
    <3>3. f[k + 1] = f[k] \o pairs[k + 1]
      BY <1>6, <3>1
    <3>4. f[k] \in Seq(HexChars) /\ pairs[k + 1] \in Seq(HexChars) /\ Len(pairs[k + 1]) = 2
          /\ pairs[k + 1][1] = High(data[k + 1]) /\ pairs[k + 1][2] = Low(data[k + 1])
      BY <1>2, <1>6, <2>1, <3>1
    <3>5. /\ Len(f[k + 1]) = 2 * (k + 1)
          /\ \A j \in 1 .. 2 * (k + 1) :
                f[k + 1][j] = IF j <= 2 * k THEN f[k][j] ELSE pairs[k + 1][j - 2 * k]
      <4>1. /\ Len(f[k] \o pairs[k + 1]) = Len(f[k]) + Len(pairs[k + 1])
            /\ \A j \in 1 .. Len(f[k]) + Len(pairs[k + 1]) :
                  (f[k] \o pairs[k + 1])[j] =
                     IF j <= Len(f[k]) THEN f[k][j] ELSE pairs[k + 1][j - Len(f[k])]
        <5>1. \A s, t \in Seq(HexChars) :
                 /\ Len(s \o t) = Len(s) + Len(t)
                 /\ \A j \in 1 .. Len(s) + Len(t) :
                       (s \o t)[j] = IF j <= Len(s) THEN s[j] ELSE t[j - Len(s)]
          BY ConcatProperties
        <5>2. QED
          BY <3>4, <5>1, Zenon
      <4>2. Len(f[k]) + Len(pairs[k + 1]) = 2 * (k + 1) /\ Len(f[k]) = 2 * k
        BY <3>1, <3>2, <3>4
      <4>3. QED
        BY <3>3, <4>1, <4>2
    <3>6. ASSUME NEW j \in 1 .. k + 1
          PROVE  /\ f[k + 1][2 * j - 1] = High(data[j])
                 /\ f[k + 1][2 * j] = Low(data[j])
      <4>1. CASE j = k + 1
        <5>1. 2 * j - 1 - 2 * k = 1 /\ 2 * j - 2 * k = 2 /\ ~(2 * j - 1 <= 2 * k) /\ ~(2 * j <= 2 * k)
              /\ 2 * j - 1 \in 1 .. 2 * (k + 1) /\ 2 * j \in 1 .. 2 * (k + 1)
          BY <3>1, <4>1
        <5>2. QED
          BY <3>4, <3>5, <4>1, <5>1
      <4>2. CASE j # k + 1
        <5>1. j \in 1 .. k /\ 2 * j - 1 <= 2 * k /\ 2 * j <= 2 * k
              /\ 2 * j - 1 \in 1 .. 2 * (k + 1) /\ 2 * j \in 1 .. 2 * (k + 1)
          BY <3>1, <4>2
        <5>2. QED
          BY <3>2, <3>5, <5>1
      <4>3. QED
        BY <4>1, <4>2
    <3>7. QED
      BY <3>5, <3>6
  <2> HIDE DEF Read
  <2>2. QED
    BY <2>1
<1>9. T = Nat
  <2>1. T \subseteq Nat
    OBVIOUS
  <2> HIDE DEF T
  <2>2. QED
    BY <1>7, <1>8, <2>1, NatInduct, Zenon
<1>10. Read(n)
  <2>1. n - 1 \in Nat /\ (n - 1) + 1 = n /\ n \in 1 .. n
    OBVIOUS
  <2> HIDE DEF Read
  <2>2. QED
    BY <1>9, <2>1
<1>11. f[n] \in Seq(HexChars)
  BY <1>6
<1>12. QED
  BY <1>6, <1>10, <1>11, Zenon

LEMMA BytesAreSequence ==
  ASSUME NEW n \in Nat, NEW data \in [1 .. n -> 0 .. 255]
  PROVE  data \in Seq(Int) /\ Len(data) = n /\ ~Contains(data, -1)
<1>0. \A x \in 0 .. 255 : x \in Int /\ x # -1
  OBVIOUS
<1>1. data \in [1 .. n -> Int] /\ \A i \in 1 .. n : data[i] # -1
  BY <1>0, Zenon
<1>2. data \in Seq(Int)
  BY <1>1, SeqDef
<1>3. Len(data) = n
  BY <1>1, <1>2
<1>4. QED
  BY <1>1, <1>2, <1>3, Zenon DEF Contains

(* Hex::decode reads back what Hex::encode writes. *)
(* Hex::decode gives back the bytes of which Hex::encode wrote the digits,    *)
(* however many they are (hex.cc).                                            *)
THEOREM HexReturns ==
  ASSUME NEW n \in Nat \ {0}, NEW data \in [1 .. n -> 0 .. 255]
  PROVE  HexDecode(HexEncode(data)) = data
<1> DEFINE str == HexEncode(data)
           read == [i \in 1 .. n |-> Atoul(<<str[0 + 2 * i - 1], str[0 + 2 * i]>>)]
<1>1. /\ str \in Seq(HexChars) /\ Len(str) = 2 * n
      /\ \A i \in 1 .. n : str[2 * i - 1] = High(data[i]) /\ str[2 * i] = Low(data[i])
  BY EncodedDigits
<1> HIDE DEF str
<1>2. Len(str) % 2 = 0 /\ Len(str) \div 2 = n
  BY <1>1
<1>3. \A i \in 1 .. n : 0 + 2 * i - 1 = 2 * i - 1 /\ 0 + 2 * i = 2 * i
  OBVIOUS
<1>4. \A i \in 1 .. n : read[i] = data[i]
  <2> SUFFICES ASSUME NEW i \in 1 .. n PROVE read[i] = data[i]
    OBVIOUS
  <2>1. read[i] = Atoul(<<str[0 + 2 * i - 1], str[0 + 2 * i]>>)
    OBVIOUS
  <2>2. data[i] \in 0 .. 255
    OBVIOUS
  <2> HIDE DEF read
  <2>3. read[i] = Atoul(<<High(data[i]), Low(data[i])>>)
    BY <1>1, <1>3, <2>1, Zenon
  <2>4. QED
    BY <2>2, <2>3, ByteRead, Zenon
<1>5. read = data
  <2>1. read = [i \in 1 .. n |-> read[i]] /\ data = [i \in 1 .. n |-> data[i]]
    OBVIOUS
  <2> HIDE DEF read
  <2>2. QED
    BY <1>4, <2>1
<1>6. data \in Seq(Int) /\ Len(data) = n
  BY BytesAreSequence
<1>7. <<>> \o read = data
  BY <1>5, <1>6, ConcatEmptySeq, Zenon
<1>8. ~Contains(data, -1)
  BY BytesAreSequence
<1>9. HexDecode(str) = data
  <2>1. Len(str) % 2 # 1
    BY <1>2
  <2>2. QED
    BY <1>2, <1>7, <1>8, <2>1, Zenon DEF HexDecode
<1>10. QED
  BY <1>9 DEF str

LEMMA IdRead ==
  ASSUME NEW size \in Nat \ {0}, NEW id \in Ids(size)
  PROVE  ReadId(HexEncode(id), size) = id /\ HexEncode(id) \in Seq(HexChars)
<1>1. id \in [1 .. size -> 0 .. 255]
  BY PropagationAssumption DEF Ids
<1>2. HexDecode(HexEncode(id)) = id /\ HexEncode(id) \in Seq(HexChars)
  BY <1>1, HexReturns, EncodedDigits
<1>3. id \in Seq(Int) /\ Len(id) = size
  BY <1>1, BytesAreSequence
<1>4. SubSeq(id, 1, size) = id
  BY <1>3, SubSeqFull, Zenon
<1>5. ~(size < size)
  BY <1>1
<1>6. id # <<>>
  BY <1>3
<1>7. QED
  BY <1>2, <1>3, <1>4, <1>5, <1>6, Zenon DEF ReadId

(* An id is not the outcome of reading one that kills. *)
LEMMA IdAlive ==
  ASSUME NEW size \in Nat \ {0}, NEW id \in Ids(size)
  PROVE  id # Fatal
<1>1. id[1] \in 0 .. 255
  <2>1. id \in [1 .. size -> 0 .. 255]
    BY PropagationAssumption DEF Ids
  <2>2. 1 \in 1 .. size
    OBVIOUS
  <2>3. QED
    BY <2>1, <2>2
<1>2. Fatal[1] = -2 /\ Fatal[1] \notin 0 .. 255
  <2>1. <<-2>>[1] = -2 /\ -2 \notin 0 .. 255
    OBVIOUS
  <2>2. QED
    BY <2>1 DEF Fatal
<1>3. QED
  BY <1>1, <1>2, Zenon

-----------------------------------------------------------------------------
(* The traceparent. *)

LEMMA ContainsConcat ==
  ASSUME NEW A, NEW s \in Seq(A), NEW t \in Seq(A), NEW e
  PROVE  Contains(s \o t, e) <=> Contains(s, e) \/ Contains(t, e)
<1> DEFINE u == s \o t
<1>1. /\ Len(u) = Len(s) + Len(t) /\ Len(s) \in Nat /\ Len(t) \in Nat
      /\ \A j \in 1 .. Len(s) + Len(t) : u[j] = IF j <= Len(s) THEN s[j] ELSE t[j - Len(s)]
  BY ConcatProperties, LenProperties
<1> HIDE DEF u
<1>2. ASSUME Contains(u, e) PROVE Contains(s, e) \/ Contains(t, e)
  <2>1. PICK j \in 1 .. Len(u) : u[j] = e
    BY <1>2 DEF Contains
  <2>2. CASE j <= Len(s)
    BY <1>1, <2>1, <2>2 DEF Contains
  <2>3. CASE ~(j <= Len(s))
    <3>1. j - Len(s) \in 1 .. Len(t)
      BY <1>1, <2>1, <2>3
    <3>2. t[j - Len(s)] = e
      BY <1>1, <2>1, <2>3
    <3>3. QED
      BY <3>1, <3>2 DEF Contains
  <2>4. QED
    BY <2>2, <2>3
<1>3. ASSUME Contains(s, e) PROVE Contains(u, e)
  <2>1. PICK j \in 1 .. Len(s) : s[j] = e
    BY <1>3 DEF Contains
  <2>2. QED
    BY <1>1, <2>1 DEF Contains
<1>4. ASSUME Contains(t, e) PROVE Contains(u, e)
  <2>1. PICK j \in 1 .. Len(t) : t[j] = e
    BY <1>4 DEF Contains
  <2>2. /\ j + Len(s) \in 1 .. Len(u) /\ j + Len(s) \in 1 .. Len(s) + Len(t)
        /\ ~(j + Len(s) <= Len(s)) /\ (j + Len(s)) - Len(s) = j
    BY <1>1, <2>1
  <2>3. u[j + Len(s)] = t[j]
    BY <1>1, <2>2
  <2>4. QED
    BY <2>1, <2>2, <2>3 DEF Contains
<1>5. QED
  BY <1>2, <1>3, <1>4 DEF u

(* One more delimiter, one more piece. *)
LEMMA ExplodeMore ==
  ASSUME NEW A, NEW delimiter \in A, NEW str \in Seq(A), NEW text \in Seq(A),
         Contains(text, delimiter)
  PROVE  Len(Explode(delimiter, str)) + 1 <= Len(Explode(delimiter, str \o text))
<1> DEFINE n == Len(Explode(delimiter, str))
           T == {t \in Seq(A) : Contains(t, delimiter) => n + 1 <= Len(Explode(delimiter, str \o t))}
<1>0. \A s \in Seq(A) : /\ Len(Explode(delimiter, s)) = Len(Closed(delimiter, s)) + 1
                        /\ Len(Explode(delimiter, s)) \in Nat
  BY ExplodeType, AppendProperties, LenProperties
<1>1. <<>> \in T
  BY ContainsNone
<1>2. ASSUME NEW s \in Seq(A), NEW c \in A, s \in T PROVE Append(s, c) \in T
  <2> DEFINE before == str \o s
  <2>1. before \in Seq(A) /\ Append(before, c) \in Seq(A) /\ Append(s, c) \in Seq(A) /\ <<c>> \in Seq(A)
    BY AppendProperties, ConcatProperties
  <2>2. str \o Append(s, c) = Append(before, c) /\ Append(before, c) = before \o <<c>>
    BY <2>1, AppendConcat, AppendIsConcat
  <2>3. Contains(Append(s, c), delimiter) <=> Contains(s, delimiter) \/ c = delimiter
    BY ContainsAppend
  <2>4. /\ n <= Len(Explode(delimiter, before))
        /\ Contains(s, delimiter) => n + 1 <= Len(Explode(delimiter, before))
    BY <1>2, ExplodeGrows
  <2>5. Len(Explode(delimiter, before)) <= Len(Explode(delimiter, Append(before, c)))
    BY <2>1, <2>2, ExplodeGrows
  <2>6. c = delimiter =>
          Len(Explode(delimiter, Append(before, c))) = Len(Explode(delimiter, before)) + 1
    <3>1. ExplodedOn(delimiter, before, c)
      BY <2>1, ExplodeAppend, Zenon
    <3>2. c = delimiter => Closed(delimiter, Append(before, c)) = Explode(delimiter, before)
      BY <3>1, Zenon DEF ExplodedOn
    <3>3. Len(Explode(delimiter, Append(before, c))) = Len(Closed(delimiter, Append(before, c))) + 1
      BY <1>0, <2>1
    <3>4. QED
      BY <3>2, <3>3, Zenon
  <2>7. n \in Nat /\ Len(Explode(delimiter, before)) \in Nat
        /\ Len(Explode(delimiter, Append(before, c))) \in Nat
    BY <1>0, <2>1
  <2> HIDE DEF n, before
  <2>8. Contains(Append(s, c), delimiter) => n + 1 <= Len(Explode(delimiter, Append(before, c)))
    BY <2>3, <2>4, <2>5, <2>6, <2>7
  <2>9. QED
    BY <2>1, <2>2, <2>8
<1>3. Seq(A) \subseteq T
  <2> HIDE DEF T
  <2>1. QED
    BY <1>1, <1>2, SeqInduct, Zenon
<1>4. QED
  BY <1>3

(* Elements listed one by one. *)
IsListed(a, b, c, d) ==
    /\ Append(Append(Append(<<a>>, b), c), d) = <<a, b, c, d>>
    /\ Append(<<a, b>>, c) = <<a, b, c>>
    /\ <<a>> \o <<b, c>> = <<a, b, c>>

LEMMA Listed ==
  ASSUME NEW a, NEW b, NEW c, NEW d
  PROVE  IsListed(a, b, c, d)
<1> DEFINE S == {a, b, c, d}
<1>1. /\ a \in S /\ b \in S /\ c \in S /\ d \in S
      /\ <<a>> \in Seq(S) /\ <<a, b>> \in Seq(S) /\ <<a, b, c>> \in Seq(S)
      /\ <<b, c>> \in Seq(S) /\ <<a, b, c, d>> \in Seq(S)
      /\ Len(<<a, b>>) = 2 /\ Len(<<a, b, c>>) = 3 /\ Len(<<a, b, c, d>>) = 4
  OBVIOUS
<1>2. /\ Append(<<a>>, b) \in Seq(S) /\ Len(Append(<<a>>, b)) = 2
      /\ \A i \in 1 .. 2 : Append(<<a>>, b)[i] = <<a, b>>[i]
  BY <1>1
<1>3. /\ Append(<<a, b>>, c) \in Seq(S) /\ Len(Append(<<a, b>>, c)) = 3
      /\ \A i \in 1 .. 3 : Append(<<a, b>>, c)[i] = <<a, b, c>>[i]
  BY <1>1
<1>4. /\ Append(<<a, b, c>>, d) \in Seq(S) /\ Len(Append(<<a, b, c>>, d)) = 4
      /\ \A i \in 1 .. 4 : Append(<<a, b, c>>, d)[i] = <<a, b, c, d>>[i]
  BY <1>1
<1>5. /\ <<a>> \o <<b, c>> \in Seq(S) /\ Len(<<a>> \o <<b, c>>) = 3
      /\ \A i \in 1 .. 3 : (<<a>> \o <<b, c>>)[i] = <<a, b, c>>[i]
  BY <1>1
<1>6. Append(<<a>>, b) = <<a, b>>
  BY <1>1, <1>2, SeqEqual
<1>7. Append(<<a, b>>, c) = <<a, b, c>>
  BY <1>1, <1>3, SeqEqual
<1>8. Append(<<a, b, c>>, d) = <<a, b, c, d>>
  BY <1>1, <1>4, SeqEqual
<1>9. <<a>> \o <<b, c>> = <<a, b, c>>
  BY <1>1, <1>5, SeqEqual
<1>10. QED
  BY <1>6, <1>7, <1>8, <1>9, Zenon DEF IsListed

LEMMA PairIsSequence ==
  ASSUME NEW A, NEW a \in A, NEW b \in A
  PROVE  <<a, b>> \in Seq(A)
OBVIOUS

TraceChars == HexChars \cup {"-", ",", " "}

(* The four parts of a traceparent. *)
LEMMA TraceParentParts ==
  ASSUME NEW trace \in Ids(TraceBytes), NEW span \in Ids(SpanBytes), NEW sampled \in BOOLEAN
  PROVE  /\ FormatTraceParent(trace, span, sampled) \in Seq(TraceChars)
         /\ Contains(FormatTraceParent(trace, span, sampled), "-")
         /\ Explode("-", FormatTraceParent(trace, span, sampled)) =
              <<<<"0", "0">>, HexEncode(trace), HexEncode(span),
                IF sampled THEN <<"0", "1">> ELSE <<"0", "0">> >>
<1> DEFINE A == TraceChars
           s0 == <<"0", "0">>
           h1 == HexEncode(trace)
           h2 == HexEncode(span)
           fl == IF sampled THEN <<"0", "1">> ELSE <<"0", "0">>
           s1 == Append(s0, "-") \o h1
           s2 == Append(s1, "-") \o h2
           s3 == Append(s2, "-") \o fl
<1>1. /\ "-" \in A /\ "0" \in A /\ "1" \in A /\ "-" \notin HexChars /\ HexChars \subseteq A
  BY HexDigitFacts DEF TraceChars
<1>2. h1 \in Seq(A) /\ h2 \in Seq(A) /\ ~Contains(h1, "-") /\ ~Contains(h2, "-")
  <2>1. h1 \in Seq(HexChars) /\ h2 \in Seq(HexChars)
    BY PropagationAssumption, IdRead
  <2>2. \A h \in Seq(HexChars) : h \in Seq(A) /\ ~Contains(h, "-")
    <3>1. \A h \in Seq(HexChars) : \A i \in 1 .. Len(h) : h[i] \in HexChars
      BY ElementOfSeq
    <3>2. \A h \in Seq(HexChars) : h \in Seq(A)
      BY <1>1, SeqMonotonic
    <3>3. QED
      BY <1>1, <3>1, <3>2, Zenon DEF Contains
  <2> HIDE DEF h1, h2
  <2>3. QED
    BY <2>1, <2>2, Zenon
<1>3. /\ s0 \in Seq(A) /\ fl \in Seq(A) /\ ~Contains(s0, "-") /\ ~Contains(fl, "-")
      /\ <<"-">> \in Seq(A)
  <2>1. s0 \in Seq(A) /\ fl \in Seq(A) /\ <<"-">> \in Seq(A)
    BY <1>1
  <2>2. ~Contains(<<"0", "0">>, "-") /\ ~Contains(<<"0", "1">>, "-")
    BY DEF Contains
  <2>3. QED
    BY <2>1, <2>2
<1> HIDE DEF A, h1, h2
<1>4. /\ Append(s0, "-") = <<"0", "0", "-">>
      /\ (IF sampled THEN <<"-", "0", "1">> ELSE <<"-", "0", "0">>) = <<"-">> \o fl
  <2>1. <<"-">> \o <<"0", "1">> = <<"-", "0", "1">> /\ <<"-">> \o <<"0", "0">> = <<"-", "0", "0">>
    <3>1. IsListed("-", "0", "1", "-") /\ IsListed("-", "0", "0", "-")
      BY Listed, Zenon
    <3>2. QED
      BY <3>1, Zenon DEF IsListed
  <2>2. Append(s0, "-") = <<"0", "0", "-">>
    <3>1. IsListed("0", "0", "-", "-")
      BY Listed, Zenon
    <3>2. QED
      BY <3>1, Zenon DEF IsListed
  <2>3. (IF sampled THEN <<"-", "0", "1">> ELSE <<"-", "0", "0">>) = <<"-">> \o fl
    BY <2>1, Zenon
  <2>4. QED
    BY <2>2, <2>3
<1> HIDE DEF fl, s0
<1>5. Append(s0, "-") \in Seq(A) /\ s1 \in Seq(A)
  BY <1>1, <1>2, <1>3, AppendProperties, ConcatProperties
<1> HIDE DEF s1
<1>6. Append(s1, "-") \in Seq(A) /\ s2 \in Seq(A)
  BY <1>1, <1>2, <1>5, AppendProperties, ConcatProperties
<1> HIDE DEF s2
<1>7. Append(s2, "-") \in Seq(A) /\ s3 \in Seq(A)
  BY <1>1, <1>3, <1>6, AppendProperties, ConcatProperties
<1>8. FormatTraceParent(trace, span, sampled) = s3
  <2>1. s1 \o <<"-">> = Append(s1, "-") /\ s2 \o <<"-">> = Append(s2, "-")
    BY <1>1, <1>5, <1>6, AppendIsConcat
  <2>2. (s2 \o <<"-">>) \o fl = s2 \o (<<"-">> \o fl)
    BY <1>3, <1>6, ConcatAssociative
  <2>3. FormatTraceParent(trace, span, sampled) = s2 \o (<<"-">> \o fl)
    BY <1>4, <2>1, Zenon DEF FormatTraceParent, s1, s2, h1, h2
  <2>4. QED
    BY <2>1, <2>2, <2>3, Zenon
<1>9. Contains(s3, "-")
  <2>1. Contains(Append(s2, "-"), "-")
    BY <1>1, <1>6, ContainsAppend
  <2>2. QED
    BY <1>3, <1>7, <2>1, ContainsConcat
<1>10. Explode("-", s0) = <<s0>>
  <2>1. Closed("-", s0) = <<>> /\ Open("-", s0) = s0
    BY <1>3, ExplodeWhole, Zenon
  <2>2. Explode("-", s0) = Append(<<>>, s0)
    BY <1>3, <2>1, ExplodeType, Zenon
  <2>3. QED
    BY <2>2
<1>11. /\ Explode("-", s1) = Append(Explode("-", s0), h1)
       /\ Explode("-", s2) = Append(Explode("-", s1), h2)
       /\ Explode("-", s3) = Append(Explode("-", s2), fl)
  <2>1. Explode("-", s1) = Append(Explode("-", s0), h1)
    BY <1>1, <1>2, <1>3, ExplodeAfter DEF s1
  <2>2. Explode("-", s2) = Append(Explode("-", s1), h2)
    BY <1>1, <1>2, <1>5, ExplodeAfter DEF s2
  <2>3. Explode("-", s3) = Append(Explode("-", s2), fl)
    BY <1>1, <1>3, <1>6, ExplodeAfter
  <2>4. QED
    BY <2>1, <2>2, <2>3
<1> HIDE DEF s3
<1>12. Append(Append(Append(<<s0>>, h1), h2), fl) = <<s0, h1, h2, fl>>
  <2> HIDE DEF s0, h1, h2, fl
  <2>1. IsListed(s0, h1, h2, fl)
    BY Listed, Zenon
  <2>2. QED
    BY <2>1, Zenon DEF IsListed
<1>13. Explode("-", s3) = <<s0, h1, h2, fl>>
  BY <1>10, <1>11, <1>12, Zenon
<1>14. QED
  BY <1>7, <1>8, <1>9, <1>13, Zenon DEF s0, h1, h2, fl, A

(* parseTraceParent takes the header formatTraceParentHeader wrote, with the  *)
(* caller's ids and flag, for ids of any length and bytes                     *)
(* (provider.cc:221-238, 252-278).                                            *)
THEOREM TraceParentReturns ==
  ASSUME NEW trace \in Ids(TraceBytes), NEW span \in Ids(SpanBytes), NEW sampled \in BOOLEAN
  PROVE  ParseTraceParent(FormatTraceParent(trace, span, sampled)) =
            [joined |-> TRUE, trace |-> trace, span |-> span, sampled |-> sampled]
<1> DEFINE str == FormatTraceParent(trace, span, sampled)
           fl == IF sampled THEN <<"0", "1">> ELSE <<"0", "0">>
           kv == <<<<"0", "0">>, HexEncode(trace), HexEncode(span), fl>>
<1>1. Explode("-", str) = kv /\ str # <<>>
  <2>1. Contains(str, "-") /\ ~Contains(<<>>, "-")
    BY TraceParentParts, ContainsNone
  <2>2. QED
    BY <2>1, TraceParentParts
<1>2. Len(kv) = 4 /\ kv[2] = HexEncode(trace) /\ kv[3] = HexEncode(span) /\ kv[4] = fl
  OBVIOUS
<1>3. (fl = <<"0", "1">>) = sampled
  <2>1. <<"0", "1">> # <<"0", "0">>
    <3>1. <<"0", "1">>[2] = "1" /\ <<"0", "0">>[2] = "0"
      OBVIOUS
    <3>2. QED
      BY <3>1
  <2>2. sampled = TRUE \/ sampled = FALSE
    OBVIOUS
  <2>3. QED
    BY <2>1, <2>2
<1>4. ReadId(HexEncode(trace), TraceBytes) = trace /\ ReadId(HexEncode(span), SpanBytes) = span
  BY PropagationAssumption, IdRead
<1> HIDE DEF kv, fl, str
<1>5. ParseTraceParent(str) =
        [joined |-> TRUE, trace |-> ReadId(kv[2], TraceBytes), span |-> ReadId(kv[3], SpanBytes),
         sampled |-> kv[4] = <<"0", "1">>]
  <2>1. Fatal \notin {ReadId(kv[2], TraceBytes), ReadId(kv[3], SpanBytes)}
    <3>1. trace # Fatal /\ span # Fatal
      BY PropagationAssumption, IdAlive
    <3>2. QED
      BY <1>2, <1>4, <3>1, Zenon
  <2>2. QED
    BY <1>1, <1>2, <2>1, Zenon DEF ParseTraceParent
<1>6. ParseTraceParent(str) =
        [joined |-> TRUE, trace |-> trace, span |-> span, sampled |-> sampled]
  BY <1>2, <1>3, <1>4, <1>5, Zenon
<1>7. QED
  BY <1>6 DEF str

(* Joined traceparents have too many parts. *)
Glued(n, glue, text) == FlattenSeq([i \in 1 .. n |-> (IF i = 1 THEN <<>> ELSE glue) \o text])

LEMMA ManyTexts ==
  ASSUME NEW A, NEW delimiter \in A, NEW glue \in Seq(A), NEW n \in Nat, n >= 2,
         NEW text \in Seq(A), Contains(text, delimiter), Len(Explode(delimiter, text)) = 4
  PROVE  Len(Explode(delimiter, Glued(n, glue, text))) # 4
<1> DEFINE seqs == [i \in 1 .. n |-> (IF i = 1 THEN <<>> ELSE glue) \o text]
           other == glue \o text
<1>1. <<>> \in Seq(A)
  OBVIOUS
<1>2. other \in Seq(A) /\ Contains(other, delimiter) /\ <<>> \o text = text
  BY <1>1, ConcatProperties, ContainsConcat, ConcatEmptySeq
<1>3. \A i \in 1 .. n : seqs[i] = IF i = 1 THEN text ELSE other
  BY <1>2
<1> HIDE DEF other
<1>5. seqs \in [1 .. n -> Seq(A)]
  BY <1>1, <1>2, <1>3
<1> HIDE DEF seqs
<1>6. seqs \in Seq(Seq(A)) /\ Len(seqs) = n /\ seqs # <<>>
  <2>1. seqs \in Seq(Seq(A)) /\ Len(seqs) = n
    BY <1>5
  <2>2. QED
    BY <2>1
<1>7. PICK f : IsFlat(A, seqs, f)
  BY <1>6, Flatten, Zenon
<1>8. /\ f \in [1 .. n -> Seq(A)] /\ FlattenSeq(seqs) = f[n] /\ f[1] = seqs[1]
      /\ \A i \in 2 .. n : f[i] = f[i - 1] \o seqs[i]
  BY <1>6, <1>7, Zenon DEF IsFlat
<1>9. \A i \in 2 .. n : /\ i - 1 \in 1 .. n /\ i \in 1 .. n /\ i # 1
                        /\ f[i - 1] \in Seq(A) /\ f[i] = f[i - 1] \o other
  <2> SUFFICES ASSUME NEW i \in 2 .. n
               PROVE  /\ i - 1 \in 1 .. n /\ i \in 1 .. n /\ i # 1
                      /\ f[i - 1] \in Seq(A) /\ f[i] = f[i - 1] \o other
    OBVIOUS
  <2>1. i - 1 \in 1 .. n /\ i \in 1 .. n /\ i # 1
    OBVIOUS
  <2>2. seqs[i] = other
    BY <1>3, <2>1, Zenon
  <2>3. f[i - 1] \in Seq(A) /\ f[i] = f[i - 1] \o other
    BY <1>8, <2>1, <2>2, Zenon
  <2>4. QED
    BY <2>1, <2>3
<1>10. \A i \in 2 .. n : /\ Len(Explode(delimiter, f[i - 1])) + 1 <= Len(Explode(delimiter, f[i]))
                         /\ Len(Explode(delimiter, f[i - 1])) \in Nat /\ Len(Explode(delimiter, f[i])) \in Nat
  <2>1. \A s \in Seq(A) : Len(Explode(delimiter, s)) \in Nat
    BY ExplodeType, LenProperties
  <2>2. \A s \in Seq(A) : Len(Explode(delimiter, s)) + 1 <= Len(Explode(delimiter, s \o other))
    BY <1>1, <1>2, ExplodeMore
  <2>3. \A s \in Seq(A) : s \o other \in Seq(A)
    BY <1>2, ConcatProperties
  <2>4. QED
    BY <1>9, <2>1, <2>2, <2>3, Zenon
<1> DEFINE T == {i \in Nat : i + 2 \in 2 .. n => Len(Explode(delimiter, f[i + 2])) >= 5}
<1>11. 0 \in T
  <2>1. 2 \in 2 .. n /\ 2 - 1 = 1 /\ 1 \in 1 .. n
    OBVIOUS
  <2>2. f[1] = text
    BY <1>3, <1>8, <2>1
  <2>3. Len(Explode(delimiter, f[1])) + 1 <= Len(Explode(delimiter, f[2])) /\ Len(Explode(delimiter, f[2])) \in Nat
    BY <1>10, <2>1
  <2>4. Len(Explode(delimiter, f[2])) >= 5
    <3>1. Len(Explode(delimiter, f[1])) = 4
      BY <2>2, Zenon
    <3>2. QED
      BY <2>3, <3>1
  <2>5. QED
    BY <2>4
<1>12. ASSUME NEW i \in T PROVE i + 1 \in T
  <2>1. ASSUME (i + 1) + 2 \in 2 .. n PROVE Len(Explode(delimiter, f[(i + 1) + 2])) >= 5
    <3>1. i + 2 \in 2 .. n /\ ((i + 1) + 2) - 1 = i + 2
      BY <2>1
    <3>2. Len(Explode(delimiter, f[i + 2])) >= 5
      BY <3>1
    <3>3. /\ Len(Explode(delimiter, f[i + 2])) + 1 <= Len(Explode(delimiter, f[(i + 1) + 2]))
          /\ Len(Explode(delimiter, f[i + 2])) \in Nat /\ Len(Explode(delimiter, f[(i + 1) + 2])) \in Nat
      BY <1>10, <2>1, <3>1, Zenon
    <3>4. QED
      BY <3>2, <3>3
  <2>2. QED
    BY <2>1
<1>13. T = Nat
  <2>1. T \subseteq Nat
    OBVIOUS
  <2> HIDE DEF T
  <2>2. QED
    BY <1>11, <1>12, <2>1, NatInduct, Zenon
<1>14. n - 2 \in Nat /\ (n - 2) + 2 = n /\ n \in 2 .. n
  OBVIOUS
<1>15. Len(Explode(delimiter, f[n])) # 4
  <2>1. Len(Explode(delimiter, f[n])) >= 5
    BY <1>13, <1>14
  <2>2. Len(Explode(delimiter, f[n])) \in Nat
    BY <1>10, <1>14
  <2>3. \A x \in Nat : x >= 5 => x # 4
    OBVIOUS
  <2>4. QED
    BY <2>1, <2>2, <2>3, Zenon
<1>16. QED
  BY <1>8, <1>15, Zenon DEF seqs, Glued

-----------------------------------------------------------------------------
(* Baggage. *)

(* The greatest of some of the numbers from 1 to n is one of them. *)
LEMMA MaxAmong ==
  ASSUME NEW n \in Nat, NEW S, S \subseteq 1 .. n, S # {}
  PROVE  Max(S) \in S /\ \A y \in S : Max(S) >= y
<1> DEFINE R == {d \in Nat : n - d \in S}
<1>1. R # {}
  <2>1. PICK x \in S : TRUE
    OBVIOUS
  <2>2. x \in 1 .. n
    OBVIOUS
  <2>3. n - x \in Nat /\ n - (n - x) = x
    BY <2>2
  <2>4. n - x \in R
    BY <2>1, <2>3
  <2>5. QED
    BY <2>4
<1>2. R \subseteq Nat
  OBVIOUS
<1> HIDE DEF R
<1>3. PICK d \in R : \A e \in R : ~(<<e, d>> \in OpToRel(<, Nat))
  BY <1>1, <1>2, NatLessThanWellFounded, WFMin, Zenon
<1>4. d \in Nat /\ n - d \in S
  BY <1>3 DEF R
<1>5. ASSUME NEW y \in S PROVE n - d >= y
  <2>1. y \in 1 .. n
    OBVIOUS
  <2>2. n - y \in Nat /\ n - (n - y) = y
    BY <2>1
  <2>3. n - y \in R
    BY <2>2 DEF R
  <2>4. ~(n - y < d)
    <3>1. ASSUME n - y < d PROVE <<n - y, d>> \in OpToRel(<, Nat)
      BY <1>4, <2>2, <3>1 DEF OpToRel
    <3>2. QED
      BY <1>3, <2>3, <3>1, Zenon
  <2>5. QED
    BY <1>4, <2>1, <2>4
<1>6. \E x \in S : \A y \in S : x >= y
  BY <1>4, <1>5
<1>7. QED
  BY <1>6, Zenon DEF Max

(* A key, the sign and a value. *)
IsHalved(sign, key, value) == Explode(sign, (key \o <<sign>>) \o value) = <<key, value>>

LEMMA EntryParts ==
  ASSUME NEW A, NEW sign \in A, NEW key \in Seq(A), NEW value \in Seq(A),
         ~Contains(key, sign), ~Contains(value, sign)
  PROVE  IsHalved(sign, key, value)
<1>1. key \o <<sign>> = Append(key, sign)
  BY AppendIsConcat
<1>2. Explode(sign, Append(key, sign) \o value) = Append(Explode(sign, key), value)
  BY ExplodeAfter
<1>3. Explode(sign, key) = Append(<<>>, key)
  <2>1. Closed(sign, key) = <<>> /\ Open(sign, key) = key
    BY ExplodeWhole
  <2>2. QED
    BY <2>1, ExplodeType, Zenon
<1>4. Append(<<>>, key) = <<key>>
  OBVIOUS
<1>5. Append(<<key>>, value) = <<key, value>>
  <2>1. /\ Append(<<key>>, value) \in Seq(Seq(A)) /\ Len(Append(<<key>>, value)) = 2
        /\ \A i \in 1 .. 2 : Append(<<key>>, value)[i] = <<key, value>>[i]
        /\ <<key, value>> \in Seq(Seq(A)) /\ Len(<<key, value>>) = 2
    OBVIOUS
  <2>2. QED
    BY <2>1, SeqEqual
<1>6. QED
  BY <1>1, <1>2, <1>3, <1>4, <1>5, Zenon DEF IsHalved

Prefix(entries, i) == [j \in 1 .. i |-> entries[j]]

LEMMA PrefixGrows ==
  ASSUME NEW E, NEW n \in Nat, NEW entries \in [1 .. n -> E], NEW i \in Nat, i + 1 \in 1 .. n
  PROVE  Append(Prefix(entries, i), entries[i + 1]) = Prefix(entries, i + 1)
<1>1. /\ Prefix(entries, i) \in [1 .. i -> E]
      /\ Prefix(entries, i + 1) \in [1 .. i + 1 -> E]
  BY DEF Prefix
<1>2. /\ Prefix(entries, i) \in Seq(E) /\ Len(Prefix(entries, i)) = i
      /\ Prefix(entries, i + 1) \in Seq(E) /\ Len(Prefix(entries, i + 1)) = i + 1
  BY <1>1
<1>3. entries[i + 1] \in E
  OBVIOUS
<1> DEFINE more == Append(Prefix(entries, i), entries[i + 1])
<1>4. /\ more \in Seq(E) /\ Len(more) = i + 1
      /\ \A j \in 1 .. i : more[j] = Prefix(entries, i)[j]
      /\ more[i + 1] = entries[i + 1]
  BY <1>2, <1>3, AppendProperties
<1>5. \A j \in 1 .. i : Prefix(entries, i)[j] = entries[j]
  BY DEF Prefix
<1>6. \A j \in 1 .. i + 1 : Prefix(entries, i + 1)[j] = entries[j]
  BY DEF Prefix
<1> HIDE DEF more
<1>7. \A j \in 1 .. i + 1 : j \in 1 .. i \/ j = i + 1
  OBVIOUS
<1>8. \A j \in 1 .. i + 1 : more[j] = Prefix(entries, i + 1)[j]
  BY <1>4, <1>5, <1>6, <1>7, Zenon
<1>9. more = Prefix(entries, i + 1)
  BY <1>2, <1>4, <1>8, SeqEqual
<1>10. QED
  BY <1>9 DEF more

(* Entries joined by a delimiter none of them contains are its pieces. *)
IsJoined(A, delimiter, n, entries, seqs) ==
    /\ entries \in [1 .. n -> Seq(A)] /\ \A i \in 1 .. n : ~Contains(entries[i], delimiter)
    /\ seqs \in [1 .. n -> Seq(A)] /\ seqs[1] = entries[1]
    /\ \A i \in 2 .. n : seqs[i] = <<delimiter>> \o entries[i]

LEMMA EntriesJoined ==
  ASSUME NEW A, NEW delimiter \in A, NEW n \in Nat \ {0}, NEW entries, NEW seqs,
         IsJoined(A, delimiter, n, entries, seqs)
  PROVE  Explode(delimiter, FlattenSeq(seqs)) = entries
<1> USE DEF IsJoined
<1>1. seqs \in Seq(Seq(A)) /\ Len(seqs) = n /\ seqs # <<>>
  <2>1. seqs \in Seq(Seq(A)) /\ Len(seqs) = n
    OBVIOUS
  <2>2. QED
    BY <2>1
<1>2. PICK f : IsFlat(A, seqs, f)
  BY <1>1, Flatten, Zenon
<1>3. /\ f \in [1 .. n -> Seq(A)] /\ FlattenSeq(seqs) = f[n] /\ f[1] = seqs[1]
      /\ \A i \in 2 .. n : f[i] = f[i - 1] \o seqs[i]
  BY <1>1, <1>2, Zenon DEF IsFlat
<1>0. /\ entries \in [1 .. n -> Seq(A)] /\ \A i \in 1 .. n : ~Contains(entries[i], delimiter)
      /\ seqs \in [1 .. n -> Seq(A)] /\ seqs[1] = entries[1]
      /\ \A i \in 2 .. n : seqs[i] = <<delimiter>> \o entries[i]
  OBVIOUS
<1> USE <1>0
<1> HIDE DEF IsJoined
<1> DEFINE Split(i) == Explode(delimiter, f[i]) = Prefix(entries, i)
           T == {i \in Nat : i + 1 \in 1 .. n => Split(i + 1)}
<1>4. 0 \in T
  <2>1. 1 \in 1 .. n /\ f[1] = entries[1] /\ entries[1] \in Seq(A)
    BY <1>3
  <2>2. Closed(delimiter, entries[1]) = <<>> /\ Open(delimiter, entries[1]) = entries[1]
    BY <2>1, ExplodeWhole
  <2>3. Explode(delimiter, entries[1]) = Append(<<>>, entries[1])
    <3>1. \A s \in Seq(A) : Explode(delimiter, s) = Append(Closed(delimiter, s), Open(delimiter, s))
      BY ExplodeType
    <3>2. QED
      BY <2>1, <2>2, <3>1, Zenon
  <2>4. Append(<<>>, entries[1]) = <<entries[1]>>
    OBVIOUS
  <2>5. Prefix(entries, 1) = <<entries[1]>>
    <3>1. /\ Prefix(entries, 1) \in [1 .. 1 -> Seq(A)] /\ Prefix(entries, 1)[1] = entries[1]
      BY <2>1 DEF Prefix
    <3>2. Prefix(entries, 1) \in Seq(Seq(A)) /\ Len(Prefix(entries, 1)) = 1
      <4>1. \A m \in Nat : \A g \in [1 .. m -> Seq(A)] : g \in Seq(Seq(A)) /\ Len(g) = m
        OBVIOUS
      <4>2. 1 \in Nat
        OBVIOUS
      <4>3. QED
        BY <3>1, <4>1, <4>2, Zenon
    <3>3. <<entries[1]>> \in Seq(Seq(A)) /\ Len(<<entries[1]>>) = 1 /\ <<entries[1]>>[1] = entries[1]
      BY <2>1
    <3>4. \A j \in 1 .. 1 : Prefix(entries, 1)[j] = <<entries[1]>>[j]
      BY <3>1, <3>3
    <3>5. QED
      BY <3>2, <3>3, <3>4, SeqEqual
  <2>6. Split(1)
    BY <2>1, <2>3, <2>4, <2>5, Zenon
  <2> HIDE DEF Split
  <2>7. 0 + 1 = 1
    OBVIOUS
  <2>8. QED
    BY <2>6, <2>7
<1>5. ASSUME NEW i \in T PROVE i + 1 \in T
  <2>1. ASSUME (i + 1) + 1 \in 1 .. n PROVE Split((i + 1) + 1)
    <3> DEFINE k == i + 1
    <3>1. k \in Nat /\ k \in 1 .. n /\ k + 1 \in 1 .. n /\ k + 1 \in 2 .. n /\ (k + 1) - 1 = k
      BY <2>1
    <3>2. Split(k)
      BY <3>1
    <3> HIDE DEF k
    <3>3. /\ f[k] \in Seq(A) /\ entries[k + 1] \in Seq(A) /\ ~Contains(entries[k + 1], delimiter)
          /\ f[k + 1] = f[k] \o (<<delimiter>> \o entries[k + 1])
      <4>1. seqs[k + 1] = <<delimiter>> \o entries[k + 1]
        BY <3>1
      <4>2. f[k + 1] = f[k] \o seqs[k + 1]
        BY <1>3, <3>1, Zenon
      <4>3. QED
        BY <1>3, <3>1, <4>1, <4>2
    <3>4. f[k] \o (<<delimiter>> \o entries[k + 1]) = Append(f[k], delimiter) \o entries[k + 1]
      <4>1. \A s, t \in Seq(A) : s \o (<<delimiter>> \o t) = Append(s, delimiter) \o t
        <5> SUFFICES ASSUME NEW s \in Seq(A), NEW t \in Seq(A)
                     PROVE  s \o (<<delimiter>> \o t) = Append(s, delimiter) \o t
          OBVIOUS
        <5>1. <<delimiter>> \in Seq(A)
          OBVIOUS
        <5>2. s \o (<<delimiter>> \o t) = (s \o <<delimiter>>) \o t
          <6>1. Associates(s, <<delimiter>>, t)
            BY <5>1, ConcatAssociates, Zenon
          <6>2. QED
            BY <6>1, Zenon DEF Associates
        <5>3. s \o <<delimiter>> = Append(s, delimiter)
          BY AppendIsConcat
        <5>4. QED
          BY <5>2, <5>3, Zenon
      <4>2. QED
        BY <3>3, <4>1, Zenon
    <3>5. Explode(delimiter, Append(f[k], delimiter) \o entries[k + 1])
            = Append(Explode(delimiter, f[k]), entries[k + 1])
      <4>1. \A s, t \in Seq(A) : ~Contains(t, delimiter) =>
              Explode(delimiter, Append(s, delimiter) \o t) = Append(Explode(delimiter, s), t)
        BY ExplodeAfter
      <4>2. QED
        BY <3>3, <4>1, Zenon
    <3>6. Append(Prefix(entries, k), entries[k + 1]) = Prefix(entries, k + 1)
      <4>1. \A j \in Nat : j + 1 \in 1 .. n =>
              Append(Prefix(entries, j), entries[j + 1]) = Prefix(entries, j + 1)
        BY PrefixGrows
      <4>2. QED
        BY <3>1, <4>1, Zenon
    <3>7. Split(k + 1)
      BY <3>2, <3>3, <3>4, <3>5, <3>6, Zenon
    <3>8. QED
      BY <3>7, Zenon DEF k
  <2> HIDE DEF Split
  <2>2. QED
    BY <2>1
<1>6. T = Nat
  <2>1. T \subseteq Nat
    OBVIOUS
  <2> HIDE DEF T
  <2>2. QED
    BY <1>4, <1>5, <2>1, NatInduct, Zenon
<1>7. n - 1 \in Nat /\ (n - 1) + 1 = n /\ n \in 1 .. n
  OBVIOUS
<1> HIDE DEF Split
<1>8. Split(n)
  BY <1>6, <1>7
<1>9. Prefix(entries, n) = entries
  BY DEF Prefix
<1>10. QED
  BY <1>3, <1>8, <1>9, Zenon DEF Split

-----------------------------------------------------------------------------
(* What ParseBaggage reads. *)

KeyValues(str) == [i \in DOMAIN Explode(",", str) |-> Explode("=", Explode(",", str)[i])]
Taken(str) == {i \in DOMAIN KeyValues(str) : Len(KeyValues(str)[i]) = 2}
Bearers(str, k) == {i \in Taken(str) : KeyValues(str)[i][1] = k}

LEMMA BaggageRead ==
  ASSUME NEW str
  PROVE  ParseBaggage(str) =
            IF str = <<>> THEN NoBaggage
            ELSE [k \in {KeyValues(str)[i][1] : i \in Taken(str)} |->
                     KeyValues(str)[Max(Bearers(str, k))][2]]
BY Zenon DEF ParseBaggage, KeyValues, Taken, Bearers

(* Both halves of a pair were cut at every separator. *)
LEMMA TakenPlain ==
  ASSUME NEW A, NEW str \in Seq(A)
  PROVE  /\ \A i \in Taken(str) : Plain(KeyValues(str)[i][1]) /\ Plain(KeyValues(str)[i][2])
         /\ Taken(str) \subseteq 1 .. Len(Explode(",", str)) /\ Len(Explode(",", str)) \in Nat
<1> DEFINE pieces == Explode(",", str)
<1>1. pieces \in Seq(Seq(A))
  BY ExplodeType
<1>2. \A i \in 1 .. Len(pieces) : PieceOf(",", str, pieces[i])
  BY ExplodePieces
<1>3. KeyValues(str) = [i \in DOMAIN pieces |-> Explode("=", pieces[i])]
  BY Zenon DEF KeyValues
<1> HIDE DEF pieces
<1>4. DOMAIN pieces = 1 .. Len(pieces) /\ Len(pieces) \in Nat
      /\ \A i \in 1 .. Len(pieces) : pieces[i] \in Seq(A)
  BY <1>1
<1>5. Taken(str) = {i \in 1 .. Len(pieces) : Len(KeyValues(str)[i]) = 2}
  <2>1. DOMAIN KeyValues(str) = 1 .. Len(pieces)
    BY <1>3, <1>4
  <2>2. QED
    BY <2>1, Zenon DEF Taken
<1>6. \A i \in 1 .. Len(pieces) : KeyValues(str)[i] = Explode("=", pieces[i])
  BY <1>3, <1>4
<1>7. \A i \in 1 .. Len(pieces) : \A j \in 1 .. Len(Explode("=", pieces[i])) :
        PieceOf("=", pieces[i], Explode("=", pieces[i])[j])
  <2>1. \A p \in Seq(A) : \A j \in 1 .. Len(Explode("=", p)) : PieceOf("=", p, Explode("=", p)[j])
    BY ExplodePieces
  <2>2. QED
    BY <1>4, <2>1, Zenon
<1>8. ASSUME NEW i \in Taken(str)
      PROVE  Plain(KeyValues(str)[i][1]) /\ Plain(KeyValues(str)[i][2])
  <2>1. i \in 1 .. Len(pieces) /\ Len(KeyValues(str)[i]) = 2
    BY <1>5
  <2>2. 1 \in 1 .. 2 /\ 2 \in 1 .. 2
    OBVIOUS
  <2>3. \A j \in 1 .. 2 : PieceOf("=", pieces[i], KeyValues(str)[i][j])
    BY <1>6, <1>7, <2>1, Zenon
  <2>4. ~Contains(pieces[i], ",")
    BY <1>2, <2>1, Zenon DEF PieceOf
  <2>5. \A j \in 1 .. 2 : Plain(KeyValues(str)[i][j])
    BY <2>3, <2>4, Zenon DEF PieceOf, Plain
  <2>6. QED
    BY <2>2, <2>5, Zenon
<1>9. Taken(str) \subseteq 1 .. Len(pieces)
  BY <1>5
<1>10. QED
  BY <1>4, <1>8, <1>9, Zenon DEF pieces

LEMMA BaggagePlain ==
  ASSUME NEW A, NEW str \in Seq(A)
  PROVE  \A k \in DOMAIN ParseBaggage(str) : Plain(k) /\ Plain(ParseBaggage(str)[k])
<1>1. CASE str = <<>>
  <2>1. ParseBaggage(str) = NoBaggage
    BY <1>1, BaggageRead, Zenon
  <2>2. QED
    BY <2>1 DEF NoBaggage
<1>2. CASE str # <<>>
  <2> DEFINE names == {KeyValues(str)[i][1] : i \in Taken(str)}
  <2>1. ParseBaggage(str) = [k \in names |-> KeyValues(str)[Max(Bearers(str, k))][2]]
    BY <1>2, BaggageRead, Zenon
  <2>2. \A k \in names : \E i \in Taken(str) : k = KeyValues(str)[i][1]
    OBVIOUS
  <2> HIDE DEF names
  <2>3. DOMAIN ParseBaggage(str) = names
        /\ \A k \in names : ParseBaggage(str)[k] = KeyValues(str)[Max(Bearers(str, k))][2]
    BY <2>1
  <2> SUFFICES ASSUME NEW k \in names
               PROVE  Plain(k) /\ Plain(KeyValues(str)[Max(Bearers(str, k))][2])
    BY <2>3, Zenon
  <2>4. PICK i \in Taken(str) : k = KeyValues(str)[i][1]
    BY <2>2
  <2>5. Plain(k)
    BY <2>4, TakenPlain, Zenon
  <2>6. Bearers(str, k) # {}
    BY <2>4, Zenon DEF Bearers
  <2>7. Bearers(str, k) \subseteq Taken(str)
    BY DEF Bearers
  <2>8. Max(Bearers(str, k)) \in Taken(str)
    <3>1. Taken(str) \subseteq 1 .. Len(Explode(",", str)) /\ Len(Explode(",", str)) \in Nat
      BY TakenPlain, Zenon
    <3>2. Bearers(str, k) \subseteq 1 .. Len(Explode(",", str))
      BY <2>7, <3>1, Zenon
    <3>3. Max(Bearers(str, k)) \in Bearers(str, k)
      BY <2>6, <3>1, <3>2, MaxAmong, Zenon
    <3>4. QED
      BY <2>7, <3>3
  <2>9. QED
    BY <2>5, <2>8, TakenPlain, Zenon
<1>3. QED
  BY <1>1, <1>2

IsMap(f) == f = [k \in DOMAIN f |-> f[k]]

(* A text whose pieces are pairs with different keys. *)
Pairs(str, n, keys, values) ==
    /\ str # <<>> /\ DOMAIN Explode(",", str) = 1 .. n
    /\ \A i \in 1 .. n : Explode("=", Explode(",", str)[i]) = <<keys[i], values[i]>>
    /\ \A i, j \in 1 .. n : keys[i] = keys[j] => i = j

AllOf(keys, n) == {keys[i] : i \in 1 .. n}

LEMMA PairsRead ==
  ASSUME NEW str, NEW n \in Nat, NEW keys, NEW values, Pairs(str, n, keys, values)
  PROVE  /\ DOMAIN ParseBaggage(str) = AllOf(keys, n)
         /\ \A i \in 1 .. n : ParseBaggage(str)[keys[i]] = values[i]
         /\ IsMap(ParseBaggage(str))
<1> DEFINE kv == KeyValues(str)
<1>1. kv = [i \in 1 .. n |-> <<keys[i], values[i]>>]
  <2>1. kv = [i \in 1 .. n |-> Explode("=", Explode(",", str)[i])]
    BY Zenon DEF KeyValues, Pairs
  <2> HIDE DEF kv
  <2>2. QED
    BY <2>1, Zenon DEF Pairs
<1> HIDE DEF kv
<1>0. str # <<>> /\ \A i, j \in 1 .. n : keys[i] = keys[j] => i = j
  BY Zenon DEF Pairs
<1>2. DOMAIN kv = 1 .. n
      /\ \A i \in 1 .. n : Len(kv[i]) = 2 /\ kv[i][1] = keys[i] /\ kv[i][2] = values[i]
  <2>1. \A a, b : Len(<<a, b>>) = 2 /\ <<a, b>>[1] = a /\ <<a, b>>[2] = b
    OBVIOUS
  <2> HIDE DEF kv
  <2>2. DOMAIN kv = 1 .. n /\ \A i \in 1 .. n : kv[i] = <<keys[i], values[i]>>
    BY <1>1
  <2>3. QED
    <3> SUFFICES ASSUME NEW i \in 1 .. n
                 PROVE  Len(kv[i]) = 2 /\ kv[i][1] = keys[i] /\ kv[i][2] = values[i]
      BY <2>2
    <3> DEFINE a == keys[i]
               b == values[i]
    <3>1. kv[i] = <<a, b>>
      BY <2>2
    <3> HIDE DEF a, b
    <3>2. Len(kv[i]) = 2 /\ kv[i][1] = a /\ kv[i][2] = b
      BY <3>1
    <3>3. QED
      BY <3>2 DEF a, b
<1> HIDE DEF kv
<1>3. Taken(str) = 1 .. n
  <2>1. Taken(str) = {i \in DOMAIN kv : Len(kv[i]) = 2}
    BY Zenon DEF Taken, kv
  <2>2. QED
    BY <1>2, <2>1
<1>4. \A i \in 1 .. n : Bearers(str, keys[i]) = {i}
  <2> SUFFICES ASSUME NEW i \in 1 .. n PROVE Bearers(str, keys[i]) = {i}
    OBVIOUS
  <2>1. Bearers(str, keys[i]) = {j \in 1 .. n : kv[j][1] = keys[i]}
    BY <1>3, Zenon DEF Bearers, kv
  <2>2. \A j \in 1 .. n : kv[j][1] = keys[i] <=> j = i
    BY <1>0, <1>2
  <2>3. QED
    BY <2>1, <2>2
<1>5. \A i \in 1 .. n : Max({i}) = i
  <2> SUFFICES ASSUME NEW i \in 1 .. n PROVE Max({i}) = i
    OBVIOUS
  <2>1. {i} \subseteq 1 .. n /\ {i} # {}
    OBVIOUS
  <2>2. Max({i}) \in {i}
    BY <2>1, MaxAmong
  <2>3. QED
    BY <2>2
<1> DEFINE names == {keys[i] : i \in 1 .. n}
<1>6. {kv[i][1] : i \in Taken(str)} = names
  <2>1. \A i \in 1 .. n : kv[i][1] = keys[i]
    BY <1>2
  <2>2. {kv[i][1] : i \in 1 .. n} = {keys[i] : i \in 1 .. n}
    BY <2>1
  <2>3. QED
    BY <1>3, <2>2, Zenon
<1>7. ParseBaggage(str) = [k \in names |-> kv[Max(Bearers(str, k))][2]]
  <2>1. ParseBaggage(str) = [k \in {kv[i][1] : i \in Taken(str)} |-> kv[Max(Bearers(str, k))][2]]
    BY <1>0, BaggageRead, Zenon DEF kv
  <2> HIDE DEF names
  <2>2. QED
    BY <1>6, <2>1, Zenon
<1>8. \A i \in 1 .. n : keys[i] \in names
  OBVIOUS
<1> HIDE DEF names
<1>9. /\ DOMAIN ParseBaggage(str) = names
      /\ \A k \in names : ParseBaggage(str)[k] = kv[Max(Bearers(str, k))][2]
      /\ IsMap(ParseBaggage(str))
  BY <1>7 DEF IsMap
<1>10. \A i \in 1 .. n : ParseBaggage(str)[keys[i]] = values[i]
  <2> SUFFICES ASSUME NEW i \in 1 .. n PROVE ParseBaggage(str)[keys[i]] = values[i]
    OBVIOUS
  <2>1. ParseBaggage(str)[keys[i]] = kv[Max(Bearers(str, keys[i]))][2]
    BY <1>8, <1>9, Zenon
  <2>2. Max(Bearers(str, keys[i])) = i
    BY <1>4, <1>5, Zenon
  <2>3. QED
    BY <1>2, <2>1, <2>2, Zenon
<1>11. QED
  <2>1. DOMAIN ParseBaggage(str) = AllOf(keys, n)
    BY <1>9 DEF names, AllOf
  <2>2. IsMap(ParseBaggage(str))
    BY <1>9, Zenon
  <2>3. QED
    BY <1>10, <2>1, <2>2

-----------------------------------------------------------------------------
(* The baggage arrives. *)

Texts(baggage) == DOMAIN baggage \cup {baggage[k] : k \in DOMAIN baggage}
Arrives(baggage, keys) == ParseBaggage(FormatBaggage(baggage, keys)) = baggage

Item(baggage, keys, i) ==
    (IF i = 1 THEN <<>> ELSE <<",">>) \o keys[i] \o <<"=">> \o baggage[keys[i]]
Items(baggage, keys) == [i \in DOMAIN keys |-> Item(baggage, keys, i)]

LEMMA BaggageWritten ==
  ASSUME NEW baggage, NEW keys
  PROVE  FormatBaggage(baggage, keys) = FlattenSeq(Items(baggage, keys))
BY Zenon DEF FormatBaggage, Items, Item

(* What is written of one key. *)
IsItem(A, comma, sign, key, value) ==
    LET entry == (key \o <<sign>>) \o value
    IN /\ entry \in Seq(A)
       /\ ((<<>> \o key) \o <<sign>>) \o value = entry
       /\ ((<<comma>> \o key) \o <<sign>>) \o value = <<comma>> \o entry
       /\ \A e : Contains(entry, e) <=> Contains(key, e) \/ e = sign \/ Contains(value, e)

LEMMA ItemParts ==
  ASSUME NEW A, NEW comma \in A, NEW sign \in A, NEW key \in Seq(A), NEW value \in Seq(A)
  PROVE  IsItem(A, comma, sign, key, value)
<1> DEFINE c == <<comma>>
           s == <<sign>>
<1>1. c \in Seq(A) /\ s \in Seq(A) /\ \A e : Contains(s, e) <=> e = sign
  <2>1. s \in Seq(A) /\ c \in Seq(A) /\ Len(s) = 1 /\ s[1] = sign
    OBVIOUS
  <2> HIDE DEF s
  <2>2. \A e : Contains(s, e) <=> e = sign
    BY <2>1 DEF Contains
  <2>3. QED
    BY <2>1, <2>2
<1> HIDE DEF c, s
<1>2. /\ key \o s \in Seq(A) /\ (key \o s) \o value \in Seq(A) /\ c \o key \in Seq(A)
      /\ <<>> \o key = key
  BY <1>1, ConcatProperties, ConcatEmptySeq
<1>3. ((c \o key) \o s) \o value = c \o ((key \o s) \o value)
  <2>1. (c \o key) \o s = c \o (key \o s)
    BY <1>1, ConcatAssociative
  <2>2. (c \o (key \o s)) \o value = c \o ((key \o s) \o value)
    <3> DEFINE ks == key \o s
    <3>1. ks \in Seq(A)
      BY <1>2
    <3> HIDE DEF ks
    <3>2. (c \o ks) \o value = c \o (ks \o value)
      BY <1>1, <3>1, ConcatAssociative
    <3>3. QED
      BY <3>2 DEF ks
  <2>3. QED
    BY <2>1, <2>2, Zenon
<1>4. \A e : Contains((key \o s) \o value, e) <=> Contains(key, e) \/ e = sign \/ Contains(value, e)
  <2>1. \A e : Contains(key \o s, e) <=> Contains(key, e) \/ Contains(s, e)
    BY <1>1, ContainsConcat
  <2>2. \A e : Contains((key \o s) \o value, e) <=> Contains(key \o s, e) \/ Contains(value, e)
    BY <1>2, ContainsConcat
  <2>3. QED
    BY <1>1, <2>1, <2>2, Zenon
<1>5. QED
  BY <1>2, <1>3, <1>4, Zenon DEF c, s, IsItem

Separators(A) == "," \in A /\ "=" \in A

LEMMA FirstOf ==
  ASSUME NEW x
  PROVE  Append(<<>>, x)[1] = x
OBVIOUS

LEMMA Single ==
  ASSUME NEW A, NEW c \in A
  PROVE  <<c>> \in Seq(A)
OBVIOUS

Entry(baggage, keys, i) == (keys[i] \o <<"=">>) \o baggage[keys[i]]

(* A map with the order in which it is walked. *)
Walked(A, keys, baggage) ==
    /\ Separators(A) /\ keys \in Seq(Seq(A)) /\ IsInjective(keys)
    /\ baggage \in [ToSet(keys) -> Seq(A)]

LEMMA WalkedKeys ==
  ASSUME NEW A, NEW keys, NEW baggage, Walked(A, keys, baggage)
  PROVE  /\ Len(keys) \in Nat /\ DOMAIN keys = 1 .. Len(keys)
         /\ ToSet(keys) = AllOf(keys, Len(keys))
         /\ \A i \in 1 .. Len(keys) : /\ keys[i] \in Seq(A) /\ keys[i] \in ToSet(keys)
                                       /\ baggage[keys[i]] \in Seq(A)
         /\ \A k \in ToSet(keys) : \E i \in 1 .. Len(keys) : k = keys[i]
         /\ \A i, j \in 1 .. Len(keys) : keys[i] = keys[j] => i = j
<1>1. keys \in Seq(Seq(A)) /\ IsInjective(keys) /\ baggage \in [ToSet(keys) -> Seq(A)]
  BY Zenon DEF Walked
<1> DEFINE n == Len(keys)
<1>2. n \in Nat /\ DOMAIN keys = 1 .. n /\ keys \in [1 .. n -> Seq(A)]
  BY <1>1, LenProperties
<1> HIDE DEF n
<1>3. /\ ToSet(keys) = AllOf(keys, n) /\ \A i \in 1 .. n : keys[i] \in ToSet(keys)
      /\ \A k \in ToSet(keys) : \E i \in 1 .. n : k = keys[i]
  BY <1>2 DEF ToSet, AllOf
<1>4. \A i, j \in 1 .. n : keys[i] = keys[j] => i = j
  BY <1>1, <1>2 DEF IsInjective
<1>5. \A i \in 1 .. n : /\ keys[i] \in Seq(A) /\ keys[i] \in ToSet(keys)
                        /\ baggage[keys[i]] \in Seq(A)
  BY <1>1, <1>2, <1>3
<1>6. QED
  BY <1>2, <1>3, <1>4, <1>5 DEF n

ItemIs(baggage, keys, i) ==
    Items(baggage, keys)[i] =
        IF i = 1 THEN Entry(baggage, keys, i) ELSE <<",">> \o Entry(baggage, keys, i)

LEMMA ItemsRead ==
  ASSUME NEW A, NEW keys, NEW baggage, Walked(A, keys, baggage)
  PROVE  /\ \A i \in 1 .. Len(keys) :
               /\ IsItem(A, ",", "=", keys[i], baggage[keys[i]])
               /\ Entry(baggage, keys, i) \in Seq(A)
               /\ ItemIs(baggage, keys, i)
         /\ Items(baggage, keys) \in [1 .. Len(keys) -> Seq(A)]
<1> DEFINE n == Len(keys)
           seqs == Items(baggage, keys)
<1>1. DOMAIN keys = 1 .. n /\ \A i \in 1 .. n : keys[i] \in Seq(A) /\ baggage[keys[i]] \in Seq(A)
  BY WalkedKeys, Zenon
<1> HIDE DEF n
<1>2. seqs = [i \in 1 .. n |-> Item(baggage, keys, i)]
  BY <1>1, Zenon DEF Items
<1> HIDE DEF seqs
<1>3. ASSUME NEW i \in 1 .. n
      PROVE  /\ IsItem(A, ",", "=", keys[i], baggage[keys[i]])
             /\ Entry(baggage, keys, i) \in Seq(A)
             /\ seqs[i] = IF i = 1 THEN Entry(baggage, keys, i) ELSE <<",">> \o Entry(baggage, keys, i)
             /\ seqs[i] \in Seq(A)
  <2>1. IsItem(A, ",", "=", keys[i], baggage[keys[i]])
    BY <1>1, ItemParts, Zenon DEF Separators, Walked
  <2>2. Entry(baggage, keys, i) \in Seq(A)
    BY <2>1, Zenon DEF IsItem, Entry
  <2>3. seqs[i] = (IF i = 1 THEN <<>> ELSE <<",">>) \o keys[i] \o <<"=">> \o baggage[keys[i]]
    <3>1. seqs[i] = Item(baggage, keys, i)
      BY <1>2
    <3>2. QED
      BY <3>1, Zenon DEF Item
  <2>4. seqs[i] = IF i = 1 THEN Entry(baggage, keys, i) ELSE <<",">> \o Entry(baggage, keys, i)
    BY <2>1, <2>3, Zenon DEF IsItem, Entry
  <2>5. <<",">> \o Entry(baggage, keys, i) \in Seq(A)
    <3>1. <<",">> \in Seq(A)
      BY Single, Zenon DEF Separators, Walked
    <3>2. QED
      BY <2>2, <3>1, ConcatProperties, Zenon
  <2>6. QED
    BY <2>1, <2>2, <2>4, <2>5, Zenon
<1>4. seqs \in [1 .. n -> Seq(A)]
  <2>1. \A i \in 1 .. n : seqs[i] \in Seq(A)
    BY <1>3, Zenon
  <2>2. QED
    BY <1>2, <2>1
<1>5. QED
  BY <1>3, <1>4, Zenon DEF n, seqs, ItemIs

LEMMA NothingWritten ==
  ASSUME NEW A, NEW keys, NEW baggage, Walked(A, keys, baggage), Len(keys) = 0
  PROVE  FormatBaggage(baggage, keys) = <<>> /\ baggage = NoBaggage
<1>1. DOMAIN keys = {} /\ ToSet(keys) = {}
  <2>1. 1 .. 0 = {}
    OBVIOUS
  <2>2. DOMAIN keys = {} /\ \A k \in ToSet(keys) : FALSE
    BY <2>1, WalkedKeys, Zenon
  <2>3. QED
    BY <2>2
<1>2. Items(baggage, keys) = <<>>
  BY <1>1 DEF Items
<1>3. FlattenSeq(<<>>) = <<>>
  BY EmptySeq, Zenon DEF FlattenSeq
<1>4. baggage = NoBaggage
  BY <1>1 DEF NoBaggage, Walked
<1>5. QED
  BY <1>2, <1>3, <1>4, BaggageWritten, Zenon

LEMMA BaggageText ==
  ASSUME NEW A, NEW keys, NEW baggage, Walked(A, keys, baggage)
  PROVE  FormatBaggage(baggage, keys) \in Seq(A)
<1> DEFINE n == Len(keys)
           seqs == Items(baggage, keys)
<1>0. <<>> \in Seq(A)
  BY EmptySeq, Zenon
<1>1. CASE n = 0
  BY <1>0, <1>1, NothingWritten, Zenon
<1>2. CASE n # 0
  <2>1. n \in Nat /\ seqs \in [1 .. n -> Seq(A)]
    BY WalkedKeys, ItemsRead, Zenon
  <2> HIDE DEF n, seqs
  <2>2. n \in 1 .. n
    BY <1>2, <2>1
  <2>3. seqs \in Seq(Seq(A)) /\ Len(seqs) = n
    BY <2>1
  <2>4. seqs # <<>>
    BY <1>2, <2>3, EmptySeq, Zenon
  <2>5. PICK f : IsFlat(A, seqs, f)
    BY <2>3, <2>4, Flatten, Zenon
  <2>6. f \in [1 .. n -> Seq(A)] /\ FlattenSeq(seqs) = f[n]
    BY <2>3, <2>5, Zenon DEF IsFlat
  <2>7. FlattenSeq(seqs) \in Seq(A)
    BY <2>2, <2>6
  <2>8. QED
    BY <2>7, BaggageWritten, Zenon DEF seqs
<1>3. QED
  BY <1>1, <1>2, Zenon

LEMMA PlainArrives ==
  ASSUME NEW A, NEW keys, NEW baggage, Walked(A, keys, baggage),
         \A text \in Texts(baggage) : Plain(text)
  PROVE  Arrives(baggage, keys)
<1> DEFINE n == Len(keys)
           values == [i \in 1 .. n |-> baggage[keys[i]]]
           entries == [i \in 1 .. n |-> Entry(baggage, keys, i)]
           seqs == Items(baggage, keys)
           str == FormatBaggage(baggage, keys)
<1>1. CASE n = 0
  <2>1. ParseBaggage(<<>>) = NoBaggage
    BY BaggageRead, Zenon
  <2>2. QED
    BY <1>1, <2>1, NothingWritten, Zenon DEF Arrives
<1>2. CASE n # 0
  <2>1. n \in Nat /\ DOMAIN baggage = ToSet(keys) /\ ToSet(keys) = AllOf(keys, n)
    <3>1. DOMAIN baggage = ToSet(keys)
      BY DEF Walked
    <3>2. QED
      BY <3>1, WalkedKeys, Zenon
  <2>2. \A k \in ToSet(keys) : Plain(k) /\ Plain(baggage[k])
    BY <2>1 DEF Texts
  <2>3. \A i \in 1 .. n :
           /\ keys[i] \in ToSet(keys) /\ keys[i] \in Seq(A) /\ baggage[keys[i]] \in Seq(A)
           /\ values[i] = baggage[keys[i]] /\ entries[i] = Entry(baggage, keys, i)
    <3>1. \A i \in 1 .. n : values[i] = baggage[keys[i]] /\ entries[i] = Entry(baggage, keys, i)
      OBVIOUS
    <3> HIDE DEF values, entries
    <3>2. QED
      BY <3>1, WalkedKeys, Zenon
  <2>4. entries \in [1 .. n -> Seq(A)]
    <3>1. \A i \in 1 .. n : Entry(baggage, keys, i) \in Seq(A)
      BY ItemsRead, Zenon
    <3>2. QED
      BY <3>1
  <2>5. seqs \in [1 .. n -> Seq(A)]
    BY ItemsRead, Zenon
  <2>6. \A i \in 1 .. n : seqs[i] = IF i = 1 THEN entries[i] ELSE <<",">> \o entries[i]
    <3>1. \A i \in 1 .. n : seqs[i] = IF i = 1 THEN Entry(baggage, keys, i)
                                        ELSE <<",">> \o Entry(baggage, keys, i)
      <4>1. \A i \in 1 .. n : ItemIs(baggage, keys, i)
        BY ItemsRead, Zenon
      <4>2. QED
        BY <4>1, Zenon DEF ItemIs
    <3>2. \A i \in 1 .. n : entries[i] = Entry(baggage, keys, i)
      OBVIOUS
    <3> HIDE DEF n, seqs, entries
    <3>3. QED
      BY <3>1, <3>2, Zenon
  <2> HIDE DEF n, values, entries, seqs, str
  <2>7. n \in Nat \ {0} /\ 1 \in 1 .. n /\ \A i \in 2 .. n : i \in 1 .. n /\ i # 1
    BY <1>2, <2>1
  <2>8. ASSUME NEW i \in 1 .. n
        PROVE  /\ ~Contains(entries[i], ",") /\ Contains(entries[i], "=")
               /\ Explode("=", entries[i]) = <<keys[i], values[i]>>
    <3>1. IsItem(A, ",", "=", keys[i], baggage[keys[i]])
      BY ItemsRead, Zenon DEF n
    <3>2. entries[i] = (keys[i] \o <<"=">>) \o values[i] /\ values[i] = baggage[keys[i]]
      BY <2>3, Zenon DEF Entry
    <3>3. Plain(keys[i]) /\ Plain(values[i]) /\ keys[i] \in Seq(A) /\ values[i] \in Seq(A)
      BY <2>2, <2>3, Zenon
    <3>4. "=" # "," /\ "=" \in A
      BY DEF Separators, Walked
    <3>5. ~Contains(entries[i], ",") /\ Contains(entries[i], "=")
      BY <3>1, <3>2, <3>3, <3>4, Zenon DEF Plain, IsItem
    <3>6. IsHalved("=", keys[i], values[i])
      BY <3>3, <3>4, EntryParts, Zenon DEF Plain
    <3>7. QED
      BY <3>2, <3>5, <3>6, Zenon DEF IsHalved
  <2>9. Explode(",", FlattenSeq(seqs)) = entries
    <3>1. seqs[1] = entries[1] /\ \A i \in 2 .. n : seqs[i] = <<",">> \o entries[i]
      BY <2>6, <2>7, Zenon
    <3>2. IsJoined(A, ",", n, entries, seqs)
      BY <2>4, <2>5, <2>8, <3>1, Zenon DEF IsJoined
    <3>3. "," \in A
      BY Zenon DEF Separators, Walked
    <3>4. QED
      BY <2>7, <3>2, <3>3, EntriesJoined, Zenon
  <2>10. str = FlattenSeq(seqs)
    BY BaggageWritten, Zenon DEF seqs, str
  <2>11. str # <<>>
    <3>1. ASSUME str = <<>> PROVE FALSE
      <4>1. Explode(",", <<>>) = entries
        BY <2>9, <2>10, <3>1, Zenon
      <4>2. Explode(",", <<>>) = Append(<<>>, <<>>)
        BY ExplodeType, ExplodeEmpty, EmptySeq, Zenon
      <4>3. Append(<<>>, <<>>)[1] = <<>>
        BY FirstOf, Zenon
      <4>4. Contains(<<>>, "=")
        BY <2>7, <2>8, <4>1, <4>2, <4>3, Zenon
      <4>5. QED
        BY <4>4, ContainsNone, Zenon
    <3>2. QED
      BY <3>1, Zenon
  <2>12. Pairs(str, n, keys, values)
    <3>1. DOMAIN entries = 1 .. n
      BY <2>4
    <3>2. \A i \in 1 .. n : Explode("=", entries[i]) = <<keys[i], values[i]>>
      BY <2>8, Zenon
    <3>3. Explode(",", str) = entries
      BY <2>9, <2>10, Zenon
    <3>4. \A i, j \in 1 .. n : keys[i] = keys[j] => i = j
      BY WalkedKeys, Zenon DEF n
    <3>5. QED
      BY <2>11, <3>1, <3>2, <3>3, <3>4, Zenon DEF Pairs
  <2>13. /\ DOMAIN ParseBaggage(str) = AllOf(keys, n)
         /\ \A i \in 1 .. n : ParseBaggage(str)[keys[i]] = values[i]
         /\ IsMap(ParseBaggage(str))
    BY <2>7, <2>12, PairsRead, Zenon
  <2>14. ASSUME NEW k \in ToSet(keys) PROVE ParseBaggage(str)[k] = baggage[k]
    <3>1. PICK i \in 1 .. n : k = keys[i]
      BY WalkedKeys, Zenon DEF n
    <3>2. ParseBaggage(str)[keys[i]] = values[i] /\ values[i] = baggage[keys[i]]
      BY <2>3, <2>13, Zenon
    <3>3. QED
      BY <3>1, <3>2, Zenon
  <2>15. ParseBaggage(str) = baggage
    <3>1. baggage = [k \in ToSet(keys) |-> baggage[k]]
      BY DEF Walked
    <3>2. ParseBaggage(str) = [k \in ToSet(keys) |-> ParseBaggage(str)[k]]
      BY <2>1, <2>13, Zenon DEF IsMap
    <3>3. QED
      BY <2>14, <3>1, <3>2
  <2>16. QED
    BY <2>15, Zenon DEF Arrives, str
<1>3. QED
  BY <1>1, <1>2, Zenon

(* Exactly the baggage without a separator in any key or value is read as it  *)
(* was written, whatever its size, its texts and the order of its map         *)
(* (provider.cc:240-277).                                                     *)
THEOREM BaggageReturns ==
  ASSUME NEW A, NEW keys, NEW baggage, Walked(A, keys, baggage)
  PROVE  Arrives(baggage, keys) <=> \A text \in Texts(baggage) : Plain(text)
<1>1. ASSUME Arrives(baggage, keys) PROVE \A text \in Texts(baggage) : Plain(text)
  <2>1. FormatBaggage(baggage, keys) \in Seq(A)
    BY BaggageText, Zenon
  <2>2. \A k \in DOMAIN baggage : Plain(k) /\ Plain(baggage[k])
    BY <1>1, <2>1, BaggagePlain, Zenon DEF Arrives
  <2>3. QED
    BY <2>2 DEF Texts
<1>2. QED
  BY <1>1, PlainArrives, Zenon

(* The baggages of a run are maps in the sense of these lemmas. *)
LEMMA WalkIsWalked ==
  ASSUME NEW A, Separators(A), NEW names, names \subseteq Seq(A), NEW walk \in Walks(names)
  PROVE  /\ Walked(A, walk.keys, walk.baggage)
         /\ \A text \in Texts(walk.baggage) : text \in names
<1>1. PICK keys \in SeqOf(names, 2) :
         IsInjective(keys) /\ walk \in [keys : {keys}, baggage : [ToSet(keys) -> names]]
  BY Zenon DEF Walks
<1>2. walk.keys = keys /\ walk.baggage \in [ToSet(keys) -> names]
  BY <1>1
<1>3. PICK m \in 0 .. 2 : keys \in [1 .. m -> names]
  BY DEF SeqOf
<1>4. m \in Nat /\ keys \in [1 .. m -> Seq(A)]
  BY <1>3
<1>5. keys \in Seq(Seq(A)) /\ ToSet(keys) \subseteq names
  <2>1. keys \in Seq(Seq(A))
    BY <1>4
  <2>2. ToSet(keys) \subseteq names
    BY <1>3 DEF ToSet
  <2>3. QED
    BY <2>1, <2>2
<1>6. walk.baggage \in [ToSet(keys) -> Seq(A)]
  BY <1>2
<1>7. \A text \in Texts(walk.baggage) : text \in names
  BY <1>2, <1>5 DEF Texts
<1>8. QED
  BY <1>1, <1>2, <1>5, <1>6, <1>7, Zenon DEF Walked

(* The characters of a run and those of the headers. *)
HeaderChars == Chars \cup {",", "=", " "}

LEMMA NamesAreTexts == Names \subseteq Seq(HeaderChars) /\ Separators(HeaderChars) /\ " " \in HeaderChars
<1>1. Chars \subseteq HeaderChars /\ Separators(HeaderChars) /\ " " \in HeaderChars
  BY DEF Separators, HeaderChars
<1>2. NameLength \in Nat
  BY PropagationAssumption
<1>3. ASSUME NEW s \in Names PROVE s \in Seq(HeaderChars)
  <2> HIDE DEF HeaderChars
  <2>1. PICK m \in 0 .. NameLength : s \in [1 .. m -> Chars]
    BY <1>3 DEF Names, SeqOf
  <2>2. m \in Nat
    BY <1>2
  <2>3. s \in [1 .. m -> HeaderChars]
    BY <1>1, <2>1
  <2>4. QED
    BY <2>2, <2>3
<1>4. QED
  BY <1>1, <1>3

LEMMA BaggageOfNames == BaggageArrives
<1>1. \A walk \in Walks(Names) :
        Arrives(walk.baggage, walk.keys) <=> \A text \in Texts(walk.baggage) : Plain(text)
  BY NamesAreTexts, WalkIsWalked, BaggageReturns, Zenon
<1>2. QED
  BY <1>1, Zenon DEF BaggageArrives, Arrives, Texts, Format

-----------------------------------------------------------------------------
(* Several baggages in one header. *)

AppendsApart(s, t, c) == s \o Append(t, c) = Append(s \o t, c)

LEMMA AppendPiece ==
  ASSUME NEW B, NEW s \in Seq(B), NEW t \in Seq(B), NEW c \in B
  PROVE  AppendsApart(s, t, c)
<1>1. s \o Append(t, c) = Append(s \o t, c)
  BY AppendConcat
<1>2. QED
  BY <1>1 DEF AppendsApart

(* What follows a delimiter is exploded as if it stood alone. *)
LEMMA ExplodeConcat ==
  ASSUME NEW A, NEW delimiter \in A, NEW str \in Seq(A), NEW text \in Seq(A)
  PROVE  Explode(delimiter, Append(str, delimiter) \o text)
            = Explode(delimiter, str) \o Explode(delimiter, text)
<1> DEFINE before == Append(str, delimiter)
           first == Explode(delimiter, str)
           Apart(t) == /\ Closed(delimiter, before \o t) = first \o Closed(delimiter, t)
                       /\ Open(delimiter, before \o t) = Open(delimiter, t)
           T == {t \in Seq(A) : Apart(t)}
<1>0. before \in Seq(A) /\ first \in Seq(Seq(A))
  BY AppendProperties, ExplodeType
<1>1. <<>> \in T
  <2>1. before \o <<>> = before /\ first \o <<>> = first
    BY <1>0, ConcatEmptySeq, Zenon
  <2>2. ExplodedOn(delimiter, str, delimiter)
    BY ExplodeAppend, Zenon
  <2>3. Apart(<<>>)
    <3>1. Closed(delimiter, <<>>) = <<>> /\ Open(delimiter, <<>>) = <<>>
      BY ExplodeEmpty
    <3>2. Closed(delimiter, before) = first /\ Open(delimiter, before) = <<>>
      BY <2>2, Zenon DEF ExplodedOn
    <3> HIDE DEF before, first
    <3>3. QED
      BY <2>1, <3>1, <3>2, Zenon
  <2>4. <<>> \in Seq(A)
    OBVIOUS
  <2> HIDE DEF Apart
  <2>5. QED
    BY <2>3, <2>4
<1> HIDE DEF before, first
<1>2. ASSUME NEW s \in Seq(A), NEW c \in A, s \in T PROVE Append(s, c) \in T
  <2>1. Append(s, c) \in Seq(A) /\ before \o s \in Seq(A)
    BY <1>0, AppendProperties, ConcatProperties
  <2>2. before \o Append(s, c) = Append(before \o s, c)
    BY <1>0, AppendConcat
  <2>3. Apart(s)
    BY <1>2
  <2>4. ExplodedOn(delimiter, before \o s, c) /\ ExplodedOn(delimiter, s, c)
    BY <2>1, ExplodeAppend, Zenon
  <2>5. /\ Explode(delimiter, before \o s) = Append(Closed(delimiter, before \o s), Open(delimiter, before \o s))
        /\ Explode(delimiter, s) = Append(Closed(delimiter, s), Open(delimiter, s))
        /\ Closed(delimiter, s) \in Seq(Seq(A)) /\ Open(delimiter, s) \in Seq(A)
    BY <2>1, ExplodeType, Zenon
  <2>6. Append(first \o Closed(delimiter, s), Open(delimiter, s))
           = first \o Append(Closed(delimiter, s), Open(delimiter, s))
    <3> DEFINE B == Seq(A)
               closed == Closed(delimiter, s)
               open == Open(delimiter, s)
    <3>1. first \in Seq(B) /\ closed \in Seq(B) /\ open \in B
      BY <1>0, <2>5
    <3> HIDE DEF B, closed, open
    <3>2. AppendsApart(first, closed, open)
      BY <3>1, AppendPiece, Zenon
    <3>3. QED
      BY <3>2, Zenon DEF AppendsApart, closed, open
  <2>7. Explode(delimiter, before \o s) = first \o Explode(delimiter, s)
    BY <2>3, <2>5, <2>6, Zenon
  <2>8. Apart(Append(s, c))
    <3>1. CASE c = delimiter
      BY <2>2, <2>4, <2>7, <3>1, Zenon DEF ExplodedOn
    <3>2. CASE c # delimiter
      BY <2>2, <2>3, <2>4, <3>2, Zenon DEF ExplodedOn
    <3>3. QED
      BY <3>1, <3>2
  <2> HIDE DEF Apart
  <2>9. QED
    BY <2>1, <2>8
<1>3. Seq(A) \subseteq T
  <2> HIDE DEF T
  <2>1. QED
    BY <1>1, <1>2, SeqInduct, Zenon
<1>4. Apart(text)
  <2> HIDE DEF Apart
  <2>1. QED
    BY <1>3
<1>5. /\ Explode(delimiter, before \o text)
            = Append(Closed(delimiter, before \o text), Open(delimiter, before \o text))
      /\ Explode(delimiter, text) = Append(Closed(delimiter, text), Open(delimiter, text))
      /\ Closed(delimiter, text) \in Seq(Seq(A)) /\ Open(delimiter, text) \in Seq(A)
  <2>1. before \o text \in Seq(A)
    BY <1>0, ConcatProperties
  <2>2. QED
    BY <2>1, ExplodeType, Zenon
<1>6. Append(first \o Closed(delimiter, text), Open(delimiter, text))
         = first \o Append(Closed(delimiter, text), Open(delimiter, text))
  <2> DEFINE B == Seq(A)
             closed == Closed(delimiter, text)
             open == Open(delimiter, text)
  <2>1. first \in Seq(B) /\ closed \in Seq(B) /\ open \in B
    BY <1>0, <1>5
  <2> HIDE DEF B, closed, open
  <2>2. AppendsApart(first, closed, open)
    BY <2>1, AppendPiece, Zenon
  <2>3. QED
    BY <2>2, Zenon DEF AppendsApart, closed, open
<1>7. Explode(delimiter, before \o text) = first \o Explode(delimiter, text)
  BY <1>4, <1>5, <1>6, Zenon
<1>8. QED
  BY <1>7, Zenon DEF before, first

PieceCount(str) == Len(Explode(",", str))

IsConcat(f, g, both) ==
    /\ Len(f) \in Nat /\ Len(g) \in Nat /\ DOMAIN f = 1 .. Len(f) /\ DOMAIN g = 1 .. Len(g)
    /\ DOMAIN both = 1 .. Len(f) + Len(g)
    /\ \A i \in 1 .. Len(f) : i \in 1 .. Len(f) + Len(g) /\ both[i] = f[i]
    /\ \A i \in 1 .. Len(g) : Len(f) + i \in 1 .. Len(f) + Len(g) /\ both[Len(f) + i] = g[i]

LEMMA ConcatParts ==
  ASSUME NEW B, NEW f \in Seq(B), NEW g \in Seq(B)
  PROVE  IsConcat(f, g, f \o g)
<1> DEFINE both == f \o g
           m == Len(f)
           n == Len(g)
<1>1. /\ m \in Nat /\ n \in Nat /\ DOMAIN f = 1 .. m /\ DOMAIN g = 1 .. n
      /\ DOMAIN both = 1 .. m + n
      /\ \A j \in 1 .. m + n : both[j] = IF j <= m THEN f[j] ELSE g[j - m]
  BY ConcatProperties, LenProperties
<1> HIDE DEF both, m, n
<1>2. \A i \in 1 .. m : i \in 1 .. m + n /\ both[i] = f[i]
  BY <1>1
<1>3. ASSUME NEW i \in 1 .. n PROVE m + i \in 1 .. m + n /\ both[m + i] = g[i]
  <2>1. m + i \in 1 .. m + n /\ ~(m + i <= m) /\ (m + i) - m = i
    BY <1>1
  <2>2. QED
    BY <1>1, <2>1
<1>4. QED
  BY <1>1, <1>2, <1>3, Zenon DEF IsConcat, both, m, n

(* The pairs read of a text and of what follows it. *)
IsAppended(str, text, all) ==
    /\ PieceCount(str) \in Nat /\ PieceCount(text) \in Nat
    /\ DOMAIN KeyValues(str) = 1 .. PieceCount(str) /\ DOMAIN KeyValues(text) = 1 .. PieceCount(text)
    /\ DOMAIN KeyValues(all) = 1 .. PieceCount(str) + PieceCount(text)
    /\ \A i \in 1 .. PieceCount(str) : KeyValues(all)[i] = KeyValues(str)[i]
    /\ \A i \in 1 .. PieceCount(text) : KeyValues(all)[PieceCount(str) + i] = KeyValues(text)[i]

LEMMA KeyValuesConcat ==
  ASSUME NEW A, NEW comma \in A, comma = ",", NEW str \in Seq(A), NEW text \in Seq(A)
  PROVE  IsAppended(str, text, Append(str, comma) \o text)
<1> DEFINE B == Seq(A)
           all == Append(str, comma) \o text
           first == Explode(",", str)
           second == Explode(",", text)
           both == Explode(",", all)
           m == Len(first)
           n == Len(second)
<1>1. IsConcat(first, second, both)
  <2>1. first \in Seq(B) /\ second \in Seq(B)
    BY ExplodeType
  <2>2. both = first \o second
    BY ExplodeConcat
  <2> HIDE DEF B, first, second, both
  <2>3. QED
    BY <2>1, <2>2, ConcatParts, Zenon
<1>2. /\ KeyValues(str) = [i \in DOMAIN first |-> Explode("=", first[i])]
      /\ KeyValues(text) = [i \in DOMAIN second |-> Explode("=", second[i])]
      /\ KeyValues(all) = [i \in DOMAIN both |-> Explode("=", both[i])]
  BY Zenon DEF KeyValues
<1>3. PieceCount(str) = m /\ PieceCount(text) = n
  BY Zenon DEF PieceCount
<1> HIDE DEF all, first, second, both, m, n
<1>4. /\ m \in Nat /\ n \in Nat /\ DOMAIN first = 1 .. m /\ DOMAIN second = 1 .. n
      /\ DOMAIN both = 1 .. m + n
      /\ \A i \in 1 .. m : i \in 1 .. m + n /\ both[i] = first[i]
      /\ \A i \in 1 .. n : m + i \in 1 .. m + n /\ both[m + i] = second[i]
  BY <1>1, Zenon DEF IsConcat, m, n
<1>5. /\ DOMAIN KeyValues(str) = 1 .. m /\ DOMAIN KeyValues(text) = 1 .. n
      /\ DOMAIN KeyValues(all) = 1 .. m + n
      /\ \A i \in 1 .. m : KeyValues(str)[i] = Explode("=", first[i])
      /\ \A i \in 1 .. n : KeyValues(text)[i] = Explode("=", second[i])
      /\ \A i \in 1 .. m + n : KeyValues(all)[i] = Explode("=", both[i])
  BY <1>2, <1>4
<1>6. /\ \A i \in 1 .. m : KeyValues(all)[i] = KeyValues(str)[i]
      /\ \A i \in 1 .. n : KeyValues(all)[m + i] = KeyValues(text)[i]
  BY <1>4, <1>5, Zenon
<1>7. IsAppended(str, text, all)
  BY <1>3, <1>4, <1>5, <1>6, Zenon DEF IsAppended
<1>8. QED
  BY <1>7, Zenon DEF all

(* The value of a key is the one its last bearer gives. *)
IsLast(str, k, i) == i \in Bearers(str, k) /\ \A j \in Bearers(str, k) : i >= j

LEMMA LastRead ==
  ASSUME NEW A, NEW str \in Seq(A), str # <<>>, NEW k
  PROVE  /\ k \in DOMAIN ParseBaggage(str) <=> Bearers(str, k) # {}
         /\ k \in DOMAIN ParseBaggage(str) => \E i : IsLast(str, k, i)
         /\ \A i : IsLast(str, k, i) => ParseBaggage(str)[k] = KeyValues(str)[i][2]
<1> DEFINE names == {KeyValues(str)[i][1] : i \in Taken(str)}
           last == Max(Bearers(str, k))
<1>1. ParseBaggage(str) = [x \in names |-> KeyValues(str)[Max(Bearers(str, x))][2]]
  BY BaggageRead, Zenon
<1>2. k \in names <=> Bearers(str, k) # {}
  BY DEF Bearers
<1> HIDE DEF names
<1>3. DOMAIN ParseBaggage(str) = names /\ (k \in names => ParseBaggage(str)[k] = KeyValues(str)[last][2])
  BY <1>1
<1>4. Bearers(str, k) \subseteq 1 .. PieceCount(str) /\ PieceCount(str) \in Nat
  <2>1. Taken(str) \subseteq 1 .. PieceCount(str) /\ PieceCount(str) \in Nat
    BY TakenPlain, Zenon DEF PieceCount
  <2>2. QED
    BY <2>1 DEF Bearers
<1> HIDE DEF last
<1>5. Bearers(str, k) # {} => IsLast(str, k, last)
  BY <1>4, MaxAmong, Zenon DEF IsLast, last
<1>6. ASSUME NEW i, IsLast(str, k, i) PROVE ParseBaggage(str)[k] = KeyValues(str)[i][2]
  <2>1. i \in Bearers(str, k) /\ Bearers(str, k) # {}
    BY <1>6 DEF IsLast
  <2>2. i >= last /\ last >= i /\ last \in Bearers(str, k)
    BY <1>5, <1>6, <2>1, Zenon DEF IsLast
  <2>3. i \in 1 .. PieceCount(str) /\ last \in 1 .. PieceCount(str)
    BY <1>4, <2>1, <2>2
  <2>4. i = last
    BY <1>4, <2>2, <2>3
  <2>5. QED
    BY <1>2, <1>3, <2>1, <2>4
<1>7. QED
  BY <1>2, <1>3, <1>5, <1>6, Zenon

(* A text behind another adds what is read of it alone. *)
Overrides(all, earlier, later) ==
    /\ DOMAIN all = DOMAIN earlier \cup DOMAIN later
    /\ \A k \in DOMAIN later : all[k] = later[k]
    /\ \A k \in DOMAIN earlier : k \notin DOMAIN later => all[k] = earlier[k]

IsBorne(str, text, all, k) ==
    /\ \A i \in Bearers(str, k) : i \in 1 .. PieceCount(str) /\ i \in Bearers(all, k)
    /\ \A i \in Bearers(text, k) : i \in 1 .. PieceCount(text) /\ PieceCount(str) + i \in Bearers(all, k)
    /\ \A i \in Bearers(all, k) :
          \/ i \in Bearers(str, k)
          \/ \E j \in Bearers(text, k) : i = PieceCount(str) + j

LEMMA BearersConcat ==
  ASSUME NEW str, NEW text, NEW all, IsAppended(str, text, all), NEW k
  PROVE  IsBorne(str, text, all, k)
<1> DEFINE m == PieceCount(str)
           n == PieceCount(text)
           a == KeyValues(str)
           b == KeyValues(text)
           c == KeyValues(all)
<1>1. /\ m \in Nat /\ n \in Nat /\ DOMAIN a = 1 .. m /\ DOMAIN b = 1 .. n /\ DOMAIN c = 1 .. m + n
      /\ \A i \in 1 .. m : c[i] = a[i]
      /\ \A i \in 1 .. n : c[m + i] = b[i]
  BY Zenon DEF IsAppended
<1>2. /\ Bearers(str, k) = {i \in DOMAIN a : Len(a[i]) = 2 /\ a[i][1] = k}
      /\ Bearers(text, k) = {i \in DOMAIN b : Len(b[i]) = 2 /\ b[i][1] = k}
      /\ Bearers(all, k) = {i \in DOMAIN c : Len(c[i]) = 2 /\ c[i][1] = k}
  BY DEF Bearers, Taken
<1> HIDE DEF m, n, a, b, c
<1> DEFINE Bears(x) == Len(x) = 2 /\ x[1] = k
<1>3. /\ Bearers(str, k) = {i \in 1 .. m : Bears(a[i])}
      /\ Bearers(text, k) = {i \in 1 .. n : Bears(b[i])}
      /\ Bearers(all, k) = {i \in 1 .. m + n : Bears(c[i])}
  BY <1>1, <1>2, Zenon
<1> HIDE DEF Bears
<1>4. \A i \in Bearers(str, k) : i \in 1 .. m /\ i \in Bearers(all, k)
  BY <1>1, <1>3
<1>5. ASSUME NEW i \in Bearers(text, k) PROVE i \in 1 .. n /\ m + i \in Bearers(all, k)
  <2>1. i \in 1 .. n /\ Bears(b[i])
    BY <1>3
  <2>2. m + i \in 1 .. m + n
    BY <1>1, <2>1
  <2>3. QED
    BY <1>1, <1>3, <2>1, <2>2
<1>6. ASSUME NEW i \in Bearers(all, k)
      PROVE  i \in Bearers(str, k) \/ \E j \in Bearers(text, k) : i = m + j
  <2>1. i \in 1 .. m + n /\ Bears(c[i])
    BY <1>3
  <2>2. CASE i <= m
    BY <1>1, <1>3, <2>1, <2>2
  <2>3. CASE ~(i <= m)
    <3>1. i - m \in 1 .. n /\ i = m + (i - m)
      BY <1>1, <2>1, <2>3
    <3>2. Bears(b[i - m])
      BY <1>1, <2>1, <3>1, Zenon
    <3>3. QED
      BY <1>3, <3>1, <3>2
  <2>4. QED
    BY <2>2, <2>3
<1>7. QED
  BY <1>4, <1>5, <1>6, Zenon DEF m, n, IsBorne

LEMMA Extended ==
  ASSUME NEW A, NEW c \in A, NEW s \in Seq(A), NEW t \in Seq(A)
  PROVE  Append(s, c) \o t \in Seq(A) /\ Append(s, c) \o t # <<>>
<1> DEFINE before == Append(s, c)
           all == before \o t
<1>1. before \in Seq(A) /\ Len(before) = Len(s) + 1 /\ Len(s) \in Nat
  BY AppendProperties, LenProperties
<1> HIDE DEF before
<1>2. all \in Seq(A) /\ Len(all) = Len(before) + Len(t) /\ Len(t) \in Nat
  BY <1>1, ConcatProperties, LenProperties
<1>3. Len(all) # 0
  BY <1>1, <1>2
<1>4. Len(<<>>) = 0
  OBVIOUS
<1> HIDE DEF all
<1>5. all # <<>>
  BY <1>3, <1>4, Zenon
<1>6. QED
  BY <1>2, <1>5 DEF all, before

IsRead(str) ==
    \A k :
        /\ k \in DOMAIN ParseBaggage(str) <=> Bearers(str, k) # {}
        /\ k \in DOMAIN ParseBaggage(str) => \E i : IsLast(str, k, i)
        /\ \A i : IsLast(str, k, i) => ParseBaggage(str)[k] = KeyValues(str)[i][2]

LEMMA Read ==
  ASSUME NEW A, NEW str \in Seq(A), str # <<>>
  PROVE  IsRead(str)
BY LastRead, Zenon DEF IsRead

LEMMA Behinds ==
  ASSUME NEW m \in Nat, NEW n \in Nat, NEW i \in 1 .. n
  PROVE  /\ \A j \in 1 .. m : m + i >= j
         /\ \A x \in 1 .. n : i >= x => m + i >= m + x
OBVIOUS

LEMMA ParseConcat ==
  ASSUME NEW A, NEW comma \in A, comma = ",",
         NEW str \in Seq(A), NEW text \in Seq(A), str # <<>>, text # <<>>
  PROVE  /\ Append(str, comma) \o text \in Seq(A)
         /\ Overrides(ParseBaggage(Append(str, comma) \o text), ParseBaggage(str), ParseBaggage(text))
<1> DEFINE all == Append(str, comma) \o text
<1>1. all \in Seq(A) /\ all # <<>>
  BY Extended
<1>2. IsAppended(str, text, all)
  BY KeyValuesConcat
<1> HIDE DEF all
<1> DEFINE m == PieceCount(str)
           n == PieceCount(text)
<1>3. m \in Nat /\ n \in Nat
  BY <1>2 DEF IsAppended
<1>8. /\ \A k : \A i \in Bearers(str, k) : i \in 1 .. m /\ i \in Bearers(all, k)
      /\ \A k : \A i \in Bearers(text, k) : i \in 1 .. n /\ m + i \in Bearers(all, k)
      /\ \A k : \A i \in Bearers(all, k) :
            i \in Bearers(str, k) \/ \E j \in Bearers(text, k) : i = m + j
  <2>1. ASSUME NEW k
        PROVE  /\ \A i \in Bearers(str, k) : i \in 1 .. m /\ i \in Bearers(all, k)
               /\ \A i \in Bearers(text, k) : i \in 1 .. n /\ m + i \in Bearers(all, k)
               /\ \A i \in Bearers(all, k) :
                     i \in Bearers(str, k) \/ \E j \in Bearers(text, k) : i = m + j
    <3>1. IsBorne(str, text, all, k)
      BY <1>2, BearersConcat, Zenon
    <3>2. QED
      BY <3>1, Zenon DEF IsBorne, m, n
  <2>2. QED
    BY <2>1, Zenon
<1>10. IsRead(all) /\ IsRead(str) /\ IsRead(text)
  BY <1>1, Read, Zenon
<1>9. /\ \A i \in 1 .. m : KeyValues(all)[i] = KeyValues(str)[i]
      /\ \A i \in 1 .. n : KeyValues(all)[m + i] = KeyValues(text)[i]
  BY <1>2, Zenon DEF IsAppended
<1> HIDE DEF m, n
<1>4. DOMAIN ParseBaggage(all) = DOMAIN ParseBaggage(str) \cup DOMAIN ParseBaggage(text)
  <2>1. ASSUME NEW k
        PROVE  Bearers(all, k) # {} <=> Bearers(str, k) # {} \/ Bearers(text, k) # {}
    BY <1>8, Zenon
  <2>2. \A k : /\ k \in DOMAIN ParseBaggage(all) <=> Bearers(all, k) # {}
               /\ k \in DOMAIN ParseBaggage(str) <=> Bearers(str, k) # {}
               /\ k \in DOMAIN ParseBaggage(text) <=> Bearers(text, k) # {}
    BY <1>10, Zenon DEF IsRead
  <2>3. \A k : k \in DOMAIN ParseBaggage(all)
                 <=> k \in DOMAIN ParseBaggage(str) \cup DOMAIN ParseBaggage(text)
    BY <2>1, <2>2, Zenon
  <2>4. QED
    BY <2>3, Zenon
<1>5. ASSUME NEW k \in DOMAIN ParseBaggage(text)
      PROVE  ParseBaggage(all)[k] = ParseBaggage(text)[k]
  <2>1. PICK i : IsLast(text, k, i)
    BY <1>10, Zenon DEF IsRead
  <2>2. i \in Bearers(text, k) /\ \A j \in Bearers(text, k) : i >= j
    BY <2>1, Zenon DEF IsLast
  <2>3. i \in 1 .. n /\ m + i \in Bearers(all, k)
    BY <1>8, <2>2, Zenon
  <2>4. ASSUME NEW j \in Bearers(all, k) PROVE m + i >= j
    <3>1. CASE j \in Bearers(str, k)
      <4>1. j \in 1 .. m
        BY <1>8, <3>1, Zenon
      <4>2. QED
        BY <1>3, <2>3, <4>1, Behinds, Zenon
    <3>2. ASSUME NEW x \in Bearers(text, k), j = m + x PROVE m + i >= j
      <4>1. x \in 1 .. n /\ i >= x
        BY <1>8, <2>2, Zenon
      <4>2. QED
        BY <1>3, <2>3, <3>2, <4>1, Behinds, Zenon
    <3>3. QED
      BY <1>8, <3>1, <3>2, Zenon
  <2>5. IsLast(all, k, m + i)
    BY <2>3, <2>4, Zenon DEF IsLast
  <2>6. KeyValues(all)[m + i] = KeyValues(text)[i]
    BY <1>9, <2>3, Zenon
  <2>7. ParseBaggage(all)[k] = KeyValues(all)[m + i][2] /\ ParseBaggage(text)[k] = KeyValues(text)[i][2]
    BY <1>10, <2>1, <2>5, Zenon DEF IsRead
  <2>8. QED
    BY <2>6, <2>7, Zenon
<1>6. ASSUME NEW k \in DOMAIN ParseBaggage(str), k \notin DOMAIN ParseBaggage(text)
      PROVE  ParseBaggage(all)[k] = ParseBaggage(str)[k]
  <2>1. PICK i : IsLast(str, k, i)
    BY <1>10, Zenon DEF IsRead
  <2>2. i \in Bearers(str, k) /\ \A j \in Bearers(str, k) : i >= j
    BY <2>1, Zenon DEF IsLast
  <2>3. Bearers(text, k) = {}
    BY <1>6, <1>10, Zenon DEF IsRead
  <2>4. i \in 1 .. m /\ i \in Bearers(all, k) /\ \A j \in Bearers(all, k) : j \in Bearers(str, k)
    BY <1>8, <2>2, <2>3, Zenon
  <2>5. IsLast(all, k, i)
    BY <2>2, <2>4, Zenon DEF IsLast
  <2>6. KeyValues(all)[i] = KeyValues(str)[i]
    BY <1>9, <2>4, Zenon
  <2>7. ParseBaggage(all)[k] = KeyValues(all)[i][2] /\ ParseBaggage(str)[k] = KeyValues(str)[i][2]
    BY <1>10, <2>1, <2>5, Zenon DEF IsRead
  <2>8. QED
    BY <2>6, <2>7, Zenon
<1>7. QED
  BY <1>1, <1>4, <1>5, <1>6, Zenon DEF Overrides, all

-----------------------------------------------------------------------------
(* A baggage behind another one. *)

LEMMA SomeLength ==
  ASSUME NEW B, NEW s \in Seq(B), s # <<>>
  PROVE  Len(s) \in Nat \ {0}
OBVIOUS

LeadsBy(c, s, all) == \A e : Contains(all, e) <=> e = c \/ Contains(s, e)

LEMMA CharBefore ==
  ASSUME NEW A, NEW c \in A, NEW s \in Seq(A)
  PROVE  <<c>> \o s \in Seq(A) /\ LeadsBy(c, s, <<c>> \o s)
<1> DEFINE one == <<c>>
<1>1. one \in Seq(A) /\ Len(one) = 1 /\ one[1] = c
  OBVIOUS
<1> HIDE DEF one
<1>2. \A e : Contains(one, e) <=> e = c
  BY <1>1 DEF Contains
<1>3. one \o s \in Seq(A)
  BY <1>1, ConcatProperties
<1>4. \A e : Contains(one \o s, e) <=> Contains(one, e) \/ Contains(s, e)
  BY <1>1, ContainsConcat
<1>5. QED
  BY <1>2, <1>3, <1>4, Zenon DEF one, LeadsBy

LEMMA FlattenFirst ==
  ASSUME NEW A, NEW n \in Nat \ {0}, NEW seqs \in [1 .. n -> Seq(A)], NEW others \in [1 .. n -> Seq(A)],
         NEW glue \in Seq(A), others[1] = glue \o seqs[1], \A i \in 2 .. n : others[i] = seqs[i]
  PROVE  FlattenSeq(others) = glue \o FlattenSeq(seqs)
<1>1. /\ seqs \in Seq(Seq(A)) /\ Len(seqs) = n /\ seqs # <<>>
      /\ others \in Seq(Seq(A)) /\ Len(others) = n /\ others # <<>>
  <2>1. seqs \in Seq(Seq(A)) /\ Len(seqs) = n /\ others \in Seq(Seq(A)) /\ Len(others) = n
    OBVIOUS
  <2>2. QED
    BY <2>1
<1>2. PICK f : IsFlat(A, seqs, f)
  BY <1>1, Flatten, Zenon
<1>3. PICK g : IsFlat(A, others, g)
  BY <1>1, Flatten, Zenon
<1>4. /\ f \in [1 .. n -> Seq(A)] /\ FlattenSeq(seqs) = f[n] /\ f[1] = seqs[1]
      /\ \A i \in 2 .. n : f[i] = f[i - 1] \o seqs[i]
  BY <1>1, <1>2, Zenon DEF IsFlat
<1>5. /\ FlattenSeq(others) = g[n] /\ g[1] = others[1]
      /\ \A i \in 2 .. n : g[i] = g[i - 1] \o others[i]
  BY <1>1, <1>3, Zenon DEF IsFlat
<1> DEFINE T == {i \in Nat : i + 1 \in 1 .. n => g[i + 1] = glue \o f[i + 1]}
<1>6. 0 \in T
  <2>1. g[1] = glue \o f[1] /\ 0 + 1 = 1
    BY <1>4, <1>5
  <2>2. g[0 + 1] = glue \o f[0 + 1]
    BY <2>1, Zenon
  <2>3. QED
    BY <2>2
<1>7. ASSUME NEW i \in T PROVE i + 1 \in T
  <2> DEFINE j == i + 1
             k == j + 1
  <2>1. ASSUME k \in 1 .. n PROVE g[k] = glue \o f[k]
    <3>1. j \in 1 .. n /\ k \in 2 .. n /\ k - 1 = j
      BY <2>1
    <3>2. g[j] = glue \o f[j]
      BY <3>1
    <3> HIDE DEF j, k
    <3>3. f[j] \in Seq(A) /\ seqs[k] \in Seq(A) /\ others[k] = seqs[k]
      BY <1>4, <2>1, <3>1
    <3>4. g[k] = (glue \o f[j]) \o seqs[k] /\ f[k] = f[j] \o seqs[k]
      BY <1>4, <1>5, <3>1, <3>2, <3>3, Zenon
    <3>5. (glue \o f[j]) \o seqs[k] = glue \o (f[j] \o seqs[k])
      <4>1. Associates(glue, f[j], seqs[k])
        BY <3>3, ConcatAssociates, Zenon
      <4>2. QED
        BY <4>1, Zenon DEF Associates
    <3>6. QED
      BY <3>4, <3>5, Zenon
  <2>2. QED
    BY <2>1
<1>8. T = Nat
  <2>1. T \subseteq Nat
    OBVIOUS
  <2> HIDE DEF T
  <2>2. QED
    BY <1>6, <1>7, <2>1, NatInduct, Zenon
<1>9. n - 1 \in Nat /\ (n - 1) + 1 = n /\ n \in 1 .. n
  OBVIOUS
<1>10. g[n] = glue \o f[n]
  <2>1. n - 1 \in T
    BY <1>8, <1>9, Zenon
  <2>2. (n - 1) + 1 \in 1 .. n => g[(n - 1) + 1] = glue \o f[(n - 1) + 1]
    BY <2>1, Zenon
  <2>3. QED
    BY <1>9, <2>2, Zenon
<1>11. QED
  BY <1>4, <1>5, <1>10, Zenon

(* A walk that can stand behind another. *)
CanFollow(A, walk) ==
    /\ " " \in A /\ Walked(A, walk.keys, walk.baggage) /\ walk.keys # <<>>
    /\ Blanked(walk) \notin DOMAIN walk.baggage
    /\ \A text \in Texts(walk.baggage) : Plain(text)

(* Its keys as they are read there. *)
KeysBehind(walk) == [i \in 1 .. Len(walk.keys) |-> IF i = 1 THEN Blanked(walk) ELSE walk.keys[i]]

LEMMA FollowerKeys ==
  ASSUME NEW A, NEW walk, CanFollow(A, walk)
  PROVE  /\ Len(walk.keys) \in Nat \ {0} /\ Blanked(walk) \in Seq(A)
         /\ DOMAIN walk.baggage = ToSet(walk.keys)
         /\ walk.keys \in [1 .. Len(walk.keys) -> Seq(A)]
         /\ walk.keys[1] \in ToSet(walk.keys)
         /\ \A i \in 1 .. Len(walk.keys) : Blanked(walk) # walk.keys[i]
<1> DEFINE keys == walk.keys
           n == Len(keys)
<1>1. Walked(A, keys, walk.baggage) /\ keys # <<>> /\ " " \in A /\ Blanked(walk) \notin DOMAIN walk.baggage
  BY Zenon DEF CanFollow
<1>2. keys \in Seq(Seq(A)) /\ DOMAIN walk.baggage = ToSet(keys)
  BY <1>1 DEF Walked
<1>3. n \in Nat /\ keys \in [1 .. n -> Seq(A)] /\ \A i \in 1 .. n : keys[i] \in ToSet(keys)
  <2>1. n \in Nat /\ \A i \in 1 .. n : keys[i] \in ToSet(keys)
    BY <1>1, WalkedKeys, Zenon
  <2>2. keys \in [1 .. n -> Seq(A)]
    BY <1>2
  <2>3. QED
    BY <2>1, <2>2
<1>4. n # 0
  <2>1. n \in Nat \ {0}
    BY <1>1, <1>2, SomeLength, Zenon
  <2>2. QED
    BY <2>1
<1> HIDE DEF keys, n
<1>5. 1 \in 1 .. n
  BY <1>3, <1>4
<1>6. Blanked(walk) \in Seq(A)
  <2>1. keys[1] \in Seq(A)
    BY <1>3, <1>5
  <2>2. <<" ">> \o keys[1] \in Seq(A)
    BY <1>1, <2>1, CharBefore, Zenon
  <2>3. QED
    BY <2>2, Zenon DEF Blanked, keys
<1>7. QED
  BY <1>1, <1>2, <1>3, <1>4, <1>5, <1>6 DEF keys, n

LEMMA FollowerWalked ==
  ASSUME NEW A, NEW walk, CanFollow(A, walk)
  PROVE  /\ Walked(A, KeysBehind(walk), Behind(walk))
         /\ \A text \in Texts(Behind(walk)) : Plain(text)
         /\ Behind(walk)[Blanked(walk)] = walk.baggage[walk.keys[1]]
         /\ \A i \in 2 .. Len(walk.keys) : Behind(walk)[walk.keys[i]] = walk.baggage[walk.keys[i]]
<1> DEFINE keys == walk.keys
           baggage == walk.baggage
           n == Len(keys)
           first == Blanked(walk)
           more == KeysBehind(walk)
           late == Behind(walk)
<1>1. /\ n \in Nat \ {0} /\ first \in Seq(A) /\ DOMAIN baggage = ToSet(keys)
      /\ keys \in [1 .. n -> Seq(A)] /\ keys[1] \in ToSet(keys)
      /\ \A i \in 1 .. n : first # keys[i]
  BY FollowerKeys, Zenon
<1>2. Walked(A, keys, baggage) /\ \A text \in Texts(baggage) : Plain(text)
  BY Zenon DEF CanFollow
<1>3. /\ more = [i \in 1 .. n |-> IF i = 1 THEN first ELSE keys[i]]
      /\ late = [k \in (DOMAIN baggage \ {keys[1]}) \cup {first} |->
                    IF k = first THEN baggage[keys[1]] ELSE baggage[k]]
  BY Zenon DEF KeysBehind, Behind
<1>4. /\ \A i \in 1 .. n : keys[i] \in ToSet(keys) /\ baggage[keys[i]] \in Seq(A)
      /\ \A k \in ToSet(keys) : \E i \in 1 .. n : k = keys[i]
      /\ \A i, j \in 1 .. n : keys[i] = keys[j] => i = j
  BY <1>2, WalkedKeys, Zenon
<1>5. Separators(A) /\ baggage \in [ToSet(keys) -> Seq(A)]
  BY <1>2, Zenon DEF Walked
<1>6. first \notin ToSet(keys)
  BY <1>1, <1>4, Zenon
<1>7. Plain(first)
  <2>1. Plain(keys[1]) /\ keys[1] \in Seq(A)
    <3>1. keys[1] \in Texts(baggage)
      BY <1>1, Zenon DEF Texts
    <3>2. QED
      BY <1>1, <1>2, <3>1
  <2>2. \A e : Contains(first, e) <=> e = " " \/ Contains(keys[1], e)
    <3>1. " " \in A
      BY Zenon DEF CanFollow
    <3>2. LeadsBy(" ", keys[1], <<" ">> \o keys[1])
      BY <2>1, <3>1, CharBefore, Zenon
    <3>3. QED
      BY <3>2, Zenon DEF Blanked, LeadsBy
  <2>3. " " # "," /\ " " # "="
    BY Zenon
  <2>4. QED
    BY <2>1, <2>2, <2>3, Zenon DEF Plain
<1> HIDE DEF keys, baggage, n, first, more, late
<1>8. 1 \in 1 .. n /\ \A i \in 2 .. n : i \in 1 .. n /\ i # 1
  BY <1>1
<1>9. /\ DOMAIN more = 1 .. n /\ more[1] = first
      /\ \A i \in 2 .. n : more[i] = keys[i]
      /\ \A i \in 1 .. n : i # 1 => more[i] = keys[i]
  BY <1>3, <1>8
<1>10. more \in Seq(Seq(A)) /\ Len(more) = n
  <2>1. more \in [1 .. n -> Seq(A)] /\ n \in Nat
    BY <1>1, <1>3
  <2>2. QED
    BY <2>1
<1>11. ToSet(more) = (ToSet(keys) \ {keys[1]}) \cup {first}
  <2>1. ToSet(more) = {more[i] : i \in 1 .. n}
    BY <1>9, Zenon DEF ToSet
  <2>2. ASSUME NEW i \in 1 .. n PROVE more[i] \in (ToSet(keys) \ {keys[1]}) \cup {first}
    <3>1. CASE i = 1
      BY <1>9, <3>1
    <3>2. CASE i # 1
      <4>1. more[i] = keys[i] /\ keys[i] \in ToSet(keys) /\ keys[i] # keys[1]
        BY <1>4, <1>8, <1>9, <3>2, Zenon
      <4>2. QED
        BY <4>1
    <3>3. QED
      BY <3>1, <3>2
  <2>3. ASSUME NEW k \in (ToSet(keys) \ {keys[1]}) \cup {first} PROVE \E i \in 1 .. n : k = more[i]
    <3>1. CASE k = first
      BY <1>8, <1>9, <3>1, Zenon
    <3>2. CASE k # first
      <4>1. PICK i \in 1 .. n : k = keys[i]
        BY <1>4, <3>2
      <4>2. i # 1
        BY <3>2, <4>1
      <4>3. QED
        BY <1>9, <4>1, <4>2, Zenon
    <3>3. QED
      BY <3>1, <3>2
  <2>4. QED
    BY <2>1, <2>2, <2>3
<1>12. IsInjective(more)
  <2>1. \A i, j \in 1 .. n : more[i] = more[j] => i = j
    <3> SUFFICES ASSUME NEW i \in 1 .. n, NEW j \in 1 .. n, more[i] = more[j] PROVE i = j
      OBVIOUS
    <3>1. CASE i = 1 /\ j = 1
      BY <3>1
    <3>2. CASE i = 1 /\ j # 1
      BY <1>1, <1>9, <3>2, Zenon DEF n, keys, first
    <3>3. CASE i # 1 /\ j = 1
      BY <1>1, <1>9, <3>3, Zenon DEF n, keys, first
    <3>4. CASE i # 1 /\ j # 1
      BY <1>4, <1>9, <3>4, Zenon
    <3>5. QED
      BY <3>1, <3>2, <3>3, <3>4
  <2>2. QED
    BY <1>9, <2>1 DEF IsInjective
<1>13. /\ DOMAIN late = ToSet(more)
       /\ late[first] = baggage[keys[1]]
       /\ \A k \in DOMAIN late : k # first => k \in ToSet(keys) /\ late[k] = baggage[k]
       /\ late = [k \in DOMAIN late |-> late[k]]
  BY <1>1, <1>3, <1>11
<1>14. late \in [ToSet(more) -> Seq(A)]
  <2>1. \A k \in DOMAIN late : late[k] \in Seq(A)
    BY <1>1, <1>5, <1>13
  <2>2. QED
    BY <1>13, <2>1
<1>15. Walked(A, more, late)
  BY <1>5, <1>10, <1>12, <1>14, Zenon DEF Walked
<1>16. \A text \in Texts(late) : Plain(text)
  <2>1. ASSUME NEW k \in DOMAIN late PROVE Plain(k) /\ Plain(late[k])
    <3>1. CASE k = first
      <4>1. baggage[keys[1]] \in Texts(baggage)
        BY <1>1 DEF Texts
      <4>2. QED
        BY <1>2, <1>7, <1>13, <3>1, <4>1
    <3>2. CASE k # first
      <4>1. k \in Texts(baggage) /\ baggage[k] \in Texts(baggage)
        BY <1>1, <1>13, <3>2 DEF Texts
      <4>2. QED
        BY <1>2, <1>13, <3>2, <4>1
    <3>3. QED
      BY <3>1, <3>2
  <2>2. QED
    BY <2>1 DEF Texts
<1>17. \A i \in 2 .. n : late[keys[i]] = baggage[keys[i]]
  <2> SUFFICES ASSUME NEW i \in 2 .. n PROVE late[keys[i]] = baggage[keys[i]]
    OBVIOUS
  <2>1. i \in 1 .. n /\ i # 1 /\ keys[i] # keys[1] /\ keys[i] \in ToSet(keys)
    BY <1>4, <1>8, Zenon
  <2>2. keys[i] \in DOMAIN late /\ keys[i] # first
    BY <1>6, <1>11, <1>13, <2>1
  <2>3. QED
    BY <1>13, <2>2
<1>18. QED
  BY <1>13, <1>15, <1>16, <1>17, Zenon DEF keys, baggage, n, first, more, late

(* A blank before the text of a walk is a blank before its first key. *)
LEMMA BehindText ==
  ASSUME NEW A, NEW walk, CanFollow(A, walk)
  PROVE  /\ FormatBaggage(Behind(walk), KeysBehind(walk)) = <<" ">> \o Format(walk)
         /\ Format(walk) \in Seq(A) /\ <<" ">> \o Format(walk) \in Seq(A)
<1> DEFINE keys == walk.keys
           baggage == walk.baggage
           n == Len(keys)
           more == KeysBehind(walk)
           late == Behind(walk)
           items == Items(baggage, keys)
           others == Items(late, more)
<1>1. Walked(A, keys, baggage) /\ " " \in A /\ "=" \in A
  BY Zenon DEF CanFollow, Walked, Separators
<1>2. n \in Nat \ {0} /\ keys \in [1 .. n -> Seq(A)]
  BY FollowerKeys, Zenon
<1>3. /\ Walked(A, more, late) /\ late[Blanked(walk)] = baggage[keys[1]]
      /\ \A i \in 2 .. n : late[keys[i]] = baggage[keys[i]]
  BY FollowerWalked, Zenon
<1>4. Len(more) = n /\ more[1] = Blanked(walk) /\ \A i \in 2 .. n : more[i] = keys[i]
  <2>1. more = [i \in 1 .. n |-> IF i = 1 THEN Blanked(walk) ELSE keys[i]]
    BY Zenon DEF KeysBehind
  <2> HIDE DEF n, keys, more
  <2>2. QED
    BY <1>2, <2>1
<1>5. /\ items \in [1 .. n -> Seq(A)]
      /\ \A i \in 1 .. n : ItemIs(baggage, keys, i)
  BY <1>1, ItemsRead, Zenon
<1>6. /\ others \in [1 .. n -> Seq(A)]
      /\ \A i \in 1 .. n : ItemIs(late, more, i)
  BY <1>3, <1>4, ItemsRead, Zenon
<1>7. \A i \in 1 .. n : keys[i] \in Seq(A) /\ baggage[keys[i]] \in Seq(A)
  BY <1>1, WalkedKeys, Zenon
<1> HIDE DEF n
<1>8. 1 \in 1 .. n /\ \A i \in 2 .. n : i \in 1 .. n /\ i # 1
  BY <1>2
<1>9. others[1] = <<" ">> \o items[1]
  <2>1. items[1] = Entry(baggage, keys, 1) /\ others[1] = Entry(late, more, 1)
    BY <1>5, <1>6, <1>8, Zenon DEF ItemIs
  <2>2. Entry(late, more, 1) = ((<<" ">> \o keys[1]) \o <<"=">>) \o baggage[keys[1]]
    BY <1>3, <1>4, Zenon DEF Entry, Blanked
  <2>3. IsItem(A, " ", "=", keys[1], baggage[keys[1]])
    BY <1>1, <1>7, <1>8, ItemParts, Zenon
  <2>4. Entry(late, more, 1) = <<" ">> \o Entry(baggage, keys, 1)
    BY <2>2, <2>3, Zenon DEF IsItem, Entry
  <2>5. QED
    BY <2>1, <2>4, Zenon
<1>10. \A i \in 2 .. n : others[i] = items[i]
  <2> SUFFICES ASSUME NEW i \in 2 .. n PROVE others[i] = items[i]
    BY Zenon
  <2>1. i \in 1 .. n /\ i # 1
    BY <1>8, Zenon
  <2>2. items[i] = <<",">> \o Entry(baggage, keys, i) /\ others[i] = <<",">> \o Entry(late, more, i)
    BY <1>5, <1>6, <2>1, Zenon DEF ItemIs
  <2>3. Entry(late, more, i) = Entry(baggage, keys, i)
    BY <1>3, <1>4, Zenon DEF Entry
  <2>4. QED
    BY <2>2, <2>3, Zenon
<1>11. <<" ">> \in Seq(A)
  BY <1>1, Single, Zenon
<1>12. FlattenSeq(others) = <<" ">> \o FlattenSeq(items)
  <2> HIDE DEF items, others, keys, baggage, more, late
  <2>1. QED
    BY <1>2, <1>5, <1>6, <1>9, <1>10, <1>11, FlattenFirst, Zenon
<1>13. FormatBaggage(late, more) = FlattenSeq(others) /\ Format(walk) = FlattenSeq(items)
  BY BaggageWritten, Zenon DEF Format
<1>14. Format(walk) \in Seq(A) /\ FormatBaggage(late, more) \in Seq(A)
  BY <1>1, <1>3, BaggageText, Zenon DEF Format
<1>15. QED
  BY <1>12, <1>13, <1>14, Zenon

LEMMA FollowerArrives ==
  ASSUME NEW A, NEW walk, CanFollow(A, walk)
  PROVE  /\ ParseBaggage(Format(walk)) = walk.baggage
         /\ ParseBaggage(<<" ">> \o Format(walk)) = Behind(walk)
         /\ Format(walk) # <<>> /\ <<" ">> \o Format(walk) # <<>>
<1>1. Arrives(walk.baggage, walk.keys)
  BY PlainArrives, Zenon DEF CanFollow
<1>2. Arrives(Behind(walk), KeysBehind(walk))
  BY FollowerWalked, PlainArrives, Zenon
<1>3. ParseBaggage(Format(walk)) = walk.baggage /\ ParseBaggage(<<" ">> \o Format(walk)) = Behind(walk)
  BY <1>1, <1>2, BehindText, Zenon DEF Arrives, Format
<1>4. DOMAIN walk.baggage # {} /\ DOMAIN Behind(walk) # {}
  <2>1. walk.keys[1] \in DOMAIN walk.baggage
    BY FollowerKeys, Zenon
  <2>2. Blanked(walk) \in DOMAIN Behind(walk)
    <3> DEFINE first == Blanked(walk)
    <3>1. Behind(walk) = [k \in (DOMAIN walk.baggage \ {walk.keys[1]}) \cup {first} |->
                            IF k = first THEN walk.baggage[walk.keys[1]] ELSE walk.baggage[k]]
      BY Zenon DEF Behind
    <3> HIDE DEF first
    <3>2. first \in DOMAIN Behind(walk)
      BY <3>1
    <3>3. QED
      BY <3>2, Zenon DEF first
  <2>3. QED
    BY <2>1, <2>2
<1>5. DOMAIN ParseBaggage(<<>>) = {}
  <2>1. ParseBaggage(<<>>) = NoBaggage
    BY BaggageRead, Zenon
  <2>2. QED
    BY <2>1 DEF NoBaggage
<1>6. QED
  BY <1>3, <1>4, <1>5, Zenon

(* A comma and a blank, before a text: the comma closes what is before, the  *)
(* blank leads the text.                                                     *)
IsReglued(s, c, b, t) == s \o (<<c, b>> \o t) = Append(s, c) \o (<<b>> \o t)

LEMMA Reglue ==
  ASSUME NEW A, NEW s \in Seq(A), NEW c \in A, NEW b \in A, NEW t \in Seq(A)
  PROVE  IsReglued(s, c, b, t)
<1> DEFINE two == <<c, b>>
           one == <<b>>
           closed == Append(s, c)
<1>1. two \in Seq(A) /\ one \in Seq(A) /\ closed \in Seq(A)
  OBVIOUS
<1>2. s \o two = closed \o one
  OBVIOUS
<1> HIDE DEF two, one, closed
<1>3. Associates(s, two, t) /\ Associates(closed, one, t)
  BY <1>1, ConcatAssociates, Zenon
<1>4. QED
  BY <1>2, <1>3, Zenon DEF IsReglued, Associates, two, one, closed

LEMMA MergesAnother ==
  ASSUME NEW walks, NEW n \in Nat \ {0}, NEW read, NEW all,
         Merges(read, walks, n), Overrides(all, read, Arrival(walks, n + 1))
  PROVE  Merges(all, walks, n + 1)
<1> DEFINE arr(i) == Arrival(walks, i)
           S(m) == UNION {DOMAIN arr(i) : i \in 1 .. m}
<1>1. /\ DOMAIN read = S(n)
      /\ \A k \in DOMAIN read :
            \E i \in 1 .. n : /\ k \in DOMAIN arr(i) /\ read[k] = arr(i)[k]
                             /\ \A j \in i + 1 .. n : k \notin DOMAIN arr(j)
  BY Zenon DEF Merges
<1>2. /\ DOMAIN all = DOMAIN read \cup DOMAIN arr(n + 1)
      /\ \A k \in DOMAIN arr(n + 1) : all[k] = arr(n + 1)[k]
      /\ \A k \in DOMAIN read : k \notin DOMAIN arr(n + 1) => all[k] = read[k]
  BY Zenon DEF Overrides
<1> HIDE DEF arr
<1>3. n + 1 \in 1 .. n + 1 /\ (n + 1) + 1 .. n + 1 = {} /\ \A i \in 1 .. n : i \in 1 .. n + 1
  OBVIOUS
<1>4. DOMAIN all = S(n + 1)
  <2>1. S(n + 1) = S(n) \cup DOMAIN arr(n + 1)
    <3>1. ASSUME NEW k \in S(n + 1) PROVE k \in S(n) \cup DOMAIN arr(n + 1)
      <4>1. PICK i \in 1 .. n + 1 : k \in DOMAIN arr(i)
        BY <3>1, Zenon
      <4>2. i \in 1 .. n \/ i = n + 1
        OBVIOUS
      <4>3. QED
        BY <4>1, <4>2
    <3>2. ASSUME NEW k \in S(n) \cup DOMAIN arr(n + 1) PROVE k \in S(n + 1)
      BY <1>3, <3>2
    <3>3. QED
      BY <3>1, <3>2
  <2>2. QED
    BY <1>1, <1>2, <2>1, Zenon
<1>5. ASSUME NEW k \in DOMAIN all
      PROVE  \E i \in 1 .. n + 1 : /\ k \in DOMAIN arr(i) /\ all[k] = arr(i)[k]
                                   /\ \A j \in i + 1 .. n + 1 : k \notin DOMAIN arr(j)
  <2>1. CASE k \in DOMAIN arr(n + 1)
    <3>1. \A j \in (n + 1) + 1 .. n + 1 : k \notin DOMAIN arr(j)
      BY <1>3
    <3>2. QED
      BY <1>2, <1>3, <2>1, <3>1, Zenon
  <2>2. CASE k \notin DOMAIN arr(n + 1)
    <3>1. k \in DOMAIN read /\ all[k] = read[k]
      BY <1>2, <1>5, <2>2
    <3>2. PICK i \in 1 .. n : /\ k \in DOMAIN arr(i) /\ read[k] = arr(i)[k]
                              /\ \A j \in i + 1 .. n : k \notin DOMAIN arr(j)
      BY <1>1, <3>1
    <3>3. \A j \in i + 1 .. n + 1 : j \in i + 1 .. n \/ j = n + 1
      OBVIOUS
    <3>4. \A j \in i + 1 .. n + 1 : k \notin DOMAIN arr(j)
      BY <2>2, <3>2, <3>3, Zenon
    <3>5. QED
      BY <1>3, <3>1, <3>2, <3>4, Zenon
  <2>3. QED
    BY <2>1, <2>2, Zenon
<1>6. QED
  BY <1>4, <1>5, Zenon DEF Merges, arr

LEMMA MergesFirst ==
  ASSUME NEW walks, NEW read, read = walks[1].baggage
  PROVE  Merges(read, walks, 1)
<1> DEFINE arr(i) == Arrival(walks, i)
<1>1. arr(1) = read
  BY Zenon DEF Arrival
<1> HIDE DEF arr
<1>2. 1 .. 1 = {1} /\ 1 + 1 .. 1 = {}
  OBVIOUS
<1>3. DOMAIN read = UNION {DOMAIN arr(i) : i \in 1 .. 1}
  BY <1>1, <1>2
<1>4. \A k \in DOMAIN read :
         \E i \in 1 .. 1 : /\ k \in DOMAIN arr(i) /\ read[k] = arr(i)[k]
                           /\ \A j \in i + 1 .. 1 : k \notin DOMAIN arr(j)
  BY <1>1, <1>2
<1>5. QED
  BY <1>3, <1>4, Zenon DEF Merges, arr

LEMMA SentFollow ==
  ASSUME NEW walk \in Sent
  PROVE  CanFollow(HeaderChars, walk)
<1> DEFINE names == {name \in Names : Plain(name)}
<1>1. walk \in Walks(names) /\ walk.keys # <<>> /\ Blanked(walk) \notin DOMAIN walk.baggage
  BY Zenon DEF Sent
<1>2. names \subseteq Seq(HeaderChars) /\ \A name \in names : Plain(name)
  BY NamesAreTexts
<1> HIDE DEF names
<1>3. Walked(HeaderChars, walk.keys, walk.baggage) /\ \A text \in Texts(walk.baggage) : text \in names
  BY <1>1, <1>2, NamesAreTexts, WalkIsWalked, Zenon
<1>4. QED
  BY <1>1, <1>2, <1>3, NamesAreTexts, Zenon DEF CanFollow

LEMMA Doubled ==
  ASSUME NEW A, NEW c \in A, NEW b \in A
  PROVE  <<c, b>> \in Seq(A)
OBVIOUS

(* Baggages of any number of calls, sent together. *)
LEMMA BaggagesOfCalls ==
  ASSUME NEW n \in Nat \ {0}
  PROVE  BaggagesMerge(n)
<1> SUFFICES ASSUME NEW walks \in [1 .. n -> Sent]
             PROVE  Merges(ParseBaggage(Joined([i \in 1 .. n |-> Format(walks[i])])), walks, n)
  BY Zenon DEF BaggagesMerge
<1> DEFINE A == HeaderChars
           text(i) == Format(walks[i])
           behind(i) == <<" ">> \o text(i)
           seqs == [i \in 1 .. n |-> (IF i = 1 THEN <<>> ELSE <<",", " ">>) \o text(i)]
<1>1. Joined([i \in 1 .. n |-> Format(walks[i])]) = FlattenSeq(seqs)
  <2> DEFINE texts == [i \in 1 .. n |-> Format(walks[i])]
  <2>1. [i \in DOMAIN texts |-> (IF i = 1 THEN <<>> ELSE <<",", " ">>) \o texts[i]] = seqs
    BY Zenon
  <2>2. Joined(texts) = FlattenSeq([i \in DOMAIN texts |-> (IF i = 1 THEN <<>> ELSE <<",", " ">>) \o texts[i]])
    BY Zenon DEF Joined
  <2>3. QED
    BY <2>1, <2>2, Zenon
<1>2. \A i \in 1 .. n : CanFollow(A, walks[i])
  BY SentFollow
<1>3. ASSUME NEW i \in 1 .. n
      PROVE  /\ text(i) \in Seq(A) /\ behind(i) \in Seq(A) /\ text(i) # <<>> /\ behind(i) # <<>>
             /\ ParseBaggage(text(i)) = walks[i].baggage /\ ParseBaggage(behind(i)) = Behind(walks[i])
  BY <1>2, BehindText, FollowerArrives, Zenon
<1>4. "," \in A /\ " " \in A
  BY NamesAreTexts, Zenon DEF Separators
<1> HIDE DEF A, text
<1>5. <<",", " ">> \in Seq(A)
  BY <1>4, Doubled, Zenon
<1>6. /\ \A i \in 1 .. n : seqs[i] \in Seq(A)
      /\ \A i \in 2 .. n : seqs[i] = <<",", " ">> \o text(i)
      /\ seqs[1] = text(1)
  <2>1. ASSUME NEW i \in 1 .. n
        PROVE  /\ seqs[i] \in Seq(A)
               /\ i = 1 => seqs[i] = text(i)
               /\ i # 1 => seqs[i] = <<",", " ">> \o text(i)
    <3>1. text(i) \in Seq(A) /\ seqs[i] = (IF i = 1 THEN <<>> ELSE <<",", " ">>) \o text(i)
      BY <1>3
    <3>2. <<>> \o text(i) = text(i)
      BY <3>1, ConcatEmptySeq
    <3>3. <<",", " ">> \o text(i) \in Seq(A)
      BY <1>5, <3>1, ConcatProperties, Zenon
    <3>4. QED
      BY <3>1, <3>2, <3>3, Zenon
  <2>2. 1 \in 1 .. n /\ \A i \in 2 .. n : i \in 1 .. n /\ i # 1
    OBVIOUS
  <2> HIDE DEF seqs
  <2>3. QED
    BY <2>1, <2>2, Zenon
<1>7. seqs \in Seq(Seq(A)) /\ Len(seqs) = n /\ seqs # <<>>
  <2>1. seqs \in [1 .. n -> Seq(A)]
    BY <1>6
  <2> HIDE DEF seqs
  <2>2. seqs \in Seq(Seq(A)) /\ Len(seqs) = n
    BY <2>1
  <2>3. QED
    BY <2>2
<1> HIDE DEF seqs, behind
<1>8. PICK f : IsFlat(A, seqs, f)
  BY <1>7, Flatten, Zenon
<1>9. /\ FlattenSeq(seqs) = f[n] /\ f[1] = text(1)
      /\ \A i \in 2 .. n : f[i] = f[i - 1] \o seqs[i]
  BY <1>6, <1>7, <1>8, Zenon DEF IsFlat
<1> DEFINE Done(m) == f[m] \in Seq(A) /\ f[m] # <<>> /\ Merges(ParseBaggage(f[m]), walks, m)
           T == {i \in Nat : i + 1 \in 1 .. n => Done(i + 1)}
<1>10. Done(1)
  <2>1. 1 \in 1 .. n
    OBVIOUS
  <2>2. Merges(ParseBaggage(text(1)), walks, 1)
    BY <1>3, <2>1, MergesFirst, Zenon
  <2>3. QED
    BY <1>3, <1>9, <2>1, <2>2, Zenon
<1>11. ASSUME NEW m \in 1 .. n, m + 1 \in 1 .. n, Done(m) PROVE Done(m + 1)
  <2> DEFINE k == m + 1
  <2>1. k \in 1 .. n /\ k \in 2 .. n /\ k # 1 /\ k - 1 = m /\ m \in Nat \ {0}
    BY <1>11
  <2> HIDE DEF k
  <2>2. f[k] = f[m] \o (<<",", " ">> \o text(k))
    BY <1>6, <1>9, <2>1, Zenon
  <2>3. IsReglued(f[m], ",", " ", text(k))
    BY <1>3, <1>4, <1>11, <2>1, Reglue, Zenon
  <2>4. f[k] = Append(f[m], ",") \o behind(k)
    BY <2>2, <2>3, Zenon DEF IsReglued, behind
  <2>5. f[k] \in Seq(A) /\ Overrides(ParseBaggage(f[k]), ParseBaggage(f[m]), ParseBaggage(behind(k)))
    <3>1. f[m] \in Seq(A) /\ f[m] # <<>> /\ behind(k) \in Seq(A) /\ behind(k) # <<>>
      BY <1>3, <1>11, <2>1, Zenon
    <3>2. /\ Append(f[m], ",") \o behind(k) \in Seq(A)
          /\ Overrides(ParseBaggage(Append(f[m], ",") \o behind(k)), ParseBaggage(f[m]), ParseBaggage(behind(k)))
      BY <1>4, <3>1, ParseConcat, Zenon
    <3>3. QED
      BY <2>4, <3>2, Zenon
  <2>6. ParseBaggage(behind(k)) = Arrival(walks, k)
    BY <1>3, <2>1, Zenon DEF Arrival
  <2>7. Merges(ParseBaggage(f[k]), walks, k)
    BY <1>11, <2>1, <2>5, <2>6, MergesAnother, Zenon DEF k
  <2>8. f[k] # <<>>
    <3>1. Append(f[m], ",") \o behind(k) # <<>>
      BY <1>3, <1>4, <1>11, <2>1, Extended, Zenon
    <3>2. QED
      BY <2>4, <3>1, Zenon
  <2>9. QED
    BY <2>5, <2>7, <2>8, Zenon DEF k
<1> HIDE DEF Done
<1>12. 0 \in T
  BY <1>10
<1>13. ASSUME NEW i \in T PROVE i + 1 \in T
  <2>1. ASSUME (i + 1) + 1 \in 1 .. n PROVE Done((i + 1) + 1)
    <3>1. i + 1 \in 1 .. n
      BY <2>1
    <3>2. Done(i + 1)
      BY <3>1
    <3>3. QED
      BY <1>11, <2>1, <3>1, <3>2, Zenon
  <2>2. QED
    BY <2>1
<1>14. T = Nat
  <2>1. T \subseteq Nat
    OBVIOUS
  <2> HIDE DEF T
  <2>2. QED
    BY <1>12, <1>13, <2>1, NatInduct, Zenon
<1>15. Done(n)
  <2>1. n - 1 \in Nat /\ (n - 1) + 1 = n /\ n \in 1 .. n
    OBVIOUS
  <2>2. n - 1 \in T
    BY <1>14, <2>1, Zenon
  <2>3. (n - 1) + 1 \in 1 .. n => Done((n - 1) + 1)
    BY <2>2, Zenon
  <2>4. QED
    BY <2>1, <2>3, Zenon
<1>16. QED
  BY <1>1, <1>9, <1>15, Zenon DEF Done
=============================================================================
