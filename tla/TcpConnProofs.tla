---------------------------- MODULE TcpConnProofs ----------------------------
(***************************************************************************)
(* tcp_conn and its buffers, for any number of connections, any capacities *)
(* and message lengths.  IInv says of each connection that ibuf and the    *)
(* kernel together hold the messages that follow those the router got,     *)
(* wherever reads cut the stream; that obuf, with the header of a message  *)
(* that is being sent, ends the stream of those accepted; and that what a  *)
(* callback has reserved is enough for what it puts there.  An action      *)
(* concerns one connection: OneConnection is the frame the steps share.    *)
(***************************************************************************)
EXTENDS TcpConn, SequenceTheorems, FiniteSetTheorems, WellFoundedInduction, TLAPS

Byte == Seq(Nat)

(* A byte is a triple of numbers.                                           *)
LEMMA ByteType == ASSUME NEW k \in Nat, NEW i \in Nat, NEW len \in Nat PROVE <<k, i, len>> \in Byte
<1> DEFINE b == <<k, i, len>>
<1>1. b \in [1..3 -> Nat]
  OBVIOUS
<1> QED
  BY <1>1, SeqDef DEF Byte

(* A function on 1..n is a sequence.                                        *)
LEMMA MakeSeq ==
  ASSUME NEW S, NEW n \in Nat, NEW f \in [1..n -> S]
  PROVE  f \in Seq(S) /\ Len(f) = n
BY SeqDef

(* The bytes of a message, and of its body.                                 *)
LEMMA MessageType ==
  ASSUME NEW k \in Nat, NEW len \in Nat
  PROVE  /\ Message(k, len) \in Seq(Byte) /\ Len(Message(k, len)) = HEAD_LEN + len
         /\ \A i \in 1..(HEAD_LEN + len) : Message(k, len)[i] = <<k, i, len>>
         /\ Body(k, len) \in Seq(Byte) /\ Len(Body(k, len)) = len
         /\ \A i \in 1..len : Body(k, len)[i] = <<k, HEAD_LEN + i, len>>
<1>1. HEAD_LEN \in Nat
  BY SizesAssumption
<1>2. Message(k, len) \in [1..(HEAD_LEN + len) -> Byte]
  BY <1>1, ByteType DEF Message
<1>3. Body(k, len) \in [1..len -> Byte]
  BY <1>1, ByteType DEF Body
<1> QED
  BY <1>1, <1>2, <1>3, MakeSeq DEF Message, Body

Header(k, len) == SubSeq(Message(k, len), 1, HEAD_LEN)

(* A message is its header followed by its body.                            *)
LEMMA HeaderAndBody ==
  ASSUME NEW k \in Nat, NEW len \in Nat
  PROVE  /\ Header(k, len) \in Seq(Byte) /\ Len(Header(k, len)) = HEAD_LEN
         /\ Header(k, len) \o Body(k, len) = Message(k, len)
<1>1. HEAD_LEN \in Nat \ {0}
  BY SizesAssumption
<1> DEFINE m == Message(k, len)  h == Header(k, len)  b == Body(k, len)
<1>2. /\ m \in Seq(Byte) /\ Len(m) = HEAD_LEN + len
      /\ \A i \in 1..(HEAD_LEN + len) : m[i] = <<k, i, len>>
      /\ b \in Seq(Byte) /\ Len(b) = len
      /\ \A i \in 1..len : b[i] = <<k, HEAD_LEN + i, len>>
  BY MessageType
<1>h. h = SubSeq(m, 1, HEAD_LEN)
  BY DEF Header
<1> HIDE DEF m, h, b
<1>3. \A i \in 1..HEAD_LEN : m[i] \in Byte
  BY <1>1, <1>2
<1>4. /\ h \in Seq(Byte) /\ Len(h) = HEAD_LEN
      /\ \A i \in 1..HEAD_LEN : h[i] = <<k, i, len>>
  <2>1. /\ h \in Seq(Byte) /\ Len(h) = HEAD_LEN
        /\ \A i \in 1..(HEAD_LEN - 1 + 1) : h[i] = m[1 + i - 1]
    BY <1>1, <1>3, <1>h, SubSeqProperties
  <2> QED
    BY <1>1, <1>2, <2>1
<1>5. h \o b = m
  <2>1. /\ h \o b \in Seq(Byte) /\ Len(h \o b) = HEAD_LEN + len
        /\ \A i \in 1..(HEAD_LEN + len) :
             (h \o b)[i] = IF i <= HEAD_LEN THEN h[i] ELSE b[i - HEAD_LEN]
    BY <1>2, <1>4, ConcatProperties
  <2>2. ASSUME NEW i \in 1..(HEAD_LEN + len) PROVE (h \o b)[i] = m[i]
    <3>1. CASE i <= HEAD_LEN
      <4>1. i \in 1..HEAD_LEN
        BY <1>1, <3>1
      <4>2. (h \o b)[i] = h[i]
        BY <2>1, <3>1
      <4> QED
        BY <1>2, <1>4, <4>1, <4>2
    <3>2. CASE ~(i <= HEAD_LEN)
      <4>1. i - HEAD_LEN \in 1..len /\ HEAD_LEN + (i - HEAD_LEN) = i
        BY <1>1, <3>2
      <4> QED
        BY <1>2, <2>1, <3>2, <4>1
    <3> QED
      BY <3>1, <3>2
  <2> QED
    BY <1>2, <2>1, <2>2, SeqEqual
<1> QED
  BY <1>4, <1>5 DEF m, h, b

(* Every set of numbers that is not empty has a least member.               *)
LEMMA Least ==
  ASSUME NEW T \in SUBSET Nat, T # {}
  PROVE  \E x \in T : \A y \in T : x <= y
<1> DEFINE R == {ss \in Nat \X Nat : ss[1] < ss[2]}
<1>1. IsWellFoundedOn(R, Nat)
  BY NatLessThanWellFounded DEF OpToRel
<1> HIDE DEF R
<1>2. PICK x \in T : \A y \in T : ~ (<<y, x>> \in R)
  BY <1>1, WFMin
<1>3. ASSUME NEW y \in T PROVE x <= y
  <2>1. x \in Nat /\ y \in Nat /\ <<y, x>> \notin R
    BY <1>2
  <2>2. y < x => <<y, x>> \in R
    BY <2>1 DEF R
  <2> QED
    BY <2>1, <2>2
<1> QED
  BY <1>3

(* Induction over the numbers, with a set in the place of a predicate.      *)
LEMMA Induction ==
  ASSUME NEW G, 0 \in G, \A n \in Nat : n \in G => n + 1 \in G
  PROVE  Nat \subseteq G
<1> DEFINE T == Nat \ G
<1>1. SUFFICES ASSUME T # {} PROVE FALSE
  OBVIOUS
<1>2. PICK x \in T : \A y \in T : x <= y
  BY <1>1, Least
<1>3. x \in Nat /\ x # 0 /\ x \notin G
  BY <1>2
<1>4. x - 1 \in Nat /\ x - 1 + 1 = x /\ ~(x <= x - 1)
  BY <1>3
<1>5. x - 1 \in G
  BY <1>2, <1>4
<1> QED
  BY <1>3, <1>4, <1>5

(* What Min chooses.                                                        *)
LEMMA SmallestOf ==
  ASSUME NEW T \in SUBSET Nat, T # {}
  PROVE  Min(T) \in T
BY Least DEF Min

(* alloc_buf finds a capacity that is large enough if there is one.         *)
LEMMA IndexFits ==
  ASSUME NEW n \in Nat, Fits(n) # {}
  PROVE  index(n) \in Caps /\ index(n) >= n
BY SmallestOf, SizesAssumption DEF Fits, index

(* The free lists stay functions to numbers.                                *)
LEMMA RevertedType ==
  ASSUME pool \in [Caps -> Nat], NEW S, NEW caps \in Seq(S)
  PROVE  Reverted(caps) \in [Caps -> Nat]
<1> SUFFICES ASSUME NEW n \in Caps
             PROVE  pool[n] + Cardinality({i \in DOMAIN caps : caps[i] = n}) \in Nat
  BY DEF Reverted
<1>1. DOMAIN caps = 1..Len(caps) /\ Len(caps) \in Nat
  OBVIOUS
<1>2. IsFiniteSet(DOMAIN caps)
  BY <1>1, FS_Interval
<1>3. Cardinality({i \in DOMAIN caps : caps[i] = n}) \in Nat
  BY <1>2, FS_Subset, FS_CardinalityType
<1> QED
  BY <1>3

-----------------------------------------------------------------------------
(* Sums over finite sets.                                                 *)
Pick(s) == CHOOSE x \in s : TRUE
Summing(g, w, D) ==
  g = [s \in D |-> IF s = {} THEN 0 ELSE w[Pick(s)] + g[s \ {Pick(s)}]]

(* Total is what its recursion computes, if the recursion has a solution.   *)
LEMMA TotalDef ==
  ASSUME NEW w, \E g : Summing(g, w, SUBSET DOMAIN w)
  PROVE  \E g : Summing(g, w, SUBSET DOMAIN w) /\ Total(w) = g[DOMAIN w]
<1> DEFINE f == CHOOSE g : Summing(g, w, SUBSET DOMAIN w)
<1>1. Summing(f, w, SUBSET DOMAIN w)
  OBVIOUS
<1>2. Total(w) = f[DOMAIN w]
  BY DEF Total, MapThenSumSet, MapThenFoldSet, Summing, Pick
<1> QED
  BY <1>1, <1>2
(* A set without its first element.                                        *)
LEMMA Without ==
  ASSUME NEW s, IsFiniteSet(s), s # {}
  PROVE  /\ Pick(s) \in s /\ IsFiniteSet(s \ {Pick(s)})
         /\ Cardinality(s) \in Nat /\ Cardinality(s \ {Pick(s)}) = Cardinality(s) - 1
BY FS_RemoveElement, FS_CardinalityType DEF Pick

Upto(S, n) == {s \in SUBSET S : Cardinality(s) <= n}

(* The recursion of Total has a solution on every finite set, by induction  *)
(* over the size of the subsets it is defined on.                           *)
LEMMA SummingExists ==
  ASSUME NEW S, IsFiniteSet(S), NEW w
  PROVE  \E g : Summing(g, w, SUBSET S)
<1> DEFINE G == {n \in Nat : \E g : Summing(g, w, Upto(S, n))}
<1>f. ASSUME NEW s \in SUBSET S PROVE IsFiniteSet(s) /\ Cardinality(s) \in Nat
  BY FS_Subset, FS_CardinalityType
<1>1. 0 \in G
  <2> DEFINE g == [s \in Upto(S, 0) |-> 0]
  <2>1. ASSUME NEW s \in Upto(S, 0) PROVE s = {}
    <3>1. s \in SUBSET S /\ Cardinality(s) <= 0
      BY DEF Upto
    <3>2. Cardinality(s) = 0
      BY <1>f, <3>1
    <3> QED
      BY <1>f, <3>1, <3>2, FS_EmptySet
  <2>2. Summing(g, w, Upto(S, 0))
    BY <2>1 DEF Summing
  <2> QED
    BY <2>2
<1>2. ASSUME NEW n \in Nat, n \in G PROVE n + 1 \in G
  <2>1. PICK g : Summing(g, w, Upto(S, n))
    BY <1>2
  <2> DEFINE h == [s \in Upto(S, n + 1) |-> IF s = {} THEN 0 ELSE w[Pick(s)] + g[s \ {Pick(s)}]]
  <2>2. ASSUME NEW s \in Upto(S, n + 1), s # {}
        PROVE  s \ {Pick(s)} \in Upto(S, n) /\ s \ {Pick(s)} \in Upto(S, n + 1)
    <3>1. s \in SUBSET S /\ Cardinality(s) <= n + 1 /\ IsFiniteSet(s)
      BY <1>f DEF Upto
    <3>2. Cardinality(s) \in Nat /\ Cardinality(s \ {Pick(s)}) = Cardinality(s) - 1
      BY <2>2, <3>1, Without
    <3>3. Cardinality(s \ {Pick(s)}) <= n /\ Cardinality(s \ {Pick(s)}) <= n + 1
      BY <3>1, <3>2
    <3> QED
      BY <3>1, <3>3 DEF Upto
  <2>3. ASSUME NEW t \in Upto(S, n), t \in Upto(S, n + 1) PROVE h[t] = g[t]
    BY <2>1, <2>3 DEF Summing
  <2>4. ASSUME NEW s \in Upto(S, n + 1), s # {}
        PROVE  g[s \ {Pick(s)}] = h[s \ {Pick(s)}]
    BY <2>2, <2>3, <2>4
  <2>5. h = [s \in Upto(S, n + 1) |-> IF s = {} THEN 0 ELSE w[Pick(s)] + h[s \ {Pick(s)}]]
    <3> DEFINE k == [s \in Upto(S, n + 1) |-> IF s = {} THEN 0 ELSE w[Pick(s)] + h[s \ {Pick(s)}]]
    <3>1. ASSUME NEW s \in Upto(S, n + 1) PROVE h[s] = k[s]
      <4>1. CASE s = {}
        BY <4>1
      <4>2. CASE s # {}
        <5>1. g[s \ {Pick(s)}] = h[s \ {Pick(s)}]
          BY <2>4, <4>2
        <5>2. h[s] = w[Pick(s)] + g[s \ {Pick(s)}]
          BY <4>2
        <5>3. k[s] = w[Pick(s)] + h[s \ {Pick(s)}]
          BY <4>2
        <5> QED
          BY <5>1, <5>2, <5>3
      <4> QED
        BY <4>1, <4>2
    <3>2. h = [s \in Upto(S, n + 1) |-> h[s]] /\ k = [s \in Upto(S, n + 1) |-> k[s]]
      OBVIOUS
    <3> HIDE DEF h, k
    <3>3. h = k
      BY <3>1, <3>2
    <3> QED
      BY <3>3 DEF k
  <2>6. Summing(h, w, Upto(S, n + 1))
    BY <2>5 DEF Summing
  <2> QED
    BY <2>6
<1>3. Cardinality(S) \in G
  BY <1>1, <1>2, <1>f, Induction
<1>4. Upto(S, Cardinality(S)) = SUBSET S
  <2>1. \A s \in SUBSET S : Cardinality(s) <= Cardinality(S)
    BY FS_Subset
  <2> QED
    BY <2>1 DEF Upto
<1> QED
  BY <1>3, <1>4

(* Induction over the subsets of a finite set.                              *)
LEMMA SubsetInduction ==
  ASSUME NEW S, IsFiniteSet(S), NEW G, {} \in G,
         \A s \in SUBSET S : s # {} /\ s \ {Pick(s)} \in G => s \in G
  PROVE  SUBSET S \subseteq G
<1> DEFINE H == {n \in Nat : \A s \in SUBSET S : Cardinality(s) = n => s \in G}
<1>f. ASSUME NEW s \in SUBSET S PROVE IsFiniteSet(s) /\ Cardinality(s) \in Nat
  BY FS_Subset, FS_CardinalityType
<1>1. 0 \in H
  BY <1>f, FS_EmptySet
<1>2. ASSUME NEW n \in Nat, n \in H PROVE n + 1 \in H
  <2>1. SUFFICES ASSUME NEW s \in SUBSET S, Cardinality(s) = n + 1 PROVE s \in G
    OBVIOUS
  <2>2. s # {}
    <3>1. n + 1 # 0
      OBVIOUS
    <3> QED
      BY <1>f, <2>1, <3>1, FS_EmptySet
  <2>3. Cardinality(s \ {Pick(s)}) = n
    <3>1. Cardinality(s \ {Pick(s)}) = Cardinality(s) - 1
      BY <1>f, <2>2, Without
    <3> QED
      BY <2>1, <3>1
  <2>4. s \ {Pick(s)} \in G
    BY <1>2, <2>3
  <2> QED
    BY <2>2, <2>4
<1>3. Nat \subseteq H
  BY <1>1, <1>2, Induction
<1> QED
  BY <1>3, <1>f

(* A sum of integers is an integer.                                         *)
LEMMA TotalType ==
  ASSUME NEW S, IsFiniteSet(S), NEW w \in [S -> Int]
  PROVE  Total(w) \in Int
<1>1. PICK g : Summing(g, w, SUBSET S) /\ Total(w) = g[S]
  BY SummingExists, TotalDef
<1> DEFINE G == {s \in SUBSET S : g[s] \in Int}
<1>2. {} \in G
  BY <1>1 DEF Summing
<1>3. ASSUME NEW s \in SUBSET S, s # {}, s \ {Pick(s)} \in G PROVE s \in G
  <2>1. g[s] = w[Pick(s)] + g[s \ {Pick(s)}]
    BY <1>1, <1>3 DEF Summing
  <2>2. Pick(s) \in S
    BY <1>3 DEF Pick
  <2>3. w[Pick(s)] \in Int /\ g[s \ {Pick(s)}] \in Int
    BY <1>3, <2>2
  <2> QED
    BY <2>1, <2>3
<1> HIDE DEF G
<1>4. S \in G
  BY <1>2, <1>3, SubsetInduction
<1> QED
  BY <1>1, <1>4 DEF G

(* A sum of natural numbers is a natural number.                            *)
LEMMA TotalIsNat ==
  ASSUME NEW S, IsFiniteSet(S), NEW w \in [S -> Nat]
  PROVE  Total(w) \in Nat
<1>1. PICK g : Summing(g, w, SUBSET S) /\ Total(w) = g[S]
  BY SummingExists, TotalDef
<1> DEFINE G == {s \in SUBSET S : g[s] \in Nat}
<1>2. {} \in G
  BY <1>1 DEF Summing
<1>3. ASSUME NEW s \in SUBSET S, s # {}, s \ {Pick(s)} \in G PROVE s \in G
  <2>1. g[s] = w[Pick(s)] + g[s \ {Pick(s)}]
    BY <1>1, <1>3 DEF Summing
  <2>2. Pick(s) \in S
    BY <1>3 DEF Pick
  <2>3. w[Pick(s)] \in Nat /\ g[s \ {Pick(s)}] \in Nat
    BY <1>3, <2>2
  <2> QED
    BY <2>1, <2>3
<1> HIDE DEF G
<1>4. S \in G
  BY <1>2, <1>3, SubsetInduction
<1> QED
  BY <1>1, <1>4 DEF G

(* A sum of zeros is zero.                                                  *)
LEMMA TotalOfZeros ==
  ASSUME NEW S, IsFiniteSet(S)
  PROVE  Total([x \in S |-> 0]) = 0
<1> DEFINE w == [x \in S |-> 0]
<1>0. DOMAIN w = S /\ \A x \in S : w[x] = 0
  OBVIOUS
<1> HIDE DEF w
<1>1. PICK g : Summing(g, w, SUBSET S) /\ Total(w) = g[S]
  BY <1>0, SummingExists, TotalDef
<1> DEFINE G == {s \in SUBSET S : g[s] = 0}
<1>2. {} \in G
  BY <1>1 DEF Summing
<1>3. ASSUME NEW s \in SUBSET S, s # {}, s \ {Pick(s)} \in G PROVE s \in G
  <2>1. g[s] = w[Pick(s)] + g[s \ {Pick(s)}]
    BY <1>1, <1>3 DEF Summing
  <2>2. w[Pick(s)] = 0
    BY <1>0, <1>3 DEF Pick
  <2> QED
    BY <1>3, <2>1, <2>2
<1> HIDE DEF G
<1>4. S \in G
  BY <1>2, <1>3, SubsetInduction
<1> QED
  BY <1>1, <1>4 DEF G, w

(* A function that changes in one place changes its sum by as much.         *)
LEMMA TotalUpdate ==
  ASSUME NEW S, IsFiniteSet(S), NEW w \in [S -> Int], NEW u \in [S -> Int], NEW x \in S,
         \A y \in S : y # x => u[y] = w[y]
  PROVE  Total(u) = Total(w) - w[x] + u[x]
<1>1. PICK g : Summing(g, w, SUBSET S) /\ Total(w) = g[S]
  BY SummingExists, TotalDef
<1>2. PICK h : Summing(h, u, SUBSET S) /\ Total(u) = h[S]
  BY SummingExists, TotalDef
<1> DEFINE G == {s \in SUBSET S : /\ g[s] \in Int /\ h[s] \in Int
                                  /\ x \notin s => h[s] = g[s]
                                  /\ x \in s => h[s] = g[s] - w[x] + u[x]}
<1>3. {} \in G
  BY <1>1, <1>2 DEF Summing
<1>4. ASSUME NEW s \in SUBSET S, s # {}, s \ {Pick(s)} \in G PROVE s \in G
  <2> DEFINE p == Pick(s)  t == s \ {p}
  <2>1. p \in s /\ p \in S
    BY <1>4 DEF Pick
  <2>2. g[s] = w[p] + g[t] /\ h[s] = u[p] + h[t]
    BY <1>1, <1>2, <1>4 DEF Summing
  <2>3. w[p] \in Int /\ u[p] \in Int /\ w[x] \in Int /\ u[x] \in Int
    BY <2>1
  <2>t. /\ g[t] \in Int /\ h[t] \in Int /\ (x \notin t => h[t] = g[t])
        /\ (x \in t => h[t] = g[t] - w[x] + u[x])
    BY <1>4
  <2>x. x \in t <=> x \in s /\ x # p
    OBVIOUS
  <2> DEFINE wp == w[p]  up == u[p]  wx == w[x]  ux == u[x]  gt == g[t]  ht == h[t]
             gs == g[s]  hs == h[s]
  <2>4. wp \in Int /\ up \in Int /\ wx \in Int /\ ux \in Int /\ gt \in Int /\ ht \in Int
    BY <2>3, <2>t
  <2>5. /\ p # x => up = wp
        /\ p = x => up = ux /\ wp = wx
    BY <2>1
  <2> HIDE DEF p, t, wp, up, wx, ux, gt, ht, gs, hs
  <2>6. gs = wp + gt /\ hs = up + ht
    BY <2>2 DEF wp, up, gt, ht, gs, hs
  <2>7. CASE p = x
    <3>1. ht = gt
      BY <2>7, <2>t, <2>x DEF gt, ht
    <3>2. hs = gs - wx + ux /\ hs \in Int /\ gs \in Int
      BY <2>4, <2>5, <2>6, <2>7, <3>1
    <3> QED
      BY <2>1, <2>7, <3>2 DEF gs, hs, wx, ux
  <2>8. CASE p # x /\ x \in s
    <3>1. ht = gt - wx + ux
      BY <2>8, <2>t, <2>x DEF gt, ht, wx, ux
    <3>2. hs = gs - wx + ux /\ hs \in Int /\ gs \in Int
      BY <2>4, <2>5, <2>6, <2>8, <3>1
    <3> QED
      BY <2>8, <3>2 DEF gs, hs, wx, ux
  <2>9. CASE p # x /\ x \notin s
    <3>1. ht = gt
      BY <2>9, <2>t, <2>x DEF gt, ht
    <3>2. hs = gs /\ hs \in Int /\ gs \in Int
      BY <2>4, <2>5, <2>6, <2>9, <3>1
    <3> QED
      BY <2>9, <3>2 DEF gs, hs
  <2> QED
    BY <2>7, <2>8, <2>9
<1> HIDE DEF G
<1>5. S \in G
  BY <1>3, <1>4, SubsetInduction
<1> QED
  BY <1>1, <1>2, <1>5 DEF G
-----------------------------------------------------------------------------
(* Buffers.                                                                *)
Fit(b) == b.head + Len(b.data) <= b.cap

(* Room for n bytes behind b's content, in b or in the io_buf allocated.   *)
Reserved(b, k, n) ==
  IF k = 0 THEN b.cap - Len(b.data) >= n ELSE k >= n + Len(b.data)

(* The fields of an io_buf.                                                 *)
LEMMA IoBufs ==
  ASSUME NEW b
  PROVE  b \in io_bufs <=>
           /\ b = [cap |-> b.cap, head |-> b.head, data |-> b.data]
           /\ b.cap \in {0} \cup Caps /\ b.head \in Nat /\ b.data \in Seq(Byte)
BY DEF io_bufs, Byte

(* An io_buf made from its fields.                                          *)
LEMMA MakeBuf ==
  ASSUME NEW k \in {0} \cup Caps, NEW h \in Nat, NEW s \in Seq(Byte)
  PROVE  LET b == [cap |-> k, head |-> h, data |-> s] IN
         /\ b \in io_bufs /\ b.cap = k /\ b.head = h /\ b.data = s
         /\ k \in Nat /\ Len(s) \in Nat /\ (Fit(b) <=> h + Len(s) <= k)
<1> DEFINE b == [cap |-> k, head |-> h, data |-> s]
<1>1. b \in io_bufs /\ b.cap = k /\ b.head = h /\ b.data = s
  BY DEF io_bufs, Byte
<1>2. k \in Nat /\ Len(s) \in Nat
  BY SizesAssumption
<1> HIDE DEF b
<1>3. Fit(b) <=> h + Len(s) <= k
  BY <1>1 DEF Fit
<1> QED
  BY <1>1, <1>2, <1>3 DEF b

(* The absence of an io_buf.                                                *)
LEMMA NoBuf == NULL \in io_bufs /\ NULL.head = 0 /\ NULL.data = << >> /\ NULL.cap = 0 /\ Fit(NULL)
BY EmptySeq DEF NULL, io_bufs, Fit

(* A part of a sequence of bytes.                                           *)
LEMMA BytesOfSub ==
  ASSUME NEW s \in Seq(Byte), NEW m \in 1..(Len(s) + 1), NEW n \in 0..Len(s)
  PROVE  /\ SubSeq(s, m, n) \in Seq(Byte)
         /\ Len(SubSeq(s, m, n)) = IF m <= n THEN n - m + 1 ELSE 0
         /\ \A i \in 1..(n - m + 1) : SubSeq(s, m, n)[i] = s[m + i - 1]
<1>1. \A i \in m..n : s[i] \in Byte
  OBVIOUS
<1> QED
  BY <1>1, SubSeqProperties

(* io_buf::pop drops bytes at the front and never exceeds the capacity.     *)
LEMMA PopType ==
  ASSUME NEW b \in io_bufs, NEW n \in Nat, n <= Len(b.data)
  PROVE  /\ pop(b, n) \in io_bufs /\ pop(b, n).cap = b.cap /\ pop(b, n).head = b.head + n
         /\ pop(b, n).data = SubSeq(b.data, n + 1, Len(b.data))
         /\ Len(pop(b, n).data) = Len(b.data) - n
         /\ Fit(b) => Fit(pop(b, n))
         /\ \A i \in 1..(Len(b.data) - n) : pop(b, n).data[i] = b.data[n + i]
<1> DEFINE d == b.data  e == SubSeq(d, n + 1, Len(d))  k == b.cap  h == b.head
<1>1. /\ d \in Seq(Byte) /\ Len(d) \in Nat /\ h \in Nat /\ k \in {0} \cup Caps /\ h + n \in Nat
  BY IoBufs
<1>b. b = [cap |-> k, head |-> h, data |-> d]
  BY IoBufs
<1>2. pop(b, n) = [cap |-> k, head |-> h + n, data |-> e]
  <2>1. pop(b, n) = [cap |-> b.cap, head |-> b.head + n, data |-> SubSeq(b.data, n + 1, Len(b.data))]
    BY IoBufs DEF pop
  <2> QED
    BY <2>1
<1>e. n <= Len(d) /\ n + 1 \in 1..(Len(d) + 1) /\ Len(d) \in 0..Len(d)
  BY <1>1
<1> HIDE DEF d, k, h
<1>3. /\ e \in Seq(Byte) /\ Len(e) = IF n + 1 <= Len(d) THEN Len(d) - (n + 1) + 1 ELSE 0
      /\ \A i \in 1..(Len(d) - (n + 1) + 1) : e[i] = d[n + 1 + i - 1]
  BY <1>1, <1>e, BytesOfSub
<1> HIDE DEF e
<1>4. Len(e) = Len(d) - n
  BY <1>1, <1>3, <1>e
<1>5. ASSUME NEW i \in 1..(Len(d) - n) PROVE e[i] = d[n + i]
  <2>1. i \in 1..(Len(d) - (n + 1) + 1) /\ n + 1 + i - 1 = n + i
    BY <1>1
  <2> QED
    BY <1>3, <2>1
<1>6. /\ pop(b, n) \in io_bufs /\ pop(b, n).cap = k /\ pop(b, n).head = h + n
      /\ pop(b, n).data = e /\ (Fit(pop(b, n)) <=> h + n + Len(e) <= k)
  <2> DEFINE j == h + n  f == [cap |-> k, head |-> j, data |-> e]
  <2>1. j \in Nat /\ k \in {0} \cup Caps /\ e \in Seq(Byte)
    BY <1>1, <1>3
  <2> HIDE DEF j
  <2>2. /\ f \in io_bufs /\ f.cap = k /\ f.head = j /\ f.data = e
        /\ (Fit(f) <=> j + Len(e) <= k)
    BY <2>1, MakeBuf
  <2>3. pop(b, n) = f
    BY <1>2 DEF j
  <2> HIDE DEF f
  <2> QED
    BY <2>2, <2>3 DEF j
<1>7. k \in Nat /\ (Fit(b) <=> h + Len(d) <= k)
  BY <1>1, <1>b, MakeBuf
<1>8. Fit(b) => Fit(pop(b, n))
  BY <1>1, <1>4, <1>6, <1>7
<1> QED
  BY <1>4, <1>5, <1>6, <1>8 DEF d, e, k, h

(* io_buf::adjust keeps the bytes.                                          *)
LEMMA AdjustType ==
  ASSUME NEW b \in io_bufs
  PROVE  /\ adjust(b) \in io_bufs /\ adjust(b).cap = b.cap /\ adjust(b).head = 0
         /\ adjust(b).data = b.data /\ (Fit(b) => Fit(adjust(b)))
<1> DEFINE d == b.data  k == b.cap  h == b.head
<1>1. d \in Seq(Byte) /\ h \in Nat /\ k \in {0} \cup Caps
  BY IoBufs
<1>2. /\ adjust(b) = [cap |-> k, head |-> 0, data |-> d]
      /\ b = [cap |-> k, head |-> h, data |-> d]
  BY IoBufs DEF adjust
<1> HIDE DEF d, k, h
<1>3. /\ adjust(b) \in io_bufs /\ adjust(b).cap = k /\ adjust(b).head = 0 /\ adjust(b).data = d
      /\ (Fit(adjust(b)) <=> 0 + Len(d) <= k)
  <2> DEFINE f == [cap |-> k, head |-> 0, data |-> d]
  <2>1. /\ f \in io_bufs /\ f.cap = k /\ f.head = 0 /\ f.data = d
        /\ (Fit(f) <=> 0 + Len(d) <= k)
    BY <1>1, MakeBuf
  <2> HIDE DEF f
  <2>2. adjust(b) = f
    BY <1>2 DEF f
  <2> QED
    BY <2>1, <2>2
<1>4. (Fit(b) <=> h + Len(d) <= k) /\ k \in Nat /\ Len(d) \in Nat
  BY <1>1, <1>2, MakeBuf
<1>5. Fit(b) => Fit(adjust(b))
  BY <1>1, <1>3, <1>4
<1> QED
  BY <1>3, <1>5 DEF d, k, h

(* reactor_buf::pop returns an emptied io_buf.                              *)
LEMMA PoppedType ==
  ASSUME NEW b \in io_bufs
  PROVE  /\ Popped(b) \in io_bufs /\ Popped(b).data = b.data
         /\ (Fit(b) => Fit(Popped(b)))
         /\ (b.data = << >> => Popped(b).head = 0) /\ (b.data # << >> => Popped(b) = b)
BY NoBuf DEF Popped

(* What was reserved is enough for the bytes that are put in.               *)
LEMMA FilledType ==
  ASSUME NEW c, spare[c] \in {0} \cup Caps, NEW b \in io_bufs, b.head = 0,
         NEW bytes \in Seq(Byte), Reserved(b, spare[c], Len(bytes))
  PROVE  /\ Filled(c, b, bytes) \in io_bufs /\ Filled(c, b, bytes).head = 0
         /\ Filled(c, b, bytes).data = b.data \o bytes
         /\ Len(Filled(c, b, bytes).data) = Len(b.data) + Len(bytes)
         /\ Fit(Filled(c, b, bytes))
<1> DEFINE d == b.data  k == b.cap  e == d \o bytes  s == spare[c]  f == Filled(c, b, bytes)
           new == IF s = 0 THEN k ELSE s
<1>1. /\ d \in Seq(Byte) /\ k \in {0} \cup Caps /\ s \in {0} \cup Caps
      /\ b = [cap |-> k, head |-> 0, data |-> d]
  BY IoBufs
<1>2. f = [cap |-> new, head |-> 0, data |-> e]
  <2>1. CASE s = 0
    BY <1>1, <2>1 DEF Filled
  <2>2. CASE s # 0
    BY <2>2 DEF Filled
  <2> QED
    BY <2>1, <2>2
<1>3. IF s = 0 THEN k - Len(d) >= Len(bytes) ELSE s >= Len(bytes) + Len(d)
  BY DEF Reserved
<1> HIDE DEF d, k, s, f
<1>4. e \in Seq(Byte) /\ Len(e) = Len(d) + Len(bytes)
  BY <1>1, ConcatProperties
<1> HIDE DEF e
<1>5. new \in {0} \cup Caps
  BY <1>1
<1>6. Len(d) \in Nat /\ Len(bytes) \in Nat /\ k \in Nat /\ s \in Nat
  BY <1>1, SizesAssumption
<1>7. 0 + Len(e) <= new
  BY <1>3, <1>4, <1>6
<1> HIDE DEF new
<1>8. f \in io_bufs /\ f.head = 0 /\ f.data = e /\ (Fit(f) <=> 0 + Len(e) <= new)
  BY <1>2, <1>4, <1>5, MakeBuf
<1> QED
  BY <1>4, <1>7, <1>8 DEF d, e, f

-----------------------------------------------------------------------------
(* The pool: what is idle in the free lists f, by capacity.                *)
Idle(f) == Total([n \in Caps |-> n * f[n]])

(* The idle memory is a number.                                             *)
LEMMA IdleType ==
  ASSUME NEW f \in [Caps -> Nat]
  PROVE  Idle(f) \in Int
<1>1. [n \in Caps |-> n * f[n]] \in [Caps -> Int]
  BY SizesAssumption
<1> QED
  BY <1>1, SizesAssumption, TotalType DEF Idle

(* It is never negative.                                                    *)
LEMMA IdleIsNat ==
  ASSUME NEW f \in [Caps -> Nat]
  PROVE  Idle(f) \in Nat
<1>1. [n \in Caps |-> n * f[n]] \in [Caps -> Nat]
  BY SizesAssumption
<1> QED
  BY <1>1, SizesAssumption, TotalIsNat DEF Idle

(* One more idle io_buf.                                                    *)
LEMMA IdlePlusOne ==
  ASSUME NEW f \in [Caps -> Nat], NEW g \in [Caps -> Nat], NEW k \in Caps,
         g[k] = f[k] + 1, \A n \in Caps : n # k => g[n] = f[n]
  PROVE  Idle(g) = Idle(f) + k
<1> DEFINE w == [n \in Caps |-> n * f[n]]  u == [n \in Caps |-> n * g[n]]
<1>1. w \in [Caps -> Int] /\ u \in [Caps -> Int]
  BY SizesAssumption
<1>2. \A n \in Caps : n # k => u[n] = w[n]
  OBVIOUS
<1>3. u[k] = w[k] + k
  <2>1. k \in Nat /\ f[k] \in Nat
    BY SizesAssumption
  <2>2. k * (f[k] + 1) = k * f[k] + k
    BY <2>1
  <2> QED
    BY <2>2
<1>4. Total(w) \in Int /\ k \in Nat /\ w[k] \in Int
  BY <1>1, SizesAssumption, TotalType
<1> HIDE DEF w, u
<1>5. Total(u) = Total(w) - w[k] + u[k]
  <2>1. IsFiniteSet(Caps)
    BY SizesAssumption
  <2> QED
    BY <1>1, <1>2, <2>1, TotalUpdate
<1>6. Total(u) = Total(w) + k
  BY <1>3, <1>4, <1>5
<1> QED
  BY <1>6 DEF Idle, w, u

(* Nothing comes back.                                                      *)
LEMMA RevertNone ==
  ASSUME pool \in [Caps -> Nat]
  PROVE  Reverted(<< >>) = pool
<1>1. ASSUME NEW n \in Caps
      PROVE  pool[n] + Cardinality({i \in DOMAIN << >> : << >>[i] = n}) = pool[n]
  <2>1. {i \in DOMAIN << >> : << >>[i] = n} = {}
    OBVIOUS
  <2>2. Cardinality({}) = 0
    BY FS_EmptySet
  <2> QED
    BY <2>1, <2>2
<1> QED
  BY <1>1 DEF Reverted

(* One more io_buf comes back.                                             *)
LEMMA RevertOne ==
  ASSUME pool \in [Caps -> Nat], NEW s \in Seq({0} \cup Caps), NEW k \in {0} \cup Caps
  PROVE  Idle(Reverted(Append(s, k))) = Idle(Reverted(s)) + k
<1> DEFINE t == Append(s, k)  f == Reverted(s)  g == Reverted(t)  N == Len(s)
           I(n) == {i \in DOMAIN s : s[i] = n}   J(n) == {i \in DOMAIN t : t[i] = n}
<1>1. /\ t \in Seq({0} \cup Caps) /\ N \in Nat /\ Len(t) = N + 1 /\ t[N + 1] = k
      /\ \A i \in 1..N : t[i] = s[i]
  BY AppendProperties
<1>2. DOMAIN s = 1..N /\ DOMAIN t = 1..(N + 1)
  BY <1>1
<1>3. f \in [Caps -> Nat] /\ g \in [Caps -> Nat]
  BY <1>1, RevertedType
<1> HIDE DEF t
<1>4. ASSUME NEW n PROVE IsFiniteSet(I(n)) /\ Cardinality(I(n)) \in Nat /\ N + 1 \notin I(n)
  <2>1. IsFiniteSet(1..N)
    BY <1>1, FS_Interval
  <2>2. I(n) \subseteq 1..N
    BY <1>2
  <2>3. N + 1 \notin 1..N
    BY <1>1
  <2> QED
    BY <2>1, <2>2, <2>3, FS_Subset, FS_CardinalityType
<1>5. ASSUME NEW n, n # k PROVE J(n) = I(n)
  <2>1. ASSUME NEW i PROVE i \in J(n) <=> i \in I(n)
    <3>1. i \in 1..(N + 1) <=> i \in 1..N \/ i = N + 1
      BY <1>1
    <3> QED
      BY <1>1, <1>2, <1>5, <3>1
  <2> QED
    BY <2>1
<1>6. J(k) = I(k) \cup {N + 1}
  <2>1. ASSUME NEW i PROVE i \in J(k) <=> i \in I(k) \/ i = N + 1
    <3>1. i \in 1..(N + 1) <=> i \in 1..N \/ i = N + 1
      BY <1>1
    <3> QED
      BY <1>1, <1>2, <3>1
  <2> QED
    BY <2>1
<1>7. Cardinality(J(k)) = Cardinality(I(k)) + 1
  <2>1. IsFiniteSet(I(k)) /\ N + 1 \notin I(k)
    BY <1>4
  <2> HIDE DEF I, J
  <2>2. Cardinality(I(k) \cup {N + 1}) = Cardinality(I(k)) + 1
    BY <2>1, FS_AddElement
  <2> QED
    BY <1>6, <2>2
<1>8. \A n \in Caps : f[n] = pool[n] + Cardinality(I(n)) /\ g[n] = pool[n] + Cardinality(J(n))
  BY DEF Reverted
<1>9. \A n \in Caps : n # k => g[n] = f[n]
  BY <1>5, <1>8
<1>10. CASE k \in Caps
  <2> HIDE DEF f, g, I, J
  <2>1. g[k] = f[k] + 1
    BY <1>4, <1>7, <1>8, <1>10
  <2>2. Idle(g) = Idle(f) + k
    BY <1>3, <1>9, <1>10, <2>1, IdlePlusOne
  <2> QED
    BY <2>2 DEF f, g, t
<1>11. CASE k = 0
  <2>1. 0 \notin Caps
    BY SizesAssumption
  <2> HIDE DEF f, g, I, J
  <2>2. g = f
    BY <1>3, <1>9, <1>11, <2>1
  <2>3. Idle(f) \in Int
    BY <1>3, IdleType
  <2>4. Idle(g) = Idle(f) + 0
    BY <2>2, <2>3
  <2> QED
    BY <1>11, <2>4 DEF f, g, t
<1> QED
  BY <1>10, <1>11

(* Short sequences as appended ones.                                        *)
LEMMA Appended ==
  ASSUME NEW S, NEW s \in Seq(S), NEW x \in S, NEW y \in S
  PROVE  /\ s \o << >> = s /\ s \o <<x>> = Append(s, x)
         /\ s \o <<x, y>> = Append(Append(s, x), y)
         /\ <<x>> = Append(<< >>, x) /\ <<x, y>> = Append(Append(<< >>, x), y)
OBVIOUS

(* What two io_bufs, a displaced one and an emptied one add to the pool.   *)
LEMMA RevertTwo ==
  ASSUME pool \in [Caps -> Nat], NEW s \in Seq({0} \cup Caps),
         NEW x \in {0} \cup Caps, NEW y \in {0} \cup Caps
  PROVE  /\ Idle(Reverted(s \o <<x, y>>)) = Idle(Reverted(s)) + x + y
         /\ Idle(Reverted(<<x, y>>)) = Idle(pool) + x + y
<1>1. Append(s, x) \in Seq({0} \cup Caps) /\ << >> \in Seq({0} \cup Caps)
      /\ Append(<< >>, x) \in Seq({0} \cup Caps)
  BY AppendProperties, EmptySeq
<1>2. /\ Idle(Reverted(Append(Append(s, x), y))) = Idle(Reverted(Append(s, x))) + y
      /\ Idle(Reverted(Append(s, x))) = Idle(Reverted(s)) + x
  BY <1>1, RevertOne
<1>3. /\ Idle(Reverted(Append(Append(<< >>, x), y))) = Idle(Reverted(Append(<< >>, x))) + y
      /\ Idle(Reverted(Append(<< >>, x))) = Idle(pool) + x
  BY <1>1, RevertOne, RevertNone
<1>4. s \o <<x, y>> = Append(Append(s, x), y) /\ <<x, y>> = Append(Append(<< >>, x), y)
  BY Appended
<1> QED
  BY <1>2, <1>3, <1>4

(* Filling exchanges the io_buf, and the pool gets the displaced one.       *)
LEMMA FilledBalance ==
  ASSUME pool \in [Caps -> Nat], NEW c, spare[c] \in {0} \cup Caps, NEW b \in io_bufs,
         NEW bytes
  PROVE  Idle(Reverted(Displaced(c, b))) + Filled(c, b, bytes).cap = Idle(pool) + b.cap + spare[c]
<1>1. b.cap \in {0} \cup Caps /\ b = [cap |-> b.cap, head |-> b.head, data |-> b.data]
  BY IoBufs
<1>2. b.cap \in Int /\ spare[c] \in Int /\ Idle(pool) \in Int
  BY <1>1, SizesAssumption, IdleType
<1>3. CASE spare[c] = 0
  <2>1. Displaced(c, b) = << >> /\ Filled(c, b, bytes).cap = b.cap
    BY <1>1, <1>3 DEF Displaced, Filled
  <2>2. Idle(pool) + b.cap = Idle(pool) + b.cap + spare[c]
    BY <1>2, <1>3
  <2> QED
    BY <2>1, <2>2, RevertNone
<1>4. CASE spare[c] # 0
  <2>1. Displaced(c, b) = <<b.cap>> /\ Filled(c, b, bytes).cap = spare[c]
    BY <1>4 DEF Displaced, Filled
  <2>2. <<b.cap>> = Append(<< >>, b.cap) /\ << >> \in Seq({0} \cup Caps)
    BY <1>1, Appended, EmptySeq
  <2>3. Idle(Reverted(Append(<< >>, b.cap))) = Idle(pool) + b.cap
    BY <1>1, <2>2, RevertOne, RevertNone
  <2> QED
    BY <2>1, <2>2, <2>3
<1> QED
  BY <1>3, <1>4

(* An emptied io_buf goes from the buffer to the pool.                      *)
LEMMA PoppedBalance ==
  ASSUME pool \in [Caps -> Nat], NEW s \in Seq({0} \cup Caps), NEW b \in io_bufs
  PROVE  Idle(Reverted(s \o Emptied(b))) + Popped(b).cap = Idle(Reverted(s)) + b.cap
<1>1. b.cap \in {0} \cup Caps
  BY IoBufs
<1>2. b.cap \in Int /\ Idle(Reverted(s)) \in Int
  BY <1>1, SizesAssumption, IdleType, RevertedType
<1>3. CASE b.data = << >>
  <2>1. Emptied(b) = <<b.cap>> /\ Popped(b).cap = 0
    BY <1>3, NoBuf DEF Emptied, Popped
  <2>2. s \o <<b.cap>> = Append(s, b.cap)
    BY <1>1, Appended
  <2>3. Idle(Reverted(s \o Emptied(b))) = Idle(Reverted(s)) + b.cap
    BY <1>1, <2>1, <2>2, RevertOne
  <2>4. Idle(Reverted(s)) + b.cap + 0 = Idle(Reverted(s)) + b.cap
    BY <1>2
  <2> QED
    BY <2>1, <2>3, <2>4
<1>4. CASE b.data # << >>
  <2>1. Emptied(b) = << >> /\ Popped(b) = b
    BY <1>4 DEF Emptied, Popped
  <2>2. s \o << >> = s
    OBVIOUS
  <2> QED
    BY <2>1, <2>2
<1> QED
  BY <1>3, <1>4

(* Reserve makes room for n bytes, and counts what it allocates.            *)
LEMMA ReserveStep ==
  ASSUME spare \in [Conns -> {0} \cup Caps], total_mem \in Nat, NEW c \in Conns,
         NEW b \in io_bufs, NEW n \in Nat, NEW free \in [Caps -> Nat],
         ~TooLarge(b, n), Reserve(c, b, n, free)
  PROVE  /\ spare' \in [Conns -> {0} \cup Caps] /\ pool' \in [Caps -> Nat] /\ total_mem' \in Nat
         /\ Reserved(b, spare'[c], n)
         /\ \A d \in Conns : d # c => spare'[d] = spare[d]
         /\ total_mem' + Idle(free) = total_mem + Idle(pool') + spare'[c]
<1>1. /\ Len(b.data) \in Nat /\ b.cap \in {0} \cup Caps /\ n + Len(b.data) \in Nat
  BY IoBufs
<1>i. Idle(free) \in Int
  BY IdleType
<1>2. CASE Room(b, n) /\ spare' = [spare EXCEPT ![c] = 0] /\ pool' = free /\ total_mem' = total_mem
  <2>1. spare'[c] = 0
    BY <1>2
  <2>2. total_mem' + Idle(free) = total_mem + Idle(pool') + spare'[c]
    BY <1>2, <1>i, <2>1
  <2> QED
    BY <1>1, <1>2, <2>2, SizesAssumption DEF Reserved, Room
<1>3. CASE ~Room(b, n) /\ alloc_buf(c, index(n + Len(b.data)), free)
  <2> DEFINE k == index(n + Len(b.data))
  <2>1. k \in Caps /\ k >= n + Len(b.data)
    BY <1>1, <1>3, IndexFits DEF TooLarge
  <2>k. k \in Nat
    BY <2>1, SizesAssumption
  <2> HIDE DEF k
  <2>2. /\ spare' = [spare EXCEPT ![c] = k]
        /\ \/ free[k] > 0 /\ pool' = [free EXCEPT ![k] = free[k] - 1] /\ total_mem' = total_mem
           \/ pool' = free /\ total_mem' = total_mem + k
    BY <1>3 DEF alloc_buf, k
  <2>3. spare'[c] = k
    BY <2>2
  <2>4. /\ pool' \in [Caps -> Nat] /\ total_mem' \in Nat
        /\ total_mem' + Idle(free) = total_mem + Idle(pool') + k
    <3>1. CASE pool' = free /\ total_mem' = total_mem + k
      BY <1>i, <2>k, <3>1
    <3>2. CASE free[k] > 0 /\ pool' = [free EXCEPT ![k] = free[k] - 1] /\ total_mem' = total_mem
      <4> DEFINE f == [free EXCEPT ![k] = free[k] - 1]
      <4>1. f \in [Caps -> Nat] /\ free[k] = f[k] + 1 /\ \A m \in Caps : m # k => free[m] = f[m]
        BY <2>1, <3>2
      <4> HIDE DEF f
      <4>2. Idle(free) = Idle(f) + k /\ Idle(f) \in Int
        BY <2>1, <4>1, IdlePlusOne, IdleType
      <4>3. pool' = f
        BY <3>2 DEF f
      <4>4. total_mem + (Idle(f) + k) = total_mem + Idle(f) + k
        BY <2>k, <4>2
      <4>5. pool' \in [Caps -> Nat] /\ total_mem' \in Nat /\ total_mem' = total_mem
        BY <3>2, <4>1, <4>3
      <4>6. total_mem' + Idle(free) = total_mem + Idle(pool') + k
        BY <4>2, <4>3, <4>4, <4>5
      <4> QED
        BY <4>5, <4>6
    <3> QED
      BY <2>2, <3>1, <3>2
  <2> QED
    BY <2>1, <2>2, <2>3, <2>4, SizesAssumption DEF Reserved
<1> QED
  BY <1>2, <1>3 DEF Reserve
-----------------------------------------------------------------------------
(* s[k] is the place of the message number k in the stream of the peer.    *)
Places(s, lens) ==
  /\ s \in [Nat -> Int]
  /\ \A k \in 1..Len(lens) : s[k + 1] = s[k] + HEAD_LEN + lens[k]
  /\ \A k \in 1..Len(lens), m \in 1..(Len(lens) + 1) :
       k < m => s[k] + HEAD_LEN + lens[k] <= s[m]

(* The bytes rest are the messages from number n + 1 on.                   *)
Framed(rest, n, lens) ==
  /\ n \in 0..Len(lens)
  /\ \E s : /\ Places(s, lens) /\ Len(rest) = s[Len(lens) + 1] - s[n + 1]
            /\ \A k \in (n + 1)..Len(lens) : \A i \in 1..(HEAD_LEN + lens[k]) :
                 rest[s[k] - s[n + 1] + i] = <<k, i, lens[k]>>

(* No bytes before the first message.                                       *)
LEMMA FramedAtFirst == Framed(<< >>, 0, << >>)
<1> DEFINE s == [k \in Nat |-> 0]
<1>1. Len(<< >>) = 0
  OBVIOUS
<1>2. Places(s, << >>)
  BY <1>1 DEF Places
<1>3. Len(<< >>) = s[Len(<< >>) + 1] - s[0 + 1]
  BY <1>1
<1> QED
  BY <1>1, <1>2, <1>3 DEF Framed

(* Sums of places and lengths.                                              *)
LEMMA Smaller ==
  ASSUME NEW a \in Int, NEW b \in Nat, NEW c \in Int, NEW len \in Nat,
         a + HEAD_LEN + b <= c
  PROVE  a + HEAD_LEN + b <= c + HEAD_LEN + len
BY SizesAssumption

(* A byte of a later message is within the rest of the stream.              *)
LEMMA Within ==
  ASSUME NEW a \in Int, NEW b \in Int, NEW c \in Int, NEW len \in Nat,
         NEW i \in 1..(HEAD_LEN + len), a <= b, b + HEAD_LEN + len <= c
  PROVE  b - a + i \in 1..(c - a)
BY SizesAssumption

(* The peer sends one more message.                                         *)
LEMMA FramedSend ==
  ASSUME NEW rest \in Seq(Byte), NEW lens \in Seq(Nat), NEW n, NEW len \in Nat,
         Framed(rest, n, lens)
  PROVE  Framed(rest \o Message(Len(lens) + 1, len), n, Append(lens, len))
<1> DEFINE N == Len(lens)  new == Append(lens, len)  msg == Message(N + 1, len)
           all == rest \o msg
<1>1. N \in Nat /\ n \in 0..N /\ HEAD_LEN \in Nat \ {0}
  BY SizesAssumption DEF Framed
<1>2. PICK s : /\ Places(s, lens) /\ Len(rest) = s[N + 1] - s[n + 1]
               /\ \A k \in (n + 1)..N : \A i \in 1..(HEAD_LEN + lens[k]) :
                    rest[s[k] - s[n + 1] + i] = <<k, i, lens[k]>>
  BY DEF Framed
<1>3. /\ new \in Seq(Nat) /\ Len(new) = N + 1 /\ new[N + 1] = len
      /\ \A k \in 1..N : new[k] = lens[k] /\ lens[k] \in Nat
  BY AppendProperties
<1>4. /\ msg \in Seq(Byte) /\ Len(msg) = HEAD_LEN + len
      /\ \A i \in 1..(HEAD_LEN + len) : msg[i] = <<N + 1, i, len>>
  <2>1. N + 1 \in Nat
    BY <1>1
  <2> QED
    BY <2>1, MessageType
<1>5. /\ all \in Seq(Byte) /\ Len(all) = Len(rest) + HEAD_LEN + len
      /\ \A i \in 1..(Len(rest) + HEAD_LEN + len) :
           all[i] = IF i <= Len(rest) THEN rest[i] ELSE msg[i - Len(rest)]
  <2>1. Len(rest) \in Nat
    OBVIOUS
  <2> HIDE DEF msg
  <2>2. Len(rest) + (HEAD_LEN + len) = Len(rest) + HEAD_LEN + len
    BY <1>1, <2>1
  <2>3. Len(rest) + Len(msg) = Len(rest) + HEAD_LEN + len
    BY <1>4, <2>2
  <2> QED
    BY <1>4, <2>3, ConcatProperties
<1>6. /\ s \in [Nat -> Int]
      /\ \A k \in 1..N : s[k + 1] = s[k] + HEAD_LEN + lens[k]
      /\ \A k \in 1..N, m \in 1..(N + 1) : k < m => s[k] + HEAD_LEN + lens[k] <= s[m]
  BY <1>2 DEF Places
<1> DEFINE last == s[N + 1] + HEAD_LEN + len   t == [s EXCEPT ![N + 2] = last]
<1>7. /\ t \in [Nat -> Int] /\ t[N + 2] = last /\ last \in Int
      /\ \A k \in 1..(N + 1) : t[k] = s[k] /\ s[k] \in Int
  BY <1>1, <1>6
<1>l. last = s[N + 1] + HEAD_LEN + len
  OBVIOUS
<1>r. Len(rest) \in Nat
  OBVIOUS
<1> HIDE DEF all, new, msg, N, last, t
<1>8. ASSUME NEW k \in 1..(N + 1)
      PROVE  t[k + 1] = t[k] + HEAD_LEN + new[k]
  <2>1. CASE k = N + 1
    <3>1. t[k] = s[N + 1] /\ new[k] = len /\ k + 1 = N + 2
      BY <1>1, <1>3, <1>7, <2>1
    <3> QED
      BY <1>7, <1>l, <3>1
  <2>2. CASE k # N + 1
    <3>1. k \in 1..N /\ k + 1 \in 1..(N + 1)
      BY <1>1, <2>2
    <3> QED
      BY <1>3, <1>6, <1>7, <3>1
  <2> QED
    BY <2>1, <2>2
<1>9. ASSUME NEW k \in 1..(N + 1), NEW m \in 1..(N + 2), k < m
      PROVE  t[k] + HEAD_LEN + new[k] <= t[m]
  <2>1. CASE k = N + 1
    <3>1. t[k] = s[N + 1] /\ new[k] = len /\ m = N + 2
      BY <1>1, <1>3, <1>7, <1>9, <2>1
    <3>2. t[m] = last
      BY <1>7, <3>1
    <3> QED
      BY <1>1, <1>l, <1>7, <3>1, <3>2
  <2>2. CASE k # N + 1 /\ m # N + 2
    <3>1. k \in 1..N /\ m \in 1..(N + 1)
      BY <1>1, <2>2
    <3> QED
      BY <1>3, <1>6, <1>7, <1>9, <3>1
  <2>3. CASE k # N + 1 /\ m = N + 2
    <3>1. k \in 1..N /\ N + 1 \in 1..(N + 1) /\ k < N + 1 /\ k \in 1..(N + 1)
      BY <1>1, <2>3
    <3>2. s[k] + HEAD_LEN + lens[k] <= s[N + 1] /\ t[k] = s[k] /\ new[k] = lens[k] /\ t[m] = last
      BY <1>3, <1>6, <1>7, <2>3, <3>1
    <3>3. s[k] \in Int /\ s[N + 1] \in Int /\ lens[k] \in Nat
      BY <1>3, <1>7, <3>1
    <3> QED
      BY <1>1, <1>l, <3>2, <3>3, Smaller
  <2> QED
    BY <2>1, <2>2, <2>3
<1>10. Places(t, new)
  BY <1>1, <1>3, <1>7, <1>8, <1>9 DEF Places
<1>11. Len(all) = t[Len(new) + 1] - t[n + 1]
  <2>1. n + 1 \in 1..(N + 1) /\ N + 1 \in 1..(N + 1) /\ Len(new) + 1 = N + 2
    BY <1>1, <1>3
  <2>2. t[n + 1] = s[n + 1] /\ t[N + 2] = last /\ s[n + 1] \in Int /\ s[N + 1] \in Int
    BY <1>7, <2>1
  <2>3. Len(all) = s[N + 1] - s[n + 1] + HEAD_LEN + len
    BY <1>2, <1>5
  <2>4. s[N + 1] - s[n + 1] + HEAD_LEN + len = last - s[n + 1]
    <3> DEFINE a == s[N + 1]  b == s[n + 1]
    <3>1. a \in Int /\ b \in Int /\ last = a + HEAD_LEN + len
      BY <1>l, <2>2
    <3> HIDE DEF a, b
    <3>2. a - b + HEAD_LEN + len = last - b
      BY <1>1, <3>1
    <3> QED
      BY <3>2 DEF a, b
  <2>5. t[Len(new) + 1] = last
    BY <2>1, <2>2
  <2> QED
    BY <2>2, <2>3, <2>4, <2>5
<1>12. ASSUME NEW k \in (n + 1)..(N + 1), NEW i \in 1..(HEAD_LEN + new[k])
       PROVE  all[t[k] - t[n + 1] + i] = <<k, i, new[k]>>
  <2>1. n + 1 \in 1..(N + 1) /\ k \in 1..(N + 1)
    BY <1>1
  <2>2. t[n + 1] = s[n + 1] /\ t[k] = s[k] /\ s[n + 1] \in Int /\ s[k] \in Int
    BY <1>7, <2>1
  <2> DEFINE at == s[k] - s[n + 1] + i
  <2>3. CASE k = N + 1
    <3>1. new[k] = len /\ i \in 1..(HEAD_LEN + len)
      BY <1>3, <2>3
    <3>2. at = Len(rest) + i
      BY <1>1, <1>2, <2>2, <2>3
    <3>3. at \in 1..(Len(rest) + HEAD_LEN + len) /\ ~(at <= Len(rest)) /\ at - Len(rest) = i
      BY <1>1, <1>r, <3>1, <3>2
    <3> HIDE DEF at
    <3>4. all[at] = msg[i]
      BY <1>5, <3>3
    <3> QED
      BY <1>4, <2>2, <2>3, <3>1, <3>4 DEF at
  <2>4. CASE k # N + 1
    <3>1. k \in (n + 1)..N /\ k \in 1..N
      BY <1>1, <2>4
    <3>2. new[k] = lens[k] /\ lens[k] \in Nat /\ rest[at] = <<k, i, lens[k]>>
      <4>1. new[k] = lens[k] /\ lens[k] \in Nat
        BY <1>3, <3>1
      <4> QED
        BY <1>2, <3>1, <4>1
    <3>3. s[k] + HEAD_LEN + lens[k] <= s[N + 1] /\ s[N + 1] \in Int
      <4>1. N + 1 \in 1..(N + 1) /\ k < N + 1
        BY <1>1, <3>1
      <4> QED
        BY <1>6, <1>7, <3>1, <4>1
    <3>4. s[n + 1] <= s[k]
      <4>1. CASE k = n + 1
        BY <2>2, <4>1
      <4>2. CASE k # n + 1
        <5>1. n + 1 < k /\ n + 1 \in 1..N
          BY <1>1, <3>1, <4>2
        <5>2. s[n + 1] + HEAD_LEN + lens[n + 1] <= s[k] /\ lens[n + 1] \in Nat
          BY <1>3, <1>6, <2>1, <5>1
        <5> QED
          BY <1>1, <2>2, <5>2
      <4> QED
        BY <4>1, <4>2
    <3>5. at \in 1..Len(rest)
      BY <1>1, <1>2, <2>2, <3>2, <3>3, <3>4, Within
    <3> HIDE DEF at
    <3>6. at \in 1..(Len(rest) + HEAD_LEN + len) /\ at <= Len(rest)
      BY <1>1, <1>r, <3>5
    <3>7. all[at] = rest[at]
      BY <1>5, <3>6
    <3> QED
      BY <2>2, <3>2, <3>7 DEF at
  <2> QED
    BY <2>3, <2>4
<1>13. n \in 0..Len(new)
  BY <1>1, <1>3
<1>14. Framed(all, n, new)
  BY <1>3, <1>10, <1>11, <1>12, <1>13 DEF Framed
<1> QED
  BY <1>14 DEF all, new, msg, N

(* The stream begins with the header and body of the next message, and      *)
(* what follows them is framed again.                                       *)
LEMMA FramedPop ==
  ASSUME NEW rest \in Seq(Byte), NEW lens \in Seq(Nat), NEW n, Framed(rest, n, lens), Len(rest) # 0
  PROVE  /\ n \in Nat /\ n + 1 \in 1..Len(lens) /\ lens[n + 1] \in Nat
         /\ HEAD_LEN + lens[n + 1] <= Len(rest)
         /\ \A i \in 1..(HEAD_LEN + lens[n + 1]) : rest[i] = <<n + 1, i, lens[n + 1]>>
         /\ Framed(SubSeq(rest, HEAD_LEN + lens[n + 1] + 1, Len(rest)), n + 1, lens)
<1> DEFINE N == Len(lens)  R == Len(rest)  len == lens[n + 1]
           all == SubSeq(rest, HEAD_LEN + len + 1, R)
<1>1. N \in Nat /\ R \in Nat /\ n \in 0..N /\ HEAD_LEN \in Nat \ {0}
  BY SizesAssumption DEF Framed
<1>2. PICK s : /\ Places(s, lens) /\ R = s[N + 1] - s[n + 1]
               /\ \A k \in (n + 1)..N : \A i \in 1..(HEAD_LEN + lens[k]) :
                    rest[s[k] - s[n + 1] + i] = <<k, i, lens[k]>>
  BY DEF Framed
<1>3. \A k \in 1..N : lens[k] \in Nat
  OBVIOUS
<1>4. /\ \A k \in 1..(N + 1) : s[k] \in Int
      /\ \A k \in 1..N : s[k + 1] = s[k] + HEAD_LEN + lens[k]
      /\ \A k \in 1..N, m \in 1..(N + 1) : k < m => s[k] + HEAD_LEN + lens[k] <= s[m]
  BY <1>1, <1>2 DEF Places
<1> HIDE DEF N, R
<1>5. n # N
  <2>1. n = N => R = 0
    <3>1. N + 1 \in 1..(N + 1)
      BY <1>1
    <3>2. s[N + 1] \in Int
      BY <1>4, <3>1
    <3>3. s[N + 1] - s[N + 1] = 0
      BY <3>2
    <3> QED
      BY <1>2, <3>3
  <2> QED
    BY <2>1 DEF R
<1>6. n \in Nat /\ n + 1 \in 1..N /\ n + 1 \in 1..(N + 1) /\ N + 1 \in 1..(N + 1)
      /\ n + 2 \in 1..(N + 1) /\ n + 1 + 1 = n + 2 /\ n + 1 < N + 1
  BY <1>1, <1>5
<1>7. len \in Nat
  BY <1>3, <1>6
<1> HIDE DEF len
<1> DEFINE a == s[n + 1]  b == s[n + 2]  c == s[N + 1]
<1>8. /\ a \in Int /\ b \in Int /\ c \in Int /\ b = a + HEAD_LEN + len
      /\ a + HEAD_LEN + len <= c /\ R = c - a
  BY <1>2, <1>4, <1>6 DEF len
<1> HIDE DEF a, b, c
<1>9. HEAD_LEN + len <= R
  BY <1>1, <1>7, <1>8
<1>10. ASSUME NEW i \in 1..(HEAD_LEN + len) PROVE rest[i] = <<n + 1, i, len>>
  <2>1. a - a + i = i
    BY <1>1, <1>7, <1>8
  <2>2. n + 1 \in (n + 1)..N
    BY <1>1, <1>6
  <2>3. rest[a - a + i] = <<n + 1, i, len>>
    BY <1>2, <2>2 DEF a, len
  <2> QED
    BY <2>1, <2>3
<1>11. /\ all \in Seq(Byte) /\ Len(all) = R - (HEAD_LEN + len)
       /\ \A i \in 1..(R - (HEAD_LEN + len)) : all[i] = rest[HEAD_LEN + len + i]
  <2> DEFINE m == HEAD_LEN + len + 1
  <2>1. m \in 1..(R + 1) /\ R \in 0..R /\ (IF m <= R THEN R - m + 1 ELSE 0) = R - (HEAD_LEN + len)
        /\ R - m + 1 = R - (HEAD_LEN + len)
    BY <1>1, <1>7, <1>9
  <2>m. m = HEAD_LEN + len + 1
    OBVIOUS
  <2> HIDE DEF m
  <2>2. /\ all \in Seq(Byte) /\ Len(all) = IF m <= R THEN R - m + 1 ELSE 0
        /\ \A i \in 1..(R - m + 1) : all[i] = rest[m + i - 1]
    BY <2>1, BytesOfSub DEF R, m
  <2>3. ASSUME NEW i \in 1..(R - (HEAD_LEN + len)) PROVE all[i] = rest[HEAD_LEN + len + i]
    <3>1. i \in 1..(R - m + 1) /\ m + i - 1 = HEAD_LEN + len + i
      BY <1>1, <1>7, <2>1, <2>m
    <3> HIDE DEF all
    <3> QED
      BY <2>2, <3>1
  <2> HIDE DEF all
  <2> QED
    BY <2>1, <2>2, <2>3
<1> HIDE DEF all
<1>12. Len(all) = s[N + 1] - s[n + 1 + 1]
  <2>1. c - a - (HEAD_LEN + len) = c - b
    BY <1>1, <1>7, <1>8
  <2> QED
    BY <1>6, <1>8, <1>11, <2>1 DEF b, c
<1>13. ASSUME NEW k \in (n + 1 + 1)..N, NEW i \in 1..(HEAD_LEN + lens[k])
       PROVE  all[s[k] - s[n + 1 + 1] + i] = <<k, i, lens[k]>>
  <2>1. k \in (n + 1)..N /\ k \in 1..N /\ k \in 1..(N + 1) /\ k < N + 1 /\ n + 1 < k
    BY <1>1, <1>6
  <2> DEFINE at == s[k]  l == lens[k]
  <2>2. at \in Int /\ l \in Nat /\ at + HEAD_LEN + l <= c /\ b <= at
    <3>1. at \in Int /\ l \in Nat
      BY <1>3, <1>4, <2>1
    <3>2. at + HEAD_LEN + l <= c
      BY <1>4, <1>6, <2>1 DEF c
    <3>3. a + HEAD_LEN + len <= at
      BY <1>4, <1>6, <2>1 DEF a, len
    <3> HIDE DEF at
    <3> QED
      BY <1>8, <3>1, <3>2, <3>3
  <2>3. rest[at - a + i] = <<k, i, l>>
    BY <1>2, <2>1 DEF a
  <2>4. i \in 1..(HEAD_LEN + l)
    OBVIOUS
  <2> HIDE DEF at, l
  <2>5. /\ at - b + i \in 1..(R - (HEAD_LEN + len))
        /\ HEAD_LEN + len + (at - b + i) = at - a + i
    BY <1>1, <1>7, <1>8, <2>2, <2>4
  <2>6. all[at - b + i] = rest[HEAD_LEN + len + (at - b + i)]
    BY <1>11, <2>5
  <2>7. all[at - b + i] = <<k, i, l>>
    BY <2>3, <2>5, <2>6
  <2> QED
    BY <1>6, <2>7 DEF at, b, l
<1>14. Framed(all, n + 1, lens)
  <2>1. n + 1 \in 0..N
    BY <1>1, <1>6
  <2> QED
    BY <1>2, <1>12, <1>13, <2>1 DEF Framed, N
<1> QED
  BY <1>6, <1>7, <1>9, <1>10, <1>14 DEF all, len, N, R
-----------------------------------------------------------------------------
Types ==
  /\ peer \in [Conns -> Seq(Byte)] /\ fin \in [Conns -> BOOLEAN]
  /\ conn \in [Conns -> {"open", "closed"}]
  /\ pc \in [Conns -> {"loop", "read", "parse", "head", "body"}]
  /\ want \in [Conns -> Nat] /\ spare \in [Conns -> {0} \cup Caps]
  /\ ibuf \in [Conns -> io_bufs] /\ obuf \in [Conns -> io_bufs]
  /\ epollout \in [Conns -> BOOLEAN] /\ wire \in [Conns -> Seq(Byte)]
  /\ pool \in [Caps -> Nat] /\ total_mem \in Nat
  /\ failed \in {"no", "head", "pop", "junk", "exit"}
  /\ told \in [Conns -> Seq(Nat)] /\ calls \in [Conns -> Seq(Seq(Byte))]
  /\ accepted \in [Conns -> [no : Nat, bytes : Seq(Byte)]] /\ refused \in SUBSET Conns

(* The router got the bodies of the first messages of the peer.            *)
CallsOK(c) ==
  /\ Len(calls[c]) <= Len(told[c])
  /\ \A k \in 1..Len(calls[c]) : calls[c][k] = Body(k, told[c][k])

(* What do_read keeps: ibuf and the kernel hold the messages that follow,  *)
(* cut anywhere, and a callback that has ended left no whole message.      *)
Reading(c) ==
  /\ pc[c] # "parse" => ibuf[c].head = 0
  /\ pc[c] = "read" => want[c] <= Len(peer[c]) /\ Reserved(ibuf[c], spare[c], want[c])
  /\ pc[c] \in {"loop", "head", "body"} /\ Headed(ibuf[c]) =>
       ~Whole(ibuf[c]) /\ msglen(ibuf[c]) <= LEN_LIMIT
  /\ Framed(ibuf[c].data \o peer[c], Len(calls[c]), told[c])

(* What send_message and do_write keep; between its two halves the header  *)
(* of the message that is being sent ends the stream.                      *)
Sending(c) ==
  /\ c \notin refused => obuf[c].head = 0
  /\ pc[c] = "head" => obuf[c].head = 0 /\ Reserved(obuf[c], spare[c], HEAD_LEN)
  /\ pc[c] = "body" => /\ obuf[c].head = 0 /\ Reserved(obuf[c], spare[c], want[c])
                       /\ Len(obuf[c].data) >= HEAD_LEN
                       /\ Len(obuf[c].data) > HEAD_LEN => epollout[c]
  /\ pc[c] # "body" /\ obuf[c].data # << >> => epollout[c]
  /\ c \notin refused =>
       wire[c] \o obuf[c].data =
         IF pc[c] = "body" THEN accepted[c].bytes \o Header(accepted[c].no + 1, want[c])
                           ELSE accepted[c].bytes

(* Only a callback that waits for read() or a body holds a fresh io_buf.   *)
Settled(c) == pc[c] \in {"loop", "parse"} => spare[c] = 0

ConnInv(c) ==
  /\ Fit(ibuf[c]) /\ Fit(obuf[c]) /\ CallsOK(c)
  /\ conn[c] = "open" => Reading(c) /\ Sending(c) /\ Settled(c)

(* A failed assert on head is that of a connection with a refused body.     *)
FailedHead == failed = "head" => \E c \in refused : obuf[c].head # 0

IInv ==
  /\ Types /\ FailedHead /\ BuffersAreConserved
  /\ \A c \in Conns : ConnInv(c)

(* What a step leaves alone of the connection c.                           *)
SameInput(c) ==
  /\ peer'[c] = peer[c] /\ ibuf'[c] = ibuf[c] /\ calls'[c] = calls[c] /\ told'[c] = told[c]
SameOutput(c) ==
  /\ obuf'[c] = obuf[c] /\ epollout'[c] = epollout[c] /\ wire'[c] = wire[c]
  /\ accepted'[c] = accepted[c] /\ (c \in refused' <=> c \in refused)
SameCallback(c) ==
  conn'[c] = conn[c] /\ pc'[c] = pc[c] /\ want'[c] = want[c] /\ spare'[c] = spare[c]

(* A connection of which nothing changes keeps its invariant.               *)
LEMMA Frame ==
  ASSUME NEW c, ConnInv(c), SameInput(c), SameOutput(c), SameCallback(c)
  PROVE  ConnInv(c)'
<1>1. CallsOK(c)'
  BY DEF ConnInv, CallsOK, SameInput
<1>2. Reading(c) => Reading(c)'
  BY DEF Reading, SameInput, SameCallback
<1>3. Sending(c) => Sending(c)'
  BY DEF Sending, SameOutput, SameCallback
<1>4. Settled(c) => Settled(c)'
  BY DEF Settled, SameCallback
<1> QED
  BY <1>1, <1>2, <1>3, <1>4 DEF ConnInv, SameInput, SameOutput, SameCallback

Others(c) ==
  \A d \in Conns : d # c => SameInput(d) /\ SameOutput(d) /\ SameCallback(d)

(* A step moves memory between the pool and the connection, or allocates.  *)
Holds(c) == ibuf[c].cap + obuf[c].cap + spare[c]
Balanced(c) == total_mem' + Idle(pool) + Holds(c) = total_mem + Idle(pool') + Holds(c)'

(* Capacities are numbers.                                                  *)
LEMMA CapsAreNat == \A k \in {0} \cup Caps : k \in Nat
BY SizesAssumption

(* What the memory is counted from.                                         *)
LEMMA HoldsType ==
  ASSUME NEW c \in Conns, Types
  PROVE  /\ ibuf[c].cap \in Nat /\ obuf[c].cap \in Nat /\ spare[c] \in Nat /\ Holds(c) \in Nat
         /\ Idle(pool) \in Int /\ total_mem \in Nat
<1>1. ibuf[c].cap \in Nat /\ obuf[c].cap \in Nat /\ spare[c] \in Nat
  <2>1. ibuf[c] \in io_bufs /\ obuf[c] \in io_bufs /\ spare[c] \in {0} \cup Caps
    BY DEF Types
  <2>2. ibuf[c].cap \in {0} \cup Caps /\ obuf[c].cap \in {0} \cup Caps
    BY <2>1, IoBufs
  <2> QED
    BY <2>1, <2>2, CapsAreNat
<1>2. Idle(pool) \in Int /\ total_mem \in Nat
  BY IdleType DEF Types
<1> QED
  BY <1>1, <1>2 DEF Holds

(* A balanced step of one connection conserves the memory of all.           *)
LEMMA Conserved ==
  ASSUME NEW c \in Conns, Types, Types', BuffersAreConserved, Others(c), Balanced(c)
  PROVE  BuffersAreConserved'
<1> DEFINE w == [d \in Conns |-> Holds(d)]  u == [d \in Conns |-> Holds(d)']
<1>1. \A d \in Conns : Holds(d) \in Nat /\ Holds(d)' \in Nat
  <2>1. ASSUME NEW d \in Conns PROVE Holds(d) \in Nat
    BY HoldsType
  <2>2. ASSUME NEW d \in Conns PROVE Holds(d)' \in Nat
    <3>1. ibuf'[d] \in io_bufs /\ obuf'[d] \in io_bufs /\ spare'[d] \in {0} \cup Caps
      BY DEF Types
    <3>2. ibuf'[d].cap \in {0} \cup Caps /\ obuf'[d].cap \in {0} \cup Caps
      BY <3>1, IoBufs
    <3>3. ibuf'[d].cap \in Nat /\ obuf'[d].cap \in Nat /\ spare'[d] \in Nat
      BY <3>1, <3>2, CapsAreNat
    <3> QED
      BY <3>3 DEF Holds
  <2> QED
    BY <2>1, <2>2
<1>2. w \in [Conns -> Int] /\ u \in [Conns -> Int] /\ w[c] = Holds(c) /\ u[c] = Holds(c)'
  BY <1>1
<1>3. ASSUME NEW d \in Conns, d # c PROVE u[d] = w[d]
  BY <1>3 DEF Others, SameInput, SameOutput, SameCallback, Holds
<1>4. total_mem = Idle(pool) + Total(w)
  BY DEF BuffersAreConserved, Idle, Holds
<1>5. BuffersAreConserved' <=> total_mem' = Idle(pool') + Total(u)
  BY DEF BuffersAreConserved, Idle, Holds
<1>6. IsFiniteSet(Conns)
  BY ConnsAssumption
<1>7. Idle(pool) \in Int /\ Idle(pool') \in Int /\ total_mem \in Nat /\ total_mem' \in Nat
  BY IdleType DEF Types
<1> HIDE DEF w, u
<1>8. Total(u) = Total(w) - w[c] + u[c]
  BY <1>2, <1>3, <1>6, TotalUpdate
<1>9. Total(w) \in Int /\ Total(u) \in Int
  BY <1>2, <1>6, TotalType
<1> DEFINE h == Holds(c)  k == Holds(c)'
<1>10. h \in Nat /\ k \in Nat /\ Total(u) = Total(w) - h + k
  BY <1>1, <1>2, <1>8
<1>11. total_mem' + Idle(pool) + h = total_mem + Idle(pool') + k
  BY DEF Balanced
<1> HIDE DEF h, k
<1>12. total_mem' = Idle(pool') + Total(u)
  BY <1>4, <1>7, <1>9, <1>10, <1>11
<1> QED
  BY <1>5, <1>12

(* A step that leaves the buffers alone conserves the memory.               *)
LEMMA SameBuffers ==
  ASSUME BuffersAreConserved, UNCHANGED <<total_mem, pool, ibuf, obuf, spare>>
  PROVE  BuffersAreConserved'
<1>1. /\ [n \in Caps |-> n * pool'[n]] = [n \in Caps |-> n * pool[n]]
      /\ [c \in Conns |-> ibuf'[c].cap + obuf'[c].cap + spare'[c]]
           = [c \in Conns |-> ibuf[c].cap + obuf[c].cap + spare[c]]
  OBVIOUS
<1> QED
  BY <1>1 DEF BuffersAreConserved

(* A step of one connection: what is left to show of each action.           *)
LEMMA OneConnection ==
  ASSUME NEW c \in Conns, IInv, Others(c), Types', FailedHead', Balanced(c), ConnInv(c)'
  PROVE  IInv'
<1>0. BuffersAreConserved'
  BY Conserved DEF IInv
<1>1. ASSUME NEW d \in Conns PROVE ConnInv(d)'
  <2>1. CASE d = c
    BY <2>1
  <2>2. CASE d # c
    BY <2>2, Frame DEF IInv, Others
  <2> QED
    BY <2>1, <2>2
<1> QED
  BY <1>0, <1>1 DEF IInv

(* The process ends, and every other conjunct of the invariant stays.       *)
LEMMA Failure ==
  ASSUME IInv, NEW why \in {"head", "pop", "junk", "exit"}, Fail(why),
         why = "head" => \E c \in refused : obuf[c].head # 0
  PROVE  IInv'
<1>1. Types' /\ FailedHead'
  BY DEF IInv, Types, FailedHead, Fail, buffers, history
<1>2. BuffersAreConserved'
  BY SameBuffers DEF IInv, Fail, buffers
<1>3. ASSUME NEW d \in Conns PROVE ConnInv(d)'
  BY Frame DEF IInv, Fail, buffers, history, SameInput, SameOutput, SameCallback
<1> QED
  BY <1>1, <1>2, <1>3 DEF IInv

(* clean_conn gives everything back.                                       *)
LEMMA Closing ==
  ASSUME NEW c \in Conns, IInv, NEW caps \in Seq({0} \cup Caps), clean_conn(c, caps), failed = "no",
         Idle(Reverted(caps)) = Idle(pool) + Holds(c)
  PROVE  IInv'
<1> USE DEF clean_conn, history
<1>1. Types'
  BY NoBuf, RevertedType, EmptySeq DEF IInv, Types
<1>2. FailedHead'
  BY DEF FailedHead
<1>3. Others(c)
  BY DEF Others, SameInput, SameOutput, SameCallback, IInv, Types
<1>4. ConnInv(c)'
  BY NoBuf DEF IInv, Types, ConnInv, CallsOK
<1>5. Balanced(c)
  <2>1. /\ ibuf'[c] = NULL /\ obuf'[c] = NULL /\ spare'[c] = 0 /\ total_mem' = total_mem
        /\ pool' = Reverted(caps)
    BY DEF IInv, Types
  <2>2. Holds(c)' = 0
    BY <2>1, NoBuf DEF Holds
  <2>3. Holds(c) \in Nat /\ Idle(pool) \in Int /\ total_mem \in Nat
    BY HoldsType DEF IInv
  <2> DEFINE i == Idle(pool)  h == Holds(c)  j == Idle(pool')
  <2>4. i \in Int /\ h \in Nat /\ j = i + h
    BY <2>1, <2>3
  <2> HIDE DEF i, h, j
  <2>5. total_mem + i + h = total_mem + j + 0
    BY <2>3, <2>4
  <2> QED
    BY <2>1, <2>2, <2>5 DEF Balanced, i, h, j
<1> QED
  BY <1>1, <1>2, <1>3, <1>4, <1>5, OneConnection

(* clean_conn outside of read(): no fresh io_buf is waiting.                *)
LEMMA ClosingSettled ==
  ASSUME NEW c \in Conns, IInv, spare[c] = 0, failed = "no",
         clean_conn(c, <<ibuf[c].cap, obuf[c].cap>>)
  PROVE  IInv'
<1>1. ibuf[c] \in io_bufs /\ obuf[c] \in io_bufs /\ pool \in [Caps -> Nat]
  BY DEF IInv, Types
<1>2. ibuf[c].cap \in {0} \cup Caps /\ obuf[c].cap \in {0} \cup Caps
  BY <1>1, IoBufs
<1>3. /\ ibuf[c].cap \in Nat /\ obuf[c].cap \in Nat /\ Idle(pool) \in Int
  BY HoldsType DEF IInv
<1>4. << >> \in Seq({0} \cup Caps)
  BY EmptySeq
<1>5. Idle(Reverted(<<ibuf[c].cap, obuf[c].cap>>)) = Idle(pool) + ibuf[c].cap + obuf[c].cap
  BY <1>1, <1>2, <1>4, RevertTwo
<1>6. Idle(pool) + ibuf[c].cap + obuf[c].cap = Idle(pool) + (ibuf[c].cap + obuf[c].cap + 0)
  BY <1>3
<1>7. <<ibuf[c].cap, obuf[c].cap>> \in Seq({0} \cup Caps)
  BY <1>2
<1>8. Idle(Reverted(<<ibuf[c].cap, obuf[c].cap>>)) = Idle(pool) + Holds(c)
  BY <1>5, <1>6 DEF Holds
<1> QED
  BY <1>7, <1>8, Closing

(* The quantities that a step may change are integers.                      *)
LEMMA Numbers ==
  ASSUME NEW c \in Conns, Types, Types'
  PROVE  /\ ibuf[c].cap \in Int /\ obuf[c].cap \in Int /\ spare[c] \in Int
         /\ ibuf'[c].cap \in Int /\ obuf'[c].cap \in Int /\ spare'[c] \in Int
         /\ Idle(pool) \in Int /\ Idle(pool') \in Int /\ total_mem \in Int /\ total_mem' \in Int
<1>1. /\ ibuf'[c] \in io_bufs /\ obuf'[c] \in io_bufs /\ spare'[c] \in {0} \cup Caps
      /\ pool' \in [Caps -> Nat] /\ total_mem' \in Nat
  BY DEF Types
<1>2. ibuf'[c].cap \in {0} \cup Caps /\ obuf'[c].cap \in {0} \cup Caps
  BY <1>1, IoBufs
<1>3. ibuf'[c].cap \in Nat /\ obuf'[c].cap \in Nat /\ spare'[c] \in Nat
  BY <1>1, <1>2, CapsAreNat
<1>4. Idle(pool') \in Int
  BY <1>1, IdleType
<1> QED
  BY <1>1, <1>3, <1>4, HoldsType

(* The steps that allocate for the callback, and those that only exchange. *)
LEMMA Allocated ==
  ASSUME NEW c \in Conns, Types, Types', spare[c] = 0, UNCHANGED <<ibuf, obuf>>,
         total_mem' + Idle(pool) = total_mem + Idle(pool') + spare'[c]
  PROVE  Balanced(c)
<1> DEFINE h == ibuf[c].cap  k == obuf[c].cap  s == spare'[c]  i == Idle(pool)  j == Idle(pool')
           u == total_mem'
<1>1. /\ h \in Int /\ k \in Int /\ s \in Int /\ i \in Int /\ j \in Int /\ u \in Int
      /\ total_mem \in Int
  BY Numbers
<1>2. u + i = total_mem + j + s
  OBVIOUS
<1> HIDE DEF h, k, s, i, j, u
<1>3. u + i + (h + k + 0) = total_mem + j + (h + k + s)
  BY <1>1, <1>2
<1> QED
  BY <1>3 DEF h, k, s, i, j, u, Balanced, Holds

(* An exchange between ibuf and the pool.                                   *)
LEMMA ExchangedInput ==
  ASSUME NEW c \in Conns, Types, Types', UNCHANGED <<total_mem, obuf>>,
         Idle(pool') + ibuf'[c].cap = Idle(pool) + ibuf[c].cap + spare[c], spare'[c] = 0
  PROVE  Balanced(c)
<1> DEFINE h == ibuf[c].cap  g == ibuf'[c].cap  k == obuf[c].cap  s == spare[c]
           i == Idle(pool)  j == Idle(pool')
<1>1. /\ h \in Int /\ g \in Int /\ k \in Int /\ s \in Int /\ i \in Int /\ j \in Int
      /\ total_mem \in Int
  BY Numbers
<1>2. j + g = i + h + s
  OBVIOUS
<1> HIDE DEF h, g, k, s, i, j
<1>3. total_mem + i + (h + k + s) = total_mem + j + (g + k + 0)
  BY <1>1, <1>2
<1> QED
  BY <1>3 DEF h, g, k, s, i, j, Balanced, Holds

(* An exchange between obuf and the pool.                                   *)
LEMMA ExchangedOutput ==
  ASSUME NEW c \in Conns, Types, Types', UNCHANGED <<total_mem, ibuf>>,
         Idle(pool') + obuf'[c].cap = Idle(pool) + obuf[c].cap + spare[c], spare'[c] = 0
  PROVE  Balanced(c)
<1> DEFINE h == obuf[c].cap  g == obuf'[c].cap  k == ibuf[c].cap  s == spare[c]
           i == Idle(pool)  j == Idle(pool')
<1>1. /\ h \in Int /\ g \in Int /\ k \in Int /\ s \in Int /\ i \in Int /\ j \in Int
      /\ total_mem \in Int
  BY Numbers
<1>2. j + g = i + h + s
  OBVIOUS
<1> HIDE DEF h, g, k, s, i, j
<1>3. total_mem + i + (k + h + s) = total_mem + j + (k + g + 0)
  BY <1>1, <1>2
<1> QED
  BY <1>3 DEF h, g, k, s, i, j, Balanced, Holds

(* A step that moves no memory.                                             *)
LEMMA Unmoved ==
  ASSUME NEW c \in Conns, Types, UNCHANGED <<total_mem, pool, spare>>,
         ibuf'[c].cap = ibuf[c].cap, obuf'[c].cap = obuf[c].cap
  PROVE  Balanced(c)
BY DEF Balanced, Holds
-----------------------------------------------------------------------------
(* Concatenation of bytes.                                                  *)
LEMMA Associative ==
  ASSUME NEW s \in Seq(Byte), NEW t \in Seq(Byte), NEW u \in Seq(Byte)
  PROVE  (s \o t) \o u = s \o (t \o u)
BY ConcatAssociative

(* The capacities that clean_conn reverts.                                  *)
LEMMA PairOfCaps ==
  ASSUME NEW a \in io_bufs, NEW b \in io_bufs
  PROVE  <<a.cap, b.cap>> \in Seq({0} \cup Caps)
BY IoBufs

(* Without room, the outcome is junk or exit.                               *)
LEMMA AllocFails ==
  ASSUME NEW b, NEW n, NEW free, AllocFailure(b, n, free) # "no"
  PROVE  AllocFailure(b, n, free) \in {"junk", "exit"}
BY DEF AllocFailure

(* What the types say of one connection.                                   *)
LEMMA TypesAt ==
  ASSUME NEW c \in Conns, Types
  PROVE  /\ peer[c] \in Seq(Byte) /\ want[c] \in Nat /\ spare[c] \in {0} \cup Caps
         /\ ibuf[c] \in io_bufs /\ ibuf[c].data \in Seq(Byte)
         /\ obuf[c] \in io_bufs /\ obuf[c].data \in Seq(Byte)
         /\ wire[c] \in Seq(Byte) /\ told[c] \in Seq(Nat) /\ calls[c] \in Seq(Seq(Byte))
         /\ accepted[c].no \in Nat /\ accepted[c].bytes \in Seq(Byte) /\ pool \in [Caps -> Nat]
         /\ accepted[c] = [no |-> accepted[c].no, bytes |-> accepted[c].bytes]
BY IoBufs DEF Types

(* input_buf::read_data up to read().                                       *)
LEMMA read_dataStep ==
  ASSUME NEW c \in Conns, IInv, read_data(c)
  PROVE  IInv'
<1>a. /\ Types /\ ConnInv(c) /\ Reading(c) /\ Sending(c) /\ Settled(c) /\ conn[c] = "open" /\ pc[c] = "loop"
      /\ ibuf[c].head = 0 /\ spare[c] = 0
  BY DEF IInv, ConnInv, read_data, Running, Reading, Settled
<1>t. peer[c] \in Seq(Byte) /\ ibuf[c] \in io_bufs /\ obuf[c] \in io_bufs
  BY <1>a, TypesAt
<1> PICK need \in IF peer[c] = << >> /\ fin[c] THEN {0} ELSE 1..Len(peer[c]) :
       \/ ibuf[c].head # 0 /\ Fail("head")
       \/ AllocFailure(ibuf[c], need, pool) # "no" /\ Fail(AllocFailure(ibuf[c], need, pool))
       \/ TooLarge(ibuf[c], need) /\ clean_conn(c, <<ibuf[c].cap, obuf[c].cap>>)
       \/ /\ ibuf[c].head = 0 /\ ~TooLarge(ibuf[c], need)
          /\ AllocFailure(ibuf[c], need, pool) = "no"
          /\ Reserve(c, ibuf[c], need, pool)
          /\ want' = [want EXCEPT ![c] = need] /\ pc' = [pc EXCEPT ![c] = "read"]
          /\ UNCHANGED <<junk, peer, fin, conn, ibuf, obuf, epollout, wire, failed, history>>
  BY DEF read_data
<1>n. need \in Nat /\ need <= Len(peer[c])
  BY <1>t
<1>1. CASE ibuf[c].head # 0
  BY <1>a, <1>1
<1>2. CASE AllocFailure(ibuf[c], need, pool) # "no" /\ Fail(AllocFailure(ibuf[c], need, pool))
  BY <1>2, AllocFails, Failure
<1>3. CASE clean_conn(c, <<ibuf[c].cap, obuf[c].cap>>)
  BY <1>3, <1>a, ClosingSettled DEF read_data, Running
<1>4. CASE /\ ~TooLarge(ibuf[c], need) /\ Reserve(c, ibuf[c], need, pool)
           /\ want' = [want EXCEPT ![c] = need] /\ pc' = [pc EXCEPT ![c] = "read"]
           /\ UNCHANGED <<junk, peer, fin, conn, ibuf, obuf, epollout, wire, failed, history>>
  <2> USE DEF history
  <2>1. /\ spare' \in [Conns -> {0} \cup Caps] /\ pool' \in [Caps -> Nat] /\ total_mem' \in Nat
        /\ Reserved(ibuf[c], spare'[c], need)
        /\ \A d \in Conns : d # c => spare'[d] = spare[d]
        /\ total_mem' + Idle(pool) = total_mem + Idle(pool') + spare'[c]
    <3>1. spare \in [Conns -> {0} \cup Caps] /\ pool \in [Caps -> Nat] /\ total_mem \in Nat
      BY <1>a DEF Types
    <3> QED
      BY <1>t, <1>n, <1>4, <3>1, ReserveStep
  <2>2. pc'[c] = "read" /\ want'[c] = need
    BY <1>a, <1>4 DEF Types
  <2>3. Types'
    BY <1>a, <1>n, <1>4, <2>1 DEF Types
  <2>4. FailedHead'
    BY <1>4 DEF IInv, FailedHead
  <2>5. Others(c)
    BY <1>a, <1>4, <2>1 DEF Types, Others, SameInput, SameOutput, SameCallback
  <2>6. Reading(c)'
    BY <1>a, <1>n, <1>4, <2>1, <2>2 DEF Reading
  <2>7. Sending(c)'
    BY <1>a, <1>4, <2>2 DEF Sending
  <2>8. ConnInv(c)'
    BY <1>a, <1>4, <2>2, <2>6, <2>7 DEF ConnInv, CallsOK, Settled
  <2>9. Balanced(c)
    BY <1>4, <1>a, <2>1, <2>3, Allocated
  <2> QED
    BY <2>3, <2>4, <2>5, <2>8, <2>9, OneConnection
<1> QED
  BY <1>1, <1>2, <1>3, <1>4

(* The rest of it: the bytes move from the kernel to ibuf, in order.        *)
LEMMA read_doneStep ==
  ASSUME NEW c \in Conns, IInv, read_done(c)
  PROVE  IInv'
<1> DEFINE got == SubSeq(peer[c], 1, want[c])  b == Filled(c, ibuf[c], got)
           left == SubSeq(peer[c], want[c] + 1, Len(peer[c]))
<1>a. /\ Types /\ ConnInv(c) /\ Reading(c) /\ Sending(c) /\ Settled(c) /\ conn[c] = "open" /\ pc[c] = "read"
      /\ ibuf[c].head = 0 /\ want[c] <= Len(peer[c]) /\ Reserved(ibuf[c], spare[c], want[c])
  BY DEF IInv, ConnInv, read_done, Running, Reading
<1>t. /\ peer[c] \in Seq(Byte) /\ want[c] \in Nat /\ spare[c] \in {0} \cup Caps
      /\ ibuf[c] \in io_bufs /\ ibuf[c].data \in Seq(Byte) /\ obuf[c] \in io_bufs
      /\ pool \in [Caps -> Nat] /\ ibuf[c].cap \in {0} \cup Caps /\ Len(peer[c]) \in Nat
  <2>1. /\ peer[c] \in Seq(Byte) /\ want[c] \in Nat /\ spare[c] \in {0} \cup Caps
        /\ ibuf[c] \in io_bufs /\ ibuf[c].data \in Seq(Byte) /\ obuf[c] \in io_bufs
        /\ pool \in [Caps -> Nat]
    BY <1>a, TypesAt
  <2>2. ibuf[c].cap \in {0} \cup Caps
    BY <2>1, IoBufs
  <2> QED
    BY <2>1, <2>2
<1>g. got \in Seq(Byte) /\ Len(got) = want[c]
  <2>1. 1 \in 1..(Len(peer[c]) + 1) /\ want[c] \in 0..Len(peer[c])
    BY <1>a, <1>t
  <2>2. got \in Seq(Byte) /\ Len(got) = IF 1 <= want[c] THEN want[c] - 1 + 1 ELSE 0
    BY <1>t, <2>1, BytesOfSub
  <2> QED
    BY <1>t, <2>2
<1>l. left \in Seq(Byte)
  <2>1. want[c] + 1 \in 1..(Len(peer[c]) + 1) /\ Len(peer[c]) \in 0..Len(peer[c])
    BY <1>a, <1>t
  <2> QED
    BY <1>t, <2>1, BytesOfSub
<1>p. got \o left = peer[c]
  <2>1. /\ 1 \in 1..(Len(peer[c]) + 1) /\ want[c] \in (1 - 1)..Len(peer[c])
        /\ Len(peer[c]) \in want[c]..Len(peer[c])
    BY <1>a, <1>t
  <2>2. got \o left = SubSeq(peer[c], 1, Len(peer[c]))
    BY <1>t, <2>1, ConcatAdjacentSubSeq DEF got, left
  <2>3. SubSeq(peer[c], 1, Len(peer[c])) = peer[c]
    BY <1>t
  <2> HIDE DEF got, left
  <2> QED
    BY <2>2, <2>3
<1>b. b \in io_bufs /\ b.head = 0 /\ b.data = ibuf[c].data \o got /\ Fit(b)
  BY <1>a, <1>t, <1>g, FilledType
<1>e. Idle(Reverted(Displaced(c, ibuf[c]))) + b.cap = Idle(pool) + ibuf[c].cap + spare[c]
  BY <1>t, FilledBalance
<1>d. Displaced(c, ibuf[c]) \in Seq({0} \cup Caps)
  <2>1. << >> \in Seq({0} \cup Caps) /\ <<ibuf[c].cap>> \in Seq({0} \cup Caps)
    BY <1>t, EmptySeq
  <2> QED
    BY <2>1 DEF Displaced
<1> HIDE DEF got, b, left
<1>1. CASE clean_conn(c, Displaced(c, ibuf[c]) \o <<b.cap, obuf[c].cap>>)
  <2>1. <<b.cap, obuf[c].cap>> \in Seq({0} \cup Caps)
    BY <1>t, <1>b, PairOfCaps
  <2>2. Displaced(c, ibuf[c]) \o <<b.cap, obuf[c].cap>> \in Seq({0} \cup Caps)
    BY <1>d, <2>1, ConcatProperties
  <2>3. b.cap \in {0} \cup Caps /\ obuf[c].cap \in {0} \cup Caps /\ b.cap \in Nat
        /\ ibuf[c].cap \in Nat /\ spare[c] \in Nat /\ obuf[c].cap \in Nat /\ Idle(pool) \in Int
    BY <1>a, <1>b, <1>t, IoBufs, CapsAreNat, HoldsType
  <2> DEFINE s == Displaced(c, ibuf[c])  i == Idle(Reverted(s))
  <2>4. i \in Int /\ i + b.cap = Idle(pool) + ibuf[c].cap + spare[c]
    BY <1>d, <1>e, <1>t, RevertedType, IdleType
  <2>5. Idle(Reverted(s \o <<b.cap, obuf[c].cap>>)) = i + b.cap + obuf[c].cap
    BY <1>d, <1>t, <2>3, RevertTwo
  <2>6. Idle(pool) + ibuf[c].cap + spare[c] + obuf[c].cap = Idle(pool) + Holds(c)
    BY <2>3 DEF Holds
  <2>7. Idle(Reverted(s \o <<b.cap, obuf[c].cap>>)) = Idle(pool) + Holds(c)
    BY <2>4, <2>5, <2>6
  <2> QED
    BY <1>1, <2>2, <2>7, Closing DEF read_done, Running
<1>2. CASE
        /\ ibuf' = [ibuf EXCEPT ![c] = b]
        /\ peer' = [peer EXCEPT ![c] = left]
        /\ pool' = Reverted(Displaced(c, ibuf[c])) /\ spare' = [spare EXCEPT ![c] = 0]
        /\ pc' = [pc EXCEPT ![c] = "parse"] /\ want' = [want EXCEPT ![c] = 0]
        /\ UNCHANGED <<junk, fin, conn, epollout, wire, failed, obuf, total_mem, history>>
  <2> USE DEF history
  <2>1. pool' \in [Caps -> Nat]
    BY <1>t, <1>d, <1>2, RevertedType
  <2>2. pc'[c] = "parse" /\ ibuf'[c] = b /\ peer'[c] = left
    BY <1>a, <1>2 DEF Types
  <2>3. Types'
    BY <1>a, <1>b, <1>l, <1>2, <2>1 DEF Types
  <2>4. FailedHead'
    BY <1>2 DEF IInv, FailedHead
  <2>5. Others(c)
    BY <1>a, <1>2 DEF Types, Others, SameInput, SameOutput, SameCallback
  <2>6. b.data \o left = ibuf[c].data \o peer[c]
    <3>1. (ibuf[c].data \o got) \o left = ibuf[c].data \o (got \o left)
      BY <1>g, <1>l, <1>t, Associative
    <3> QED
      BY <1>b, <1>p, <3>1
  <2>7. Reading(c)'
    BY <1>a, <1>2, <2>2, <2>6 DEF Reading
  <2>8. Sending(c)'
    BY <1>a, <1>2, <2>2 DEF Sending
  <2>10. spare'[c] = 0
    BY <1>2, <1>a DEF Types
  <2>9. ConnInv(c)'
    BY <1>a, <1>b, <1>2, <2>2, <2>7, <2>8, <2>10 DEF ConnInv, CallsOK, Settled
  <2>11. Balanced(c)
    BY <1>2, <1>a, <1>e, <2>2, <2>3, <2>10, ExchangedInput
  <2> QED
    BY <2>3, <2>4, <2>5, <2>9, <2>11, OneConnection
<1>3. \/ (want[c] = 0 \/ fin[c]) /\ clean_conn(c, Displaced(c, ibuf[c]) \o <<b.cap, obuf[c].cap>>)
      \/ /\ want[c] > 0
        /\ ibuf' = [ibuf EXCEPT ![c] = b]
        /\ peer' = [peer EXCEPT ![c] = left]
        /\ pool' = Reverted(Displaced(c, ibuf[c])) /\ spare' = [spare EXCEPT ![c] = 0]
        /\ pc' = [pc EXCEPT ![c] = "parse"] /\ want' = [want EXCEPT ![c] = 0]
        /\ UNCHANGED <<junk, fin, conn, epollout, wire, failed, obuf, total_mem, history>>
  BY DEF read_done, got, b, left
<1> QED
  BY <1>1, <1>2, <1>3

(* do_read leaves its loop: ibuf is adjusted, and holds no whole message.   *)
LEMMA parse_stopStep ==
  ASSUME NEW c \in Conns, IInv, parse_stop(c)
  PROVE  IInv'
<1> USE DEF history
<1>a. /\ Types /\ ConnInv(c) /\ Reading(c) /\ Sending(c) /\ Settled(c) /\ conn[c] = "open" /\ pc[c] = "parse"
      /\ ibuf[c] \in io_bufs
  BY TypesAt DEF IInv, ConnInv, parse_stop, Running
<1>b. /\ adjust(ibuf[c]) \in io_bufs /\ adjust(ibuf[c]).head = 0 /\ adjust(ibuf[c]).cap = ibuf[c].cap
      /\ adjust(ibuf[c]).data = ibuf[c].data /\ Fit(adjust(ibuf[c]))
  BY <1>a, AdjustType DEF ConnInv
<1>1. /\ Headed(ibuf[c]) => msglen(ibuf[c]) <= LEN_LIMIT /\ ~Whole(ibuf[c])
      /\ ibuf' = [ibuf EXCEPT ![c] = adjust(ibuf[c])] /\ pc' = [pc EXCEPT ![c] = "loop"]
      /\ UNCHANGED <<junk, peer, fin, conn, want, epollout, wire, failed, obuf, pool, total_mem, spare, history>>
  BY <1>a DEF parse_stop, Types
<1>2. pc'[c] = "loop" /\ ibuf'[c] = adjust(ibuf[c])
  BY <1>a, <1>1 DEF Types
<1>3. Types'
  BY <1>a, <1>b, <1>1 DEF Types
<1>4. FailedHead'
  BY <1>1 DEF IInv, FailedHead
<1>5. Others(c)
  BY <1>a, <1>1 DEF Types, Others, SameInput, SameOutput, SameCallback
<1>6. Reading(c)'
  BY <1>a, <1>b, <1>1, <1>2 DEF Reading, Headed, Whole, msglen
<1>7. Sending(c)'
  BY <1>a, <1>1, <1>2 DEF Sending
<1>8. ConnInv(c)'
  BY <1>a, <1>b, <1>1, <1>2, <1>6, <1>7 DEF ConnInv, CallsOK, Settled
<1>9. Balanced(c)
  BY <1>1, <1>2, <1>a, <1>b, Unmoved
<1> QED
  BY <1>3, <1>4, <1>5, <1>8, <1>9, OneConnection

(* A header with a bad length closes the connection.                        *)
LEMMA parse_too_longStep ==
  ASSUME NEW c \in Conns, IInv, parse_too_long(c)
  PROVE  IInv'
<1>1. spare[c] = 0 /\ failed = "no" /\ clean_conn(c, <<ibuf[c].cap, obuf[c].cap>>)
  BY DEF IInv, ConnInv, Settled, parse_too_long, Running
<1> QED
  BY <1>1, ClosingSettled
-----------------------------------------------------------------------------
(* Dropping bytes of the buffer drops them of the buffer and what follows.  *)
LEMMA RestOf ==
  ASSUME NEW s \in Seq(Byte), NEW t \in Seq(Byte), NEW m \in 0..Len(s), NEW r \in Seq(Byte),
         Len(r) = Len(s) - m, \A i \in 1..(Len(s) - m) : r[i] = s[m + i]
  PROVE  r \o t = SubSeq(s \o t, m + 1, Len(s \o t))
<1> DEFINE all == s \o t  N == Len(s)  L == Len(t)  x == r \o t
           y == SubSeq(all, m + 1, Len(all))
<1>1. N \in Nat /\ L \in Nat /\ m \in Nat /\ m <= N
  OBVIOUS
<1>2. /\ all \in Seq(Byte) /\ Len(all) = N + L
      /\ \A i \in 1..(N + L) : all[i] = IF i <= N THEN s[i] ELSE t[i - N]
  BY ConcatProperties
<1>3. /\ x \in Seq(Byte) /\ Len(x) = N - m + L
      /\ \A i \in 1..(N - m + L) : x[i] = IF i <= N - m THEN r[i] ELSE t[i - (N - m)]
  <2>1. /\ x \in Seq(Byte) /\ Len(x) = Len(r) + L
        /\ \A i \in 1..(Len(r) + L) : x[i] = IF i <= Len(r) THEN r[i] ELSE t[i - Len(r)]
    BY ConcatProperties
  <2>2. Len(r) = N - m
    OBVIOUS
  <2> HIDE DEF x, N, L
  <2> QED
    BY <2>1, <2>2
<1> HIDE DEF all, x
<1>4. /\ y \in Seq(Byte) /\ Len(y) = N + L - m
      /\ \A i \in 1..(N + L - m) : y[i] = all[m + i]
  <2> HIDE DEF N, L
  <2>1. m + 1 \in 1..(Len(all) + 1) /\ Len(all) \in 0..Len(all)
    BY <1>1, <1>2
  <2>2. /\ y \in Seq(Byte)
        /\ Len(y) = IF m + 1 <= Len(all) THEN Len(all) - (m + 1) + 1 ELSE 0
        /\ \A i \in 1..(Len(all) - (m + 1) + 1) : y[i] = all[m + 1 + i - 1]
    BY <1>2, <2>1, BytesOfSub
  <2> HIDE DEF y
  <2>3. Len(y) = N + L - m
    BY <1>1, <1>2, <2>2
  <2>4. ASSUME NEW i \in 1..(N + L - m) PROVE y[i] = all[m + i]
    <3>1. i \in 1..(Len(all) - (m + 1) + 1) /\ m + 1 + i - 1 = m + i
      BY <1>1, <1>2
    <3> QED
      BY <2>2, <3>1
  <2> QED
    BY <2>2, <2>3, <2>4
<1> HIDE DEF y
<1>5. ASSUME NEW i \in 1..(N - m + L) PROVE x[i] = y[i]
  <2> HIDE DEF N, L
  <2>1. i \in 1..(N + L - m) /\ m + i \in 1..(N + L)
    BY <1>1
  <2>2. CASE i <= N - m
    <3>1. m + i <= N /\ i \in 1..(N - m)
      BY <1>1, <2>2
    <3>2. x[i] = r[i] /\ y[i] = s[m + i]
      BY <1>2, <1>3, <1>4, <2>1, <2>2, <3>1
    <3> QED
      BY <3>1, <3>2 DEF N
  <2>3. CASE ~(i <= N - m)
    <3> DEFINE j == m + i
    <3>1. j \in 1..(N + L) /\ ~(j <= N) /\ j - N = i - (N - m)
      BY <1>1, <2>3
    <3>2. y[i] = all[j]
      BY <1>4, <2>1
    <3> HIDE DEF j
    <3>3. all[j] = t[j - N]
      BY <1>2, <3>1
    <3>4. x[i] = t[i - (N - m)]
      BY <1>3, <2>3
    <3> QED
      BY <3>1, <3>2, <3>3, <3>4
  <2> QED
    BY <2>2, <2>3
<1>6. Len(x) = Len(y) /\ Len(x) = N - m + L
  BY <1>1, <1>3, <1>4
<1> QED
  BY <1>3, <1>4, <1>5, <1>6, SeqEqual DEF x, y, all

(* One message: its body is the next one the peer sent.                     *)
LEMMA parse_messageStep ==
  ASSUME NEW c \in Conns, IInv, parse_message(c)
  PROVE  IInv'
<1> DEFINE d == ibuf[c].data  D == Len(d)  R == d \o peer[c]  n == Len(calls[c])
           len == told[c][n + 1]  b == pop(ibuf[c], HEAD_LEN)  body == SubSeq(b.data, 1, len)
           r == pop(b, len)
<1>a. /\ Types /\ ConnInv(c) /\ Reading(c) /\ Sending(c) /\ Settled(c) /\ CallsOK(c) /\ Fit(ibuf[c])
      /\ conn[c] = "open" /\ pc[c] = "parse" /\ Framed(R, n, told[c])
      /\ D >= HEAD_LEN /\ Whole(ibuf[c]) /\ spare[c] = 0
  BY DEF IInv, ConnInv, parse_message, Running, Reading, Headed, Settled
<1>t. /\ peer[c] \in Seq(Byte) /\ ibuf[c] \in io_bufs /\ d \in Seq(Byte)
      /\ told[c] \in Seq(Nat) /\ calls[c] \in Seq(Seq(Byte)) /\ pool \in [Caps -> Nat]
  BY <1>a, TypesAt
<1>s. D \in Nat /\ n \in Nat /\ HEAD_LEN \in Nat \ {0} /\ Len(told[c]) \in Nat
  BY <1>t, SizesAssumption
<1>1. /\ R \in Seq(Byte) /\ Len(R) = D + Len(peer[c]) /\ Len(peer[c]) \in Nat
      /\ \A i \in 1..D : R[i] = d[i]
  <2>1. /\ R \in Seq(Byte) /\ Len(R) = D + Len(peer[c])
        /\ \A i \in 1..(D + Len(peer[c])) : R[i] = IF i <= D THEN d[i] ELSE peer[c][i - D]
    BY <1>t, ConcatProperties
  <2>2. Len(peer[c]) \in Nat
    BY <1>t
  <2> HIDE DEF R, d, D
  <2>3. ASSUME NEW i \in 1..D PROVE R[i] = d[i]
    <3>1. i \in 1..(D + Len(peer[c])) /\ i <= D
      BY <1>s, <2>2
    <3> QED
      BY <2>1, <3>1
  <2> QED
    BY <2>1, <2>2, <2>3
<1> HIDE DEF D, R
<1>2. Len(R) # 0
  BY <1>1, <1>a, <1>s
<1>3. /\ n + 1 \in 1..Len(told[c]) /\ len \in Nat
      /\ \A i \in 1..(HEAD_LEN + len) : R[i] = <<n + 1, i, len>>
      /\ Framed(SubSeq(R, HEAD_LEN + len + 1, Len(R)), n + 1, told[c])
  BY <1>1, <1>2, <1>a, <1>t, FramedPop
<1> HIDE DEF n, len
<1>4. msglen(ibuf[c]) = len
  <2>1. 1 \in 1..D /\ 1 \in 1..(HEAD_LEN + len)
    BY <1>3, <1>a, <1>s
  <2>2. d[1] = <<n + 1, 1, len>>
    BY <1>1, <1>3, <2>1
  <2> QED
    BY <2>2 DEF msglen
<1>5. D >= HEAD_LEN + len
  BY <1>4, <1>a DEF Whole, D
<1>6. /\ b \in io_bufs /\ Fit(b) /\ b.cap = ibuf[c].cap /\ b.data \in Seq(Byte) /\ Len(b.data) = D - HEAD_LEN
      /\ \A i \in 1..(D - HEAD_LEN) : b.data[i] = d[HEAD_LEN + i]
  <2>1. HEAD_LEN \in Nat /\ HEAD_LEN <= Len(ibuf[c].data)
    BY <1>a, <1>s DEF D
  <2>2. /\ b \in io_bufs /\ b.cap = ibuf[c].cap /\ Len(b.data) = Len(ibuf[c].data) - HEAD_LEN
        /\ Fit(ibuf[c]) => Fit(b)
        /\ \A i \in 1..(Len(ibuf[c].data) - HEAD_LEN) : b.data[i] = ibuf[c].data[HEAD_LEN + i]
    BY <1>t, <2>1, PopType
  <2> HIDE DEF b
  <2>3. b.data \in Seq(Byte)
    BY <2>2, IoBufs
  <2> QED
    BY <1>a, <2>2, <2>3 DEF D
<1> HIDE DEF b
<1>7. /\ r \in io_bufs /\ Fit(r) /\ r.cap = ibuf[c].cap /\ r.data \in Seq(Byte) /\ Len(r.data) = D - (HEAD_LEN + len)
      /\ \A i \in 1..(D - (HEAD_LEN + len)) : r.data[i] = d[HEAD_LEN + len + i]
  <2>1. len <= Len(b.data)
    BY <1>3, <1>5, <1>6, <1>s
  <2>2. /\ r \in io_bufs /\ r.cap = b.cap /\ Len(r.data) = Len(b.data) - len /\ Fit(r)
        /\ \A i \in 1..(Len(b.data) - len) : r.data[i] = b.data[len + i]
    BY <1>3, <1>6, <2>1, PopType
  <2> HIDE DEF r
  <2>3. r.data \in Seq(Byte)
    BY <2>2, IoBufs
  <2>4. D - HEAD_LEN - len = D - (HEAD_LEN + len)
    BY <1>3, <1>s
  <2>5. ASSUME NEW i \in 1..(D - (HEAD_LEN + len)) PROVE r.data[i] = d[HEAD_LEN + len + i]
    <3> HIDE DEF d
    <3>1. i \in 1..(D - HEAD_LEN - len)
      BY <2>4
    <3>2. len + i \in 1..(D - HEAD_LEN) /\ HEAD_LEN + (len + i) = HEAD_LEN + len + i
      BY <1>3, <1>s, <1>5
    <3>3. r.data[i] = b.data[len + i]
      BY <1>6, <2>2, <3>1
    <3> QED
      BY <1>6, <3>2, <3>3
  <2> QED
    BY <1>6, <2>2, <2>3, <2>4, <2>5
<1> HIDE DEF r
<1>8. body = Body(n + 1, len)
  <2>1. n + 1 \in Nat
    BY <1>s
  <2>2. /\ Body(n + 1, len) \in Seq(Byte) /\ Len(Body(n + 1, len)) = len
        /\ \A i \in 1..len : Body(n + 1, len)[i] = <<n + 1, HEAD_LEN + i, len>>
    BY <1>3, <2>1, MessageType
  <2>3. 1 \in 1..(Len(b.data) + 1) /\ len \in 0..Len(b.data)
    BY <1>3, <1>5, <1>6, <1>s
  <2>4. /\ body \in Seq(Byte) /\ Len(body) = IF 1 <= len THEN len - 1 + 1 ELSE 0
        /\ \A i \in 1..(len - 1 + 1) : body[i] = b.data[1 + i - 1]
    BY <1>6, <2>3, BytesOfSub
  <2> HIDE DEF body
  <2>5. Len(body) = len
    BY <1>3, <2>4
  <2>6. ASSUME NEW i \in 1..len PROVE body[i] = Body(n + 1, len)[i]
    <3> HIDE DEF d
    <3>1. /\ i \in 1..(len - 1 + 1) /\ 1 + i - 1 = i /\ i \in 1..(D - HEAD_LEN)
          /\ HEAD_LEN + i \in 1..D /\ HEAD_LEN + i \in 1..(HEAD_LEN + len)
      BY <1>3, <1>5, <1>s
    <3>2. body[i] = b.data[i]
      BY <2>4, <3>1
    <3>3. b.data[i] = d[HEAD_LEN + i] /\ d[HEAD_LEN + i] = R[HEAD_LEN + i]
      BY <1>1, <1>6, <3>1
    <3>4. R[HEAD_LEN + i] = <<n + 1, HEAD_LEN + i, len>>
      BY <1>3, <3>1
    <3> QED
      BY <2>2, <3>2, <3>3, <3>4
  <2> QED
    BY <2>2, <2>4, <2>5, <2>6, SeqEqual
<1> HIDE DEF body
<1>9. /\ Popped(r) \in io_bufs /\ Popped(r).data = r.data /\ Fit(Popped(r))
      /\ Emptied(r) \in Seq({0} \cup Caps)
  <2>1. r.cap \in {0} \cup Caps
    BY <1>7, IoBufs
  <2>2. << >> \in Seq({0} \cup Caps) /\ <<r.cap>> \in Seq({0} \cup Caps)
    BY <2>1, EmptySeq
  <2> QED
    BY <1>7, <2>2, PoppedType DEF Emptied
<1>10. r.data \o peer[c] = SubSeq(R, HEAD_LEN + len + 1, Len(R))
  <2> DEFINE m == HEAD_LEN + len
  <2>1. m \in 0..D
    BY <1>3, <1>5, <1>s
  <2> HIDE DEF m
  <2>2. Len(r.data) = Len(d) - m /\ \A i \in 1..(Len(d) - m) : r.data[i] = d[m + i]
    BY <1>7 DEF m, D
  <2>3. m \in 0..Len(d)
    BY <2>1 DEF D
  <2>4. r.data \o peer[c] = SubSeq(d \o peer[c], m + 1, Len(d \o peer[c]))
    <3>1. r.data \in Seq(Byte) /\ d \in Seq(Byte) /\ peer[c] \in Seq(Byte)
      BY <1>7, <1>t
    <3> HIDE DEF d
    <3> QED
      BY <2>2, <2>3, <3>1, RestOf
  <2> QED
    BY <2>4 DEF m, R
<1>11. CASE Fail("pop")
  BY <1>11, Failure
<1>12. CASE
         /\ calls' = [calls EXCEPT ![c] = Append(calls[c], body)]
         /\ ibuf' = [ibuf EXCEPT ![c] = Popped(r)]
         /\ pool' = Reverted(Emptied(r))
         /\ UNCHANGED <<junk, peer, fin, conn, pc, want, epollout, wire, failed,
                        obuf, total_mem, spare, told, accepted, refused>>
  <2> DEFINE called == Append(calls[c], body)
  <2>1. pool' \in [Caps -> Nat]
    BY <1>9, <1>12, <1>t, RevertedType
  <2>2. body \in Seq(Byte)
    <3>1. n + 1 \in Nat
      BY <1>s
    <3> QED
      BY <1>3, <1>8, <3>1, MessageType
  <2>3. /\ called \in Seq(Seq(Byte)) /\ Len(called) = n + 1 /\ called[n + 1] = body
        /\ \A i \in 1..n : called[i] = calls[c][i]
    BY <1>t, <2>2, AppendProperties DEF n
  <2> HIDE DEF called
  <2>4. calls'[c] = called /\ ibuf'[c] = Popped(r)
    BY <1>12, <1>a DEF Types, called
  <2>5. Types'
    <3>1. calls' \in [Conns -> Seq(Seq(Byte))] /\ ibuf' \in [Conns -> io_bufs]
      BY <1>9, <1>12, <1>a, <2>3 DEF Types, called
    <3> QED
      BY <1>12, <1>a, <2>1, <3>1 DEF Types
  <2>6. FailedHead'
    BY <1>12 DEF IInv, FailedHead
  <2>7. Others(c)
    BY <1>12, <1>a DEF Types, Others, SameInput, SameOutput, SameCallback
  <2>8. Reading(c)'
    <3>1. Framed(ibuf'[c].data \o peer'[c], Len(calls'[c]), told'[c])
      BY <1>3, <1>9, <1>10, <1>12, <2>3, <2>4
    <3> QED
      BY <1>12, <1>a, <3>1 DEF Reading
  <2>9. Sending(c)'
    BY <1>12, <1>a DEF Sending
  <2>10. CallsOK(c)'
    <3>1. Len(calls'[c]) <= Len(told'[c])
      BY <1>3, <1>12, <1>s, <2>3, <2>4
    <3>2. ASSUME NEW k \in 1..Len(calls'[c]) PROVE calls'[c][k] = Body(k, told'[c][k])
      <4>1. k \in 1..(n + 1) /\ told' = told
        BY <1>12, <2>3, <2>4
      <4>2. CASE k = n + 1
        BY <1>8, <2>3, <2>4, <4>1, <4>2 DEF len
      <4>3. CASE k # n + 1
        <5>1. k \in 1..n
          BY <1>s, <4>1, <4>3
        <5>2. calls[c][k] = Body(k, told[c][k])
          BY <1>a, <5>1 DEF CallsOK, n
        <5> QED
          BY <2>3, <2>4, <4>1, <5>1, <5>2
      <4> QED
        BY <4>2, <4>3
    <3> QED
      BY <3>1, <3>2 DEF CallsOK
  <2>11. ConnInv(c)'
    <3>1. Fit(ibuf[c])' /\ Fit(obuf[c])' /\ Settled(c)'
      BY <1>9, <1>12, <1>a, <2>4 DEF ConnInv, Settled
    <3> QED
      BY <2>8, <2>9, <2>10, <3>1 DEF ConnInv
  <2>12. Balanced(c)
    <3> DEFINE none == << >>
    <3>1. none \in Seq({0} \cup Caps) /\ none \o Emptied(r) = Emptied(r)
      BY <1>9, EmptySeq
    <3>2. Reverted(none) = pool
      BY <1>t, RevertNone
    <3> HIDE DEF none
    <3>3. Idle(pool') + ibuf'[c].cap = Idle(pool) + ibuf[c].cap
      BY <1>7, <1>12, <1>t, <2>4, <3>1, <3>2, PoppedBalance
    <3>4. Idle(pool) + ibuf[c].cap = Idle(pool) + ibuf[c].cap + spare[c]
      BY <1>a, <2>5, Numbers
    <3> QED
      BY <1>12, <1>a, <2>5, <3>3, <3>4, ExchangedInput
  <2> QED
    BY <2>5, <2>6, <2>7, <2>11, <2>12, OneConnection
<1>13. \/ Fail("pop")
       \/ /\ calls' = [calls EXCEPT ![c] = Append(calls[c], body)]
          /\ ibuf' = [ibuf EXCEPT ![c] = Popped(r)]
          /\ pool' = Reverted(Emptied(r))
          /\ UNCHANGED <<junk, peer, fin, conn, pc, want, epollout, wire, failed,
                         obuf, total_mem, spare, told, accepted, refused>>
  BY <1>4 DEF parse_message, b, body, r
<1> QED
  BY <1>11, <1>12, <1>13
-----------------------------------------------------------------------------
(* send_message up to the io_buf of the header.                             *)
LEMMA send_messageStep ==
  ASSUME NEW c \in Conns, NEW len \in BodyLens, IInv, send_message(c, len)
  PROVE  IInv'
<1>a. /\ Types /\ ConnInv(c) /\ Reading(c) /\ Sending(c) /\ conn[c] = "open" /\ pc[c] = "loop"
      /\ spare[c] = 0
  BY DEF IInv, ConnInv, Settled, send_message, Running
<1>t. obuf[c] \in io_bufs /\ HEAD_LEN \in Nat /\ len \in Nat
  BY <1>a, TypesAt, SizesAssumption
<1>1. CASE obuf[c].head # 0 /\ Fail("head")
  <2>1. c \in refused /\ obuf[c].head # 0
    BY <1>1, <1>a DEF Sending
  <2> QED
    BY <1>1, <2>1, Failure
<1>2. CASE AllocFailure(obuf[c], HEAD_LEN, pool) # "no" /\ Fail(AllocFailure(obuf[c], HEAD_LEN, pool))
  BY <1>2, AllocFails, Failure
<1>3. CASE /\ obuf[c].head = 0 /\ ~TooLarge(obuf[c], HEAD_LEN)
           /\ Reserve(c, obuf[c], HEAD_LEN, pool)
           /\ want' = [want EXCEPT ![c] = len] /\ pc' = [pc EXCEPT ![c] = "head"]
           /\ UNCHANGED <<junk, peer, fin, conn, ibuf, obuf, epollout, wire, failed, history>>
  <2> USE DEF history
  <2>1. /\ spare' \in [Conns -> {0} \cup Caps] /\ pool' \in [Caps -> Nat] /\ total_mem' \in Nat
        /\ Reserved(obuf[c], spare'[c], HEAD_LEN)
        /\ \A d \in Conns : d # c => spare'[d] = spare[d]
        /\ total_mem' + Idle(pool) = total_mem + Idle(pool') + spare'[c]
    <3>1. spare \in [Conns -> {0} \cup Caps] /\ pool \in [Caps -> Nat] /\ total_mem \in Nat
      BY <1>a DEF Types
    <3> QED
      BY <1>t, <1>3, <3>1, ReserveStep
  <2>2. pc'[c] = "head" /\ want'[c] = len
    BY <1>a, <1>3 DEF Types
  <2>3. Types'
    BY <1>a, <1>t, <1>3, <2>1 DEF Types
  <2>4. FailedHead'
    BY <1>3 DEF IInv, FailedHead
  <2>5. Others(c)
    BY <1>a, <1>3, <2>1 DEF Types, Others, SameInput, SameOutput, SameCallback
  <2>6. Reading(c)'
    BY <1>a, <1>3, <2>2 DEF Reading
  <2>7. Sending(c)'
    BY <1>a, <1>3, <2>1, <2>2 DEF Sending
  <2>8. ConnInv(c)'
    BY <1>a, <1>3, <2>2, <2>6, <2>7 DEF ConnInv, CallsOK, Settled
  <2>9. Balanced(c)
    BY <1>3, <1>a, <2>1, <2>3, Allocated
  <2> QED
    BY <2>3, <2>4, <2>5, <2>8, <2>9, OneConnection
<1> QED
  BY <1>1, <1>2, <1>3 DEF send_message

(* What goes back to the pool are capacities.                               *)
LEMMA DisplacedType ==
  ASSUME NEW c \in Conns, NEW b \in io_bufs
  PROVE  Displaced(c, b) \in Seq({0} \cup Caps) /\ Emptied(b) \in Seq({0} \cup Caps)
         /\ Displaced(c, b) \o Emptied(b) \in Seq({0} \cup Caps)
<1>1. b.cap \in {0} \cup Caps
  BY IoBufs
<1>2. << >> \in Seq({0} \cup Caps) /\ <<b.cap>> \in Seq({0} \cup Caps)
  BY <1>1, EmptySeq
<1>3. Displaced(c, b) \in Seq({0} \cup Caps) /\ Emptied(b) \in Seq({0} \cup Caps)
  BY <1>2 DEF Displaced, Emptied
<1> QED
  BY <1>3, ConcatProperties

(* The header is in obuf; the body gets its io_buf, or is refused.          *)
LEMMA send_headStep ==
  ASSUME NEW c \in Conns, IInv, send_head(c)
  PROVE  IInv'
<1> DEFINE k == accepted[c].no + 1  d == obuf[c].data  hd == Header(k, want[c])
           b == Filled(c, obuf[c], hd)  free == Reverted(Displaced(c, obuf[c]))
           rest == pop(b, HEAD_LEN)
<1>a. /\ Types /\ ConnInv(c) /\ Reading(c) /\ Sending(c) /\ conn[c] = "open" /\ pc[c] = "head"
      /\ obuf[c].head = 0 /\ Reserved(obuf[c], spare[c], HEAD_LEN)
  BY DEF IInv, ConnInv, send_head, Running, Sending
<1>t. /\ want[c] \in Nat /\ spare[c] \in {0} \cup Caps /\ k \in Nat
      /\ obuf[c] \in io_bufs /\ d \in Seq(Byte) /\ pool \in [Caps -> Nat]
      /\ wire[c] \in Seq(Byte) /\ accepted[c].bytes \in Seq(Byte)
  <2>1. /\ want[c] \in Nat /\ spare[c] \in {0} \cup Caps /\ accepted[c].no \in Nat
        /\ obuf[c] \in io_bufs /\ d \in Seq(Byte) /\ pool \in [Caps -> Nat]
        /\ wire[c] \in Seq(Byte) /\ accepted[c].bytes \in Seq(Byte)
    BY <1>a, TypesAt
  <2> HIDE DEF d
  <2> QED
    BY <2>1
<1>s. HEAD_LEN \in Nat \ {0} /\ Len(d) \in Nat
  BY <1>t, SizesAssumption
<1>h. hd \in Seq(Byte) /\ Len(hd) = HEAD_LEN
  BY <1>t, HeaderAndBody
<1> HIDE DEF k, hd
<1>b. b \in io_bufs /\ b.head = 0 /\ b.data = d \o hd /\ Len(b.data) = Len(d) + HEAD_LEN /\ Fit(b)
      /\ b.data \in Seq(Byte)
  <2>1. b \in io_bufs /\ b.head = 0 /\ b.data = d \o hd /\ Len(b.data) = Len(d) + HEAD_LEN /\ Fit(b)
    BY <1>a, <1>t, <1>h, FilledType
  <2> QED
    BY <2>1, IoBufs
<1>c. Displaced(c, obuf[c]) \in Seq({0} \cup Caps) /\ free \in [Caps -> Nat]
  BY <1>t, DisplacedType, RevertedType
<1>e. Idle(free) + b.cap = Idle(pool) + obuf[c].cap + spare[c]
  BY <1>t, FilledBalance
<1> HIDE DEF b, free
<1>1. CASE AllocFailure(b, want[c], free) # "no" /\ Fail(AllocFailure(b, want[c], free))
  BY <1>1, AllocFails, Failure
<1>2. CASE
        /\ obuf' = [obuf EXCEPT ![c] = Popped(rest)]
        /\ pool' = Reverted(Displaced(c, obuf[c]) \o Emptied(rest))
        /\ spare' = [spare EXCEPT ![c] = 0] /\ want' = [want EXCEPT ![c] = 0]
        /\ pc' = [pc EXCEPT ![c] = "loop"]
        /\ refused' = IF rest.data = << >> THEN refused ELSE refused \cup {c}
        /\ UNCHANGED <<junk, peer, fin, conn, epollout, wire, failed, ibuf, total_mem,
                       told, calls, accepted>>
  <2>1. /\ rest \in io_bufs /\ Fit(rest) /\ Len(rest.data) = Len(d) /\ rest.data \in Seq(Byte)
        /\ rest.cap = b.cap
    <3>1. HEAD_LEN <= Len(b.data) /\ Len(b.data) - HEAD_LEN = Len(d)
      <4> HIDE DEF d, rest
      <4> QED
        BY <1>b, <1>s
    <3>2. /\ rest \in io_bufs /\ Fit(rest) /\ Len(rest.data) = Len(b.data) - HEAD_LEN
          /\ rest.cap = b.cap
      BY <1>b, <1>s, <3>1, PopType
    <3> HIDE DEF rest
    <3>3. rest.data \in Seq(Byte)
      BY <3>2, IoBufs
    <3> QED
      BY <3>1, <3>2, <3>3
  <2> HIDE DEF rest
  <2>2. /\ Popped(rest) \in io_bufs /\ Popped(rest).data = rest.data /\ Fit(Popped(rest))
        /\ rest.data = << >> => Popped(rest).head = 0
    BY <2>1, PoppedType
  <2>3. pool' \in [Caps -> Nat]
    <3>1. Displaced(c, obuf[c]) \o Emptied(rest) \in Seq({0} \cup Caps)
      BY <1>c, <2>1, DisplacedType, ConcatProperties
    <3> QED
      BY <1>2, <1>t, <3>1, RevertedType
  <2>4. obuf'[c] = Popped(rest) /\ pc'[c] = "loop"
    BY <1>2, <1>a DEF Types
  <2>5. refused' \in SUBSET Conns
    BY <1>2, <1>a DEF Types
  <2>6. Types'
    BY <1>2, <1>a, <2>2, <2>3, <2>5 DEF Types
  <2>7. FailedHead'
    BY <1>2 DEF FailedHead, send_head, Running
  <2>8. Others(c)
    <3>1. \A e \in Conns : e # c => (e \in refused' <=> e \in refused)
      BY <1>2
    <3> QED
      BY <1>2, <1>a, <3>1 DEF Types, Others, SameInput, SameOutput, SameCallback
  <2>9. Reading(c)'
    BY <1>2, <1>a, <2>4 DEF Reading
  <2>10. rest.data = << >> <=> d = << >>
    BY <1>t, <2>1
  <2>11. Sending(c)'
    <3>1. rest.data # << >> => epollout[c]
      BY <1>a, <2>10 DEF Sending
    <3>2. c \notin refused' => rest.data = << >> /\ c \notin refused
      BY <1>2
    <3>3. c \notin refused' => wire[c] \o d = accepted[c].bytes /\ d = rest.data
      BY <1>a, <2>10, <3>2 DEF Sending
    <3>4. UNCHANGED <<epollout, wire, accepted>>
      BY <1>2
    <3> HIDE DEF d
    <3> QED
      BY <2>2, <2>4, <3>1, <3>2, <3>3, <3>4 DEF Sending
  <2>12. spare'[c] = 0
    BY <1>2, <1>a DEF Types
  <2>13. ConnInv(c)'
    BY <1>2, <1>a, <2>2, <2>4, <2>9, <2>11, <2>12 DEF ConnInv, CallsOK, Settled
  <2>14. Balanced(c)
    <3>1. Idle(pool') + obuf'[c].cap = Idle(free) + rest.cap
      BY <1>2, <1>c, <1>t, <2>1, <2>4, PoppedBalance DEF free
    <3> QED
      BY <1>2, <1>a, <1>e, <2>1, <2>6, <2>12, <3>1, ExchangedOutput
  <2> QED
    BY <2>6, <2>7, <2>8, <2>13, <2>14, OneConnection
<1>3. CASE
        /\ ~TooLarge(b, want[c])
        /\ obuf' = [obuf EXCEPT ![c] = b]
        /\ Reserve(c, b, want[c], free)
        /\ pc' = [pc EXCEPT ![c] = "body"]
        /\ UNCHANGED <<junk, peer, fin, conn, want, epollout, wire, failed, ibuf, history>>
  <2> USE DEF history
  <2>1. /\ spare' \in [Conns -> {0} \cup Caps] /\ pool' \in [Caps -> Nat] /\ total_mem' \in Nat
        /\ Reserved(b, spare'[c], want[c])
        /\ \A e \in Conns : e # c => spare'[e] = spare[e]
        /\ total_mem' + Idle(free) = total_mem + Idle(pool') + spare'[c]
    <3>1. spare \in [Conns -> {0} \cup Caps] /\ total_mem \in Nat
      BY <1>a DEF Types
    <3> QED
      BY <1>b, <1>c, <1>t, <1>3, <3>1, ReserveStep
  <2>2. obuf'[c] = b /\ pc'[c] = "body"
    BY <1>3, <1>a DEF Types
  <2>3. Types'
    BY <1>3, <1>a, <1>b, <2>1 DEF Types
  <2>4. FailedHead'
    BY <1>3 DEF FailedHead, send_head, Running
  <2>5. Others(c)
    BY <1>3, <1>a, <2>1 DEF Types, Others, SameInput, SameOutput, SameCallback
  <2>6. Reading(c)'
    BY <1>3, <1>a, <2>2 DEF Reading
  <2>7. Sending(c)'
    <3>1. Len(b.data) >= HEAD_LEN
      BY <1>b, <1>s
    <3>2. Len(b.data) > HEAD_LEN => epollout[c]
      <4>1. Len(b.data) > HEAD_LEN => Len(d) # 0
        BY <1>b, <1>s
      <4>2. Len(d) # 0 => d # << >>
        BY <1>t
      <4>3. d # << >> => epollout[c]
        BY <1>a DEF Sending
      <4> QED
        BY <4>1, <4>2, <4>3
    <3>3. c \notin refused => wire[c] \o b.data = accepted[c].bytes \o hd
      <4>1. c \notin refused => wire[c] \o d = accepted[c].bytes
        BY <1>a DEF Sending
      <4>2. (wire[c] \o d) \o hd = wire[c] \o (d \o hd)
        BY <1>t, <1>h, Associative
      <4> HIDE DEF d
      <4> QED
        BY <1>b, <4>1, <4>2
    <3>4. hd = Header(accepted[c].no + 1, want[c])
      BY DEF hd, k
    <3> QED
      BY <1>3, <1>b, <2>1, <2>2, <3>1, <3>2, <3>3, <3>4 DEF Sending
  <2>8. ConnInv(c)'
    BY <1>3, <1>a, <1>b, <2>2, <2>6, <2>7 DEF ConnInv, CallsOK, Settled
  <2>9. Balanced(c)
    <3> DEFINE h == ibuf[c].cap  k0 == obuf[c].cap  g == b.cap  s == spare[c]  s1 == spare'[c]
               i == Idle(pool)  f == Idle(free)  j == Idle(pool')  u == total_mem'
    <3>1. /\ h \in Int /\ k0 \in Int /\ g \in Int /\ s \in Int /\ s1 \in Int
          /\ i \in Int /\ j \in Int /\ u \in Int /\ total_mem \in Int
      <4>1. obuf'[c].cap \in Int
        BY <1>a, <2>3, Numbers
      <4> QED
        BY <1>a, <2>2, <2>3, <4>1, Numbers
    <3>2. f \in Int
      BY <1>c, IdleType
    <3>3. f + g = i + k0 + s /\ u + f = total_mem + j + s1
      BY <1>e, <2>1
    <3> HIDE DEF h, k0, g, s, s1, i, f, j, u
    <3>4. u + i + (h + k0 + s) = total_mem + j + (h + g + s1)
      BY <3>1, <3>2, <3>3
    <3>5. Holds(c) = h + k0 + s /\ Holds(c)' = h + g + s1
      BY <1>3, <2>2 DEF Holds, h, k0, g, s, s1
    <3> QED
      BY <3>4, <3>5 DEF Balanced, i, j, u
  <2> QED
    BY <2>3, <2>4, <2>5, <2>8, <2>9, OneConnection
<1>4. \/ AllocFailure(b, want[c], free) # "no" /\ Fail(AllocFailure(b, want[c], free))
      \/ /\ obuf' = [obuf EXCEPT ![c] = Popped(rest)]
         /\ pool' = Reverted(Displaced(c, obuf[c]) \o Emptied(rest))
         /\ spare' = [spare EXCEPT ![c] = 0] /\ want' = [want EXCEPT ![c] = 0]
         /\ pc' = [pc EXCEPT ![c] = "loop"]
         /\ refused' = IF rest.data = << >> THEN refused ELSE refused \cup {c}
         /\ UNCHANGED <<junk, peer, fin, conn, epollout, wire, failed, ibuf, total_mem,
                        told, calls, accepted>>
      \/ /\ ~TooLarge(b, want[c])
         /\ obuf' = [obuf EXCEPT ![c] = b]
         /\ Reserve(c, b, want[c], free)
         /\ pc' = [pc EXCEPT ![c] = "body"]
         /\ UNCHANGED <<junk, peer, fin, conn, want, epollout, wire, failed, ibuf, history>>
  BY DEF send_head, b, free, rest, hd, k, Header
<1> QED
  BY <1>1, <1>2, <1>3, <1>4
-----------------------------------------------------------------------------
(* The body completes the message.                                          *)
LEMMA send_bodyStep ==
  ASSUME NEW c \in Conns, IInv, send_body(c)
  PROVE  IInv'
<1> USE DEF history
<1> DEFINE k == accepted[c].no + 1  d == obuf[c].data  hd == Header(k, want[c])
           body == Body(k, want[c])  b == Filled(c, obuf[c], body)  old == accepted[c].bytes
           sent == [no |-> k, bytes |-> old \o Message(k, want[c])]
<1>a. /\ Types /\ ConnInv(c) /\ Reading(c) /\ Sending(c) /\ conn[c] = "open" /\ pc[c] = "body"
      /\ obuf[c].head = 0 /\ Reserved(obuf[c], spare[c], want[c])
      /\ Len(d) >= HEAD_LEN /\ (Len(d) > HEAD_LEN => epollout[c])
  BY DEF IInv, ConnInv, send_body, Running, Sending
<1>t. /\ want[c] \in Nat /\ spare[c] \in {0} \cup Caps /\ k \in Nat
      /\ obuf[c] \in io_bufs /\ d \in Seq(Byte) /\ pool \in [Caps -> Nat]
      /\ wire[c] \in Seq(Byte) /\ old \in Seq(Byte)
  <2>1. /\ want[c] \in Nat /\ spare[c] \in {0} \cup Caps /\ accepted[c].no \in Nat
        /\ obuf[c] \in io_bufs /\ d \in Seq(Byte) /\ pool \in [Caps -> Nat]
        /\ wire[c] \in Seq(Byte) /\ old \in Seq(Byte)
    BY <1>a, TypesAt
  <2> HIDE DEF d, old
  <2> QED
    BY <2>1
<1>1. /\ obuf' = [obuf EXCEPT ![c] = b] /\ accepted' = [accepted EXCEPT ![c] = sent]
      /\ pool' = Reverted(Displaced(c, obuf[c])) /\ spare' = [spare EXCEPT ![c] = 0]
      /\ epollout' = [epollout EXCEPT ![c] = epollout[c] \/ Len(d) = HEAD_LEN]
      /\ pc' = [pc EXCEPT ![c] = "loop"] /\ want' = [want EXCEPT ![c] = 0]
      /\ UNCHANGED <<junk, peer, fin, conn, wire, failed, ibuf, total_mem, told, calls, refused>>
  BY DEF send_body
<1>s. HEAD_LEN \in Nat \ {0} /\ Len(d) \in Nat
  BY <1>t, SizesAssumption
<1>m. /\ hd \in Seq(Byte) /\ body \in Seq(Byte) /\ Len(body) = want[c]
      /\ hd \o body = Message(k, want[c])
      /\ Message(k, want[c]) \in Seq(Byte)
  BY <1>t, HeaderAndBody, MessageType
<1> HIDE DEF k, hd, body
<1>b. b \in io_bufs /\ b.head = 0 /\ b.data = d \o body /\ Fit(b)
  <2>1. Reserved(obuf[c], spare[c], Len(body))
    BY <1>a, <1>m
  <2>2. obuf[c] \in io_bufs /\ obuf[c].head = 0 /\ spare[c] \in {0} \cup Caps /\ body \in Seq(Byte)
    BY <1>a, <1>m, <1>t
  <2> HIDE DEF b
  <2> QED
    BY <2>1, <2>2, FilledType DEF b
<1>c. sent \in [no : Nat, bytes : Seq(Byte)] /\ sent.bytes = old \o (hd \o body)
  <2>1. old \o Message(k, want[c]) \in Seq(Byte)
    BY <1>m, <1>t, ConcatProperties
  <2> QED
    BY <1>m, <1>t, <2>1
<1>e. Idle(pool') + b.cap = Idle(pool) + obuf[c].cap + spare[c]
  BY <1>1, <1>t, FilledBalance
<1>p. pool' \in [Caps -> Nat]
  BY <1>1, <1>t, DisplacedType, RevertedType
<1> HIDE DEF b, sent
<1>2. /\ obuf'[c] = b /\ pc'[c] = "loop" /\ accepted'[c] = sent
      /\ epollout'[c] = (epollout[c] \/ Len(d) = HEAD_LEN)
  BY <1>1, <1>a DEF Types
<1>3. Types'
  BY <1>1, <1>a, <1>b, <1>c, <1>p DEF Types
<1>4. FailedHead'
  BY <1>1 DEF FailedHead, send_body, Running
<1>5. Others(c)
  BY <1>1, <1>a DEF Types, Others, SameInput, SameOutput, SameCallback
<1>6. Reading(c)'
  BY <1>1, <1>a, <1>2 DEF Reading
<1>7. Sending(c)'
  <2>1. epollout'[c]
    <3>1. Len(d) = HEAD_LEN \/ Len(d) > HEAD_LEN
      BY <1>a, <1>s
    <3> QED
      BY <1>2, <1>a, <3>1
  <2>2. c \notin refused => wire[c] \o b.data = sent.bytes
    <3>1. c \notin refused => wire[c] \o d = old \o hd
      BY <1>a DEF Sending, k, hd
    <3>2. (wire[c] \o d) \o body = wire[c] \o (d \o body)
      BY <1>m, <1>t, Associative
    <3>3. (old \o hd) \o body = old \o (hd \o body)
      BY <1>m, <1>t, Associative
    <3> HIDE DEF d, old
    <3> QED
      BY <1>b, <1>c, <3>1, <3>2, <3>3
  <2> QED
    BY <1>1, <1>2, <1>b, <2>1, <2>2 DEF Sending
<1>8. spare'[c] = 0
  BY <1>1, <1>a DEF Types
<1>9. ConnInv(c)'
  BY <1>1, <1>2, <1>a, <1>b, <1>6, <1>7, <1>8 DEF ConnInv, CallsOK, Settled
<1>10. Balanced(c)
  BY <1>1, <1>2, <1>3, <1>8, <1>a, <1>e, ExchangedOutput
<1> QED
  BY <1>3, <1>4, <1>5, <1>9, <1>10, OneConnection

(* The bytes the kernel takes move from obuf to the wire.                   *)
LEMMA do_writeStep ==
  ASSUME NEW c \in Conns, IInv, do_write(c)
  PROVE  IInv'
<1> DEFINE d == obuf[c].data
<1>a. /\ Types /\ ConnInv(c) /\ Reading(c) /\ Sending(c) /\ conn[c] = "open" /\ pc[c] = "loop"
      /\ Settled(c) /\ spare[c] = 0
  BY DEF IInv, ConnInv, do_write, Running, Settled
<1>t. /\ ibuf[c] \in io_bufs /\ obuf[c] \in io_bufs /\ d \in Seq(Byte) /\ wire[c] \in Seq(Byte)
      /\ Len(d) \in Nat
  <2>1. ibuf[c] \in io_bufs /\ obuf[c] \in io_bufs /\ d \in Seq(Byte) /\ wire[c] \in Seq(Byte)
    BY <1>a, TypesAt
  <2> QED
    BY <2>1
<1>1. CASE obuf[c].head # 0 /\ Fail("head")
  <2>1. c \in refused /\ obuf[c].head # 0
    BY <1>1, <1>a DEF Sending
  <2> QED
    BY <1>1, <2>1, Failure
<1>2. CASE clean_conn(c, <<ibuf[c].cap, obuf[c].cap>>)
  BY <1>2, <1>a, ClosingSettled DEF do_write, Running
<1>3. ASSUME NEW n \in 1..Len(d),
             wire' = [wire EXCEPT ![c] = wire[c] \o SubSeq(d, 1, n)],
             obuf' = [obuf EXCEPT ![c] = adjust(pop(obuf[c], n))],
             epollout' = [epollout EXCEPT ![c] = n < Len(d)],
             UNCHANGED <<junk, peer, fin, conn, pc, want, failed, ibuf, pool, total_mem, spare, history>>
      PROVE  IInv'
  <2> USE DEF history
  <2> DEFINE r == pop(obuf[c], n)  out == SubSeq(d, 1, n)  b == adjust(r)
  <2>1. n \in Nat /\ n <= Len(d) /\ Len(d) - n \in Nat
    BY <1>t
  <2>2. /\ r \in io_bufs /\ r.cap = obuf[c].cap /\ Len(r.data) = Len(d) - n /\ Fit(r)
        /\ r.data = SubSeq(d, n + 1, Len(d))
    BY <1>a, <1>t, <2>1, PopType DEF ConnInv
  <2> HIDE DEF r
  <2>3. /\ b \in io_bufs /\ b.head = 0 /\ b.data = r.data /\ Fit(b) /\ b.data \in Seq(Byte)
        /\ b.cap = r.cap
    <3>1. b \in io_bufs /\ b.cap = r.cap /\ b.head = 0 /\ b.data = r.data /\ Fit(b)
      BY <2>2, AdjustType
    <3> QED
      BY <3>1, IoBufs
  <2> HIDE DEF b
  <2>4. out \in Seq(Byte)
    <3>1. 1 \in 1..(Len(d) + 1) /\ n \in 0..Len(d)
      BY <1>t, <2>1
    <3> QED
      BY <1>t, <3>1, BytesOfSub
  <2>5. out \o b.data = d
    <3>1. /\ 1 \in 1..(Len(d) + 1) /\ n \in (1 - 1)..Len(d) /\ Len(d) \in n..Len(d)
      BY <1>t, <2>1
    <3>2. out \o r.data = SubSeq(d, 1, Len(d))
      BY <1>t, <2>2, <3>1, ConcatAdjacentSubSeq
    <3>3. SubSeq(d, 1, Len(d)) = d
      BY <1>t
    <3> QED
      BY <2>3, <3>2, <3>3
  <2>6. wire[c] \o out \in Seq(Byte)
    BY <1>t, <2>4, ConcatProperties
  <2>7. obuf'[c] = b /\ epollout'[c] = (n < Len(d)) /\ wire'[c] = wire[c] \o out
    BY <1>3, <1>a DEF Types, b, r
  <2>8. Types'
    BY <1>3, <1>a, <2>3, <2>6 DEF Types, b, r
  <2>9. FailedHead'
    BY <1>3 DEF FailedHead, do_write, Running
  <2>10. Others(c)
    BY <1>3, <1>a DEF Types, Others, SameInput, SameOutput, SameCallback
  <2>11. Reading(c)'
    BY <1>3, <1>a DEF Reading
  <2>12. Sending(c)'
    <3>1. b.data # << >> => epollout'[c]
      <4>1. b.data # << >> => Len(b.data) # 0
        BY <2>3
      <4>2. Len(b.data) # 0 => n < Len(d)
        <5> HIDE DEF d
        <5> QED
          BY <1>t, <2>1, <2>2, <2>3
      <4> QED
        BY <2>7, <4>1, <4>2
    <3>2. c \notin refused => wire'[c] \o b.data = accepted[c].bytes
      <4>1. c \notin refused => wire[c] \o d = accepted[c].bytes
        BY <1>a DEF Sending
      <4>2. (wire[c] \o out) \o b.data = wire[c] \o (out \o b.data)
        BY <1>t, <2>3, <2>4, Associative
      <4> HIDE DEF d, out
      <4> QED
        BY <2>5, <2>7, <4>1, <4>2
    <3> QED
      BY <1>3, <1>a, <2>3, <2>7, <3>1, <3>2 DEF Sending
  <2>13. ConnInv(c)'
    BY <1>3, <1>a, <2>3, <2>7, <2>11, <2>12 DEF ConnInv, CallsOK, Settled
  <2>14. Balanced(c)
    BY <1>3, <1>a, <2>2, <2>3, <2>7, Unmoved
  <2> QED
    BY <2>8, <2>9, <2>10, <2>13, <2>14, OneConnection
<1>4. \/ obuf[c].head # 0 /\ Fail("head")
      \/ clean_conn(c, <<ibuf[c].cap, obuf[c].cap>>)
      \/ \E n \in 1..Len(d) :
           /\ wire' = [wire EXCEPT ![c] = wire[c] \o SubSeq(d, 1, n)]
           /\ obuf' = [obuf EXCEPT ![c] = adjust(pop(obuf[c], n))]
           /\ epollout' = [epollout EXCEPT ![c] = n < Len(d)]
           /\ UNCHANGED <<junk, peer, fin, conn, pc, want, failed, ibuf, pool, total_mem, spare, history>>
  BY DEF do_write
<1> HIDE DEF d
<1> QED
  BY <1>1, <1>2, <1>3, <1>4

(* The peer sends a message.                                                *)
LEMMA peer_sendsStep ==
  ASSUME NEW c \in Conns, NEW len \in BodyLens, IInv, peer_sends(c, len)
  PROVE  IInv'
<1> USE DEF buffers
<1> DEFINE n == Len(told[c])  msg == Message(n + 1, len)  d == ibuf[c].data
           all == peer[c] \o msg  lens == Append(told[c], len)
<1>a. /\ Types /\ ConnInv(c) /\ Reading(c) /\ Sending(c) /\ Settled(c) /\ CallsOK(c) /\ conn[c] = "open"
  BY DEF IInv, ConnInv, peer_sends
<1>t. /\ peer[c] \in Seq(Byte) /\ d \in Seq(Byte) /\ told[c] \in Seq(Nat)
      /\ calls[c] \in Seq(Seq(Byte)) /\ want[c] \in Nat
  BY <1>a, TypesAt
<1>s. n \in Nat /\ n + 1 \in Nat /\ len \in Nat /\ Len(calls[c]) \in Nat /\ Len(peer[c]) \in Nat
  BY <1>t, SizesAssumption
<1>1. /\ told' = [told EXCEPT ![c] = lens] /\ peer' = [peer EXCEPT ![c] = all]
      /\ UNCHANGED <<junk, fin, conn, pc, want, epollout, wire, failed, buffers, calls, accepted, refused>>
  BY DEF peer_sends
<1>2. /\ lens \in Seq(Nat) /\ Len(lens) = n + 1 /\ lens[n + 1] = len
      /\ \A i \in 1..n : lens[i] = told[c][i]
  BY <1>s, <1>t, AppendProperties
<1>3. msg \in Seq(Byte) /\ Len(msg) \in Nat
  <2>1. msg \in Seq(Byte)
    BY <1>s, MessageType
  <2> QED
    BY <2>1
<1> HIDE DEF msg
<1>4. all \in Seq(Byte) /\ Len(all) = Len(peer[c]) + Len(msg)
  BY <1>3, <1>t, ConcatProperties
<1>5. Framed(d \o all, Len(calls[c]), lens)
  <2>1. d \o peer[c] \in Seq(Byte)
    BY <1>t, ConcatProperties
  <2>2. Framed((d \o peer[c]) \o msg, Len(calls[c]), lens)
    BY <1>a, <1>s, <1>t, <2>1, FramedSend DEF Reading, msg
  <2>3. (d \o peer[c]) \o msg = d \o all
    BY <1>3, <1>t, Associative
  <2> QED
    BY <2>2, <2>3
<1> HIDE DEF all, lens
<1>6. peer'[c] = all /\ told'[c] = lens
  BY <1>1, <1>a DEF Types
<1>7. Types'
  BY <1>1, <1>2, <1>4, <1>a DEF Types
<1>8. FailedHead'
  BY <1>1 DEF IInv, FailedHead
<1>9. Others(c)
  BY <1>1, <1>a DEF Types, Others, SameInput, SameOutput, SameCallback
<1>10. Reading(c)'
  <2>1. pc[c] = "read" => want[c] <= Len(all)
    BY <1>3, <1>4, <1>a, <1>s, <1>t DEF Reading
  <2> QED
    BY <1>1, <1>5, <1>6, <1>a, <2>1 DEF Reading
<1>11. Sending(c)'
  BY <1>1, <1>a DEF Sending
<1>12. CallsOK(c)'
  <2>1. Len(calls[c]) <= n /\ \A k \in 1..Len(calls[c]) : calls[c][k] = Body(k, told[c][k])
    BY <1>a DEF CallsOK
  <2> HIDE DEF n
  <2>2. ASSUME NEW k \in 1..Len(calls[c]) PROVE k \in 1..n
    BY <1>s, <2>1
  <2>3. Len(calls[c]) <= Len(lens)
    BY <1>2, <1>s, <2>1
  <2>4. calls' = calls
    BY <1>1
  <2> QED
    BY <1>2, <1>6, <2>1, <2>2, <2>3, <2>4 DEF CallsOK
<1>13. ConnInv(c)'
  BY <1>1, <1>10, <1>11, <1>12, <1>a DEF ConnInv, Settled
<1>14. Balanced(c)
  BY <1>1, <1>a, Unmoved
<1> QED
  BY <1>7, <1>8, <1>9, <1>13, <1>14, OneConnection

(* The peer closes its end.                                                 *)
LEMMA peer_closesStep ==
  ASSUME NEW c \in Conns, IInv, peer_closes(c)
  PROVE  IInv'
<1> USE DEF buffers, history
<1>1. Types' /\ FailedHead'
  BY DEF IInv, Types, FailedHead, peer_closes
<1>c. BuffersAreConserved'
  BY SameBuffers DEF IInv, peer_closes
<1>2. ASSUME NEW d \in Conns PROVE ConnInv(d)'
  BY Frame DEF IInv, peer_closes, SameInput, SameOutput, SameCallback
<1> QED
  BY <1>1, <1>2, <1>c DEF IInv
-----------------------------------------------------------------------------
(* The invariant holds at first.                                            *)
LEMMA IInvInit == Init => IInv
<1> SUFFICES ASSUME Init PROVE IInv
  OBVIOUS
<1>e. /\ << >> \in Seq(Byte) /\ << >> \in Seq(Nat) /\ << >> \in Seq(Seq(Byte)) /\ Len(<< >>) = 0
      /\ << >> \o << >> = << >>
  BY EmptySeq
<1>p. pool \in [Caps -> Nat] /\ Idle(pool) = total_mem
  <2>1. pool = [n \in Caps |-> Prefilled] /\ Prefilled \in Nat
    BY SizesAssumption DEF Init
  <2>2. [n \in Caps |-> n * pool[n]] = [n \in Caps |-> n * Prefilled]
    BY <2>1
  <2> QED
    BY <2>1, <2>2 DEF Init, Idle
<1>m. total_mem \in Nat
  BY <1>p, IdleIsNat
<1>1. Types
  BY NoBuf, SizesAssumption, <1>e, <1>m DEF Init, Types
<1>4. BuffersAreConserved
  <2>1. [c \in Conns |-> ibuf[c].cap + obuf[c].cap + spare[c]] = [c \in Conns |-> 0]
    BY NoBuf DEF Init
  <2>2. Total([c \in Conns |-> 0]) = 0
    BY ConnsAssumption, TotalOfZeros
  <2>3. total_mem = Idle(pool) + 0
    BY <1>m, <1>p
  <2> QED
    BY <2>1, <2>2, <2>3 DEF BuffersAreConserved, Idle
<1>2. FailedHead
  BY DEF Init, FailedHead
<1>3. ASSUME NEW c \in Conns PROVE ConnInv(c)
  <2>1. /\ peer[c] = << >> /\ conn[c] = "open" /\ pc[c] = "loop" /\ ibuf[c] = NULL /\ obuf[c] = NULL
        /\ wire[c] = << >> /\ told[c] = << >> /\ calls[c] = << >> /\ accepted[c].bytes = << >>
    BY DEF Init
  <2>2. HEAD_LEN \in Nat \ {0}
    BY SizesAssumption
  <2>3. ~Headed(ibuf[c])
    BY <1>e, <2>1, <2>2, NoBuf DEF Headed
  <2>4. Reading(c)
    BY <1>e, <2>1, <2>3, NoBuf, FramedAtFirst DEF Reading
  <2>5. Sending(c)
    BY <1>e, <2>1, NoBuf DEF Sending
  <2>6. CallsOK(c)
    BY <1>e, <2>1 DEF CallsOK
  <2>7. Settled(c)
    BY DEF Init, Settled
  <2> QED
    BY <2>1, <2>4, <2>5, <2>6, <2>7, NoBuf DEF ConnInv
<1> QED
  BY <1>1, <1>2, <1>3, <1>4 DEF IInv

(* Every step keeps it.                                                     *)
LEMMA IInvNext == IInv /\ [Next]_vars => IInv'
<1> SUFFICES ASSUME IInv, [Next]_vars PROVE IInv'
  OBVIOUS
<1>1. ASSUME NEW c \in Conns, do_read(c) PROVE IInv'
  BY <1>1, read_dataStep, read_doneStep, parse_stopStep, parse_too_longStep, parse_messageStep
     DEF do_read
<1>2. ASSUME NEW c \in Conns, do_write(c) PROVE IInv'
  BY <1>2, do_writeStep
<1>3. ASSUME NEW c \in Conns, peer_closes(c) PROVE IInv'
  BY <1>3, peer_closesStep
<1>4. ASSUME NEW c \in Served, send(c) PROVE IInv'
  <2>1. c \in Conns
    BY ConnsAssumption
  <2> QED
    BY <1>4, <2>1, send_messageStep, send_headStep, send_bodyStep DEF send
<1>5. ASSUME NEW c \in Talkers, NEW len \in BodyLens, peer_sends(c, len) PROVE IInv'
  <2>1. c \in Conns
    BY ConnsAssumption
  <2> QED
    BY <1>5, <2>1, peer_sendsStep
<1>u. CASE UNCHANGED vars
  <2>1. Types' /\ FailedHead'
    BY <1>u DEF IInv, Types, FailedHead, vars, buffers, history
  <2>2. BuffersAreConserved'
    BY <1>u, SameBuffers DEF IInv, vars, buffers
  <2>3. ASSUME NEW d \in Conns PROVE ConnInv(d)'
    BY <1>u, Frame DEF IInv, vars, buffers, history, SameInput, SameOutput, SameCallback
  <2> QED
    BY <2>1, <2>2, <2>3 DEF IInv
<1> QED
  BY <1>1, <1>2, <1>3, <1>4, <1>5, <1>u DEF Next

(* The inductive invariant.                                                *)
THEOREM IInvAlways == Spec => []IInv
BY IInvInit, IInvNext, PTL DEF Spec

(* No io_buf holds more than its capacity, so neither read() nor memcpy     *)
(* writes past its end (reactor_buf.cpp:80-82, 137).                        *)
THEOREM TypeCorrect == Spec => []TypeOK
<1>1. IInv => TypeOK
  BY DEF IInv, Types, ConnInv, Fit, TypeOK
<1> QED
  BY <1>1, IInvAlways, PTL

(* Every io_buf is idle or in exactly one buffer, whatever callbacks stand  *)
(* between alloc_buf and revert (buf_pool.cpp:45-113).                      *)
THEOREM MemoryIsConserved == Spec => []BuffersAreConserved
<1>1. IInv => BuffersAreConserved
  BY DEF IInv
<1> QED
  BY <1>1, IInvAlways, PTL

(* The asserts on head fail only for a connection whose own refused body    *)
(* took a header back (reactor_buf.cpp:60, 120, 144).                       *)
THEOREM HeadsAreAsserted == Spec => []HeadAssertsHold
<1>1. IInv => HeadAssertsHold
  BY DEF IInv, ConnInv, Sending, FailedHead, HeadAssertsHold
<1> QED
  BY <1>1, IInvAlways, PTL

(* No whole message and no byte to be sent waits for an event that epoll    *)
(* will not report (tcp_conn.cpp:60-81, 135).                               *)
THEOREM NoMessageWaits == Spec => []NothingIsStuck
<1>1. IInv => NothingIsStuck
  BY DEF IInv, ConnInv, Reading, Sending, NothingIsStuck
<1> QED
  BY <1>1, IInvAlways, PTL

(* The router gets exactly the bodies the peer sent, in order, and the wire *)
(* exactly the messages accepted (tcp_conn.cpp:60-81, 117-138).             *)
THEOREM MessagesArrive == Spec => []MessagesAreWhole
<1>1. ASSUME IInv, NEW c \in Conns
      PROVE  /\ Len(calls[c]) <= Len(told[c])
             /\ \A k \in DOMAIN calls[c] : calls[c][k] = Body(k, told[c][k])
             /\ c \notin refused /\ conn[c] = "open" /\ pc[c] \notin {"head", "body"} =>
                  wire[c] \o obuf[c].data = accepted[c].bytes
  <2>1. CallsOK(c) /\ (conn[c] = "open" => Sending(c))
    BY <1>1 DEF IInv, ConnInv
  <2>2. DOMAIN calls[c] = 1..Len(calls[c])
    BY <1>1, TypesAt DEF IInv
  <2> QED
    BY <2>1, <2>2 DEF CallsOK, Sending
<1>2. IInv => MessagesAreWhole
  BY <1>1 DEF MessagesAreWhole
<1> QED
  BY <1>2, IInvAlways, PTL
=============================================================================
