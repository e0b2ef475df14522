--------------------------- MODULE RPCClientProofs ---------------------------
(***************************************************************************)
(* What RPCClient promises of a call, for any lists of URLs, however long, *)
(* and any cooldown.  The order of getURLsToTry is computed by a recursive *)
(* function, so this begins with induction: over sets of numbers, which    *)
(* the provers can instantiate where they cannot a predicate.              *)
(***************************************************************************)
EXTENDS RPCClient, SequenceTheorems, WellFoundedInduction, TLAPS

-----------------------------------------------------------------------------
(***************************************************************************)
(* Sequences.                                                              *)
(***************************************************************************)

\* A set with 0 in it that is closed under successor has every natural number in it.
LEMMA Induction ==
    ASSUME NEW A, 0 \in A, \A n \in Nat : n \in A => n + 1 \in A
    PROVE  Nat \subseteq A
<1>. DEFINE R == OpToRel(<, Nat)
            T == Nat \ A
<1>1. \A x, y \in Nat : x < y => <<x, y>> \in R
  BY DEF OpToRel
<1>2. IsWellFoundedOn(R, Nat)
  BY NatLessThanWellFounded
<1>. HIDE DEF R
<1>. SUFFICES ASSUME T # {} PROVE FALSE
  OBVIOUS
<1>3. \E x \in T : \A y \in T : <<y, x>> \notin R
  <2>1. T \subseteq Nat
    OBVIOUS
  <2>. HIDE DEF T
  <2>. QED
    BY <1>2, <2>1, WFMin
<1>4. PICK x \in T : \A y \in T : <<y, x>> \notin R
  BY <1>3
<1>5. x # 0
  OBVIOUS
<1>6. x - 1 \in Nat /\ <<x - 1, x>> \in R
  BY <1>1, <1>5
<1>7. x - 1 \in A
  BY <1>4, <1>6
<1>. QED
  BY <1>6, <1>7

\* What Collect has collected of the first i URLs.
Collects(f, list, S) ==
    f = [i \in 0 .. Len(list) |->
           IF i = 0 THEN <<>>
           ELSE IF list[i] \in S THEN Append(f[i - 1], list[i]) ELSE f[i - 1]]

\* The recursion of Collect defines a function.
LEMMA CollectDefined ==
    ASSUME NEW U, NEW list \in Seq(U), NEW S
    PROVE  \E f : Collects(f, list, S) /\ Collect(list, S) = f[Len(list)]
<1>. DEFINE Body(f, i) ==
              IF i = 0 THEN <<>>
              ELSE IF list[i] \in S THEN Append(f[i - 1], list[i]) ELSE f[i - 1]
            A == {n \in Nat : \E f : f = [i \in 0 .. n |-> Body(f, i)]}
<1>1. 0 \in A
  <2>. DEFINE f == [i \in 0 .. 0 |-> <<>>]
  <2>1. f = [i \in 0 .. 0 |-> Body(f, i)]
    OBVIOUS
  <2>. QED
    BY <2>1
<1>2. ASSUME NEW n \in Nat, n \in A PROVE n + 1 \in A
  <2>1. PICK f : f = [i \in 0 .. n |-> Body(f, i)]
    BY <1>2
  <2>. DEFINE g == [i \in 0 .. n + 1 |-> IF i <= n THEN f[i] ELSE Body(f, i)]
  <2>2. ASSUME NEW i \in 0 .. n + 1 PROVE Body(g, i) = Body(f, i)
    BY <2>2
  <2>3. \A i \in 0 .. n : f[i] = Body(f, i)
    BY <2>1
  <2>4. g = [i \in 0 .. n + 1 |-> Body(f, i)]
    BY <2>3
  <2>5. [i \in 0 .. n + 1 |-> Body(f, i)] = [i \in 0 .. n + 1 |-> Body(g, i)]
    BY <2>2
  <2>6. g = [i \in 0 .. n + 1 |-> Body(g, i)]
    BY <2>4, <2>5
  <2>. HIDE DEF g
  <2>7. \E h : h = [i \in 0 .. n + 1 |-> Body(h, i)]
    BY <2>6
  <2>8. n + 1 \in Nat
    BY <1>2
  <2>. QED
    BY <2>7, <2>8
<1>3. Len(list) \in A
  <2>. HIDE DEF A
  <2>1. Nat \subseteq A
    BY <1>1, <1>2, Induction
  <2>. QED
    BY <2>1
<1>4. PICK f : Collects(f, list, S)
  BY <1>3 DEF Collects
<1>. DEFINE h == CHOOSE h : Collects(h, list, S)
<1>5. Collects(h, list, S)
  BY <1>4
<1>6. Collect(list, S) = h[Len(list)]
  BY Zenon DEF Collect, Collects
<1>. HIDE DEF h
<1>. QED
  BY <1>5, <1>6

\* Collect returns the URLs of the list that are in S, and no URL twice unless
\* the list has it twice.
LEMMA Collected ==
    ASSUME NEW U, NEW list \in Seq(U), NEW S
    PROVE  /\ Collect(list, S) \in Seq(U)
           /\ ToSet(Collect(list, S)) = ToSet(list) \cap S
           /\ IsInjective(list) => IsInjective(Collect(list, S))
<1>1. PICK f : Collects(f, list, S) /\ Collect(list, S) = f[Len(list)]
  BY CollectDefined
<1>. DEFINE Upto(i) == {list[j] : j \in 1 .. i} \cap S
            Good(i) == /\ f[i] \in Seq(U)
                       /\ ToSet(f[i]) = Upto(i)
                       /\ IsInjective(list) => IsInjective(f[i])
            A == {n \in Nat : n <= Len(list) => Good(n)}
<1>2. f[0] = <<>>
  BY <1>1 DEF Collects
<1>3. ASSUME NEW n \in Nat, n + 1 <= Len(list)
      PROVE  f[n + 1] = IF list[n + 1] \in S THEN Append(f[n], list[n + 1]) ELSE f[n]
  <2>1. n + 1 \in 0 .. Len(list) /\ n + 1 # 0 /\ (n + 1) - 1 = n
    BY <1>3
  <2>. QED
    BY <1>1, <2>1 DEF Collects
<1>. HIDE DEF Upto
<1>4. 0 \in A
  <2>1. ToSet(<<>>) = {} /\ IsInjective(<<>>)
    BY DEF ToSet, IsInjective
  <2>2. Upto(0) = {}
    BY DEF Upto
  <2>3. <<>> \in Seq(U)
    BY EmptySeq
  <2>4. /\ f[0] \in Seq(U) /\ ToSet(f[0]) = Upto(0) /\ IsInjective(f[0])
    BY <1>2, <2>1, <2>2, <2>3
  <2>. QED
    BY <2>4
<1>5. ASSUME NEW n \in Nat, n \in A PROVE n + 1 \in A
  <2>. SUFFICES ASSUME n + 1 <= Len(list) PROVE Good(n + 1)
    OBVIOUS
  <2>. DEFINE u == list[n + 1]
  <2>1. Good(n)
    BY <1>5
  <2>2. n + 1 \in 1 .. Len(list) /\ u \in U
    OBVIOUS
  <2>3. Upto(n + 1) = Upto(n) \cup ({u} \cap S)
    BY DEF Upto
  <2>4. CASE u \notin S
    <3>1. f[n + 1] = f[n]
      BY <1>3, <2>2, <2>4
    <3>. QED
      BY <2>1, <2>3, <2>4, <3>1
  <2>5. CASE u \in S
    <3>1. f[n + 1] = Append(f[n], u)
      BY <1>3, <2>2, <2>5
    <3>. DEFINE s == f[n]
    <3>2. s \in Seq(U) /\ ToSet(s) = Upto(n) /\ (IsInjective(list) => IsInjective(s))
      BY <2>1
    <3>. HIDE DEF s
    <3>3. Append(s, u) \in Seq(U)
      BY <2>2, <3>2
    <3>4. ToSet(Append(s, u)) = ToSet(s) \cup {u}
      BY <2>2, <3>2, AppendProperties DEF ToSet
    <3>5. IsInjective(list) => IsInjective(Append(s, u))
      <4>. SUFFICES ASSUME IsInjective(list) PROVE IsInjective(Append(s, u))
        OBVIOUS
      <4>1. u \notin ToSet(s)
        BY <2>2, <3>2 DEF Upto, IsInjective
      <4>2. \A a \in 1 .. Len(s) : s[a] # u
        BY <3>2, <4>1 DEF ToSet
      <4>3. \A a, b \in 1 .. Len(s) : s[a] = s[b] => a = b
        BY <3>2 DEF IsInjective
      <4>. QED
        BY <2>2, <3>2, <4>2, <4>3, AppendProperties DEF IsInjective
    <3>. QED
      BY <2>3, <2>5, <3>1, <3>2, <3>3, <3>4, <3>5 DEF s
  <2>. QED
    BY <2>4, <2>5
<1>6. Good(Len(list))
  <2>1. Nat \subseteq A
    <3>. HIDE DEF A
    <3>. QED
      BY <1>4, <1>5, Induction
  <2>. QED
    BY <2>1
<1>7. Upto(Len(list)) = ToSet(list) \cap S
  BY DEF Upto, ToSet
<1>. QED
  BY <1>1, <1>6, <1>7

\* The elements of a concatenation, and when it has none twice.
LEMMA Concatenated ==
    ASSUME NEW U, NEW s \in Seq(U), NEW t \in Seq(U)
    PROVE  /\ s \o t \in Seq(U)
           /\ ToSet(s \o t) = ToSet(s) \cup ToSet(t)
           /\ IsInjective(s) /\ IsInjective(t) /\ ToSet(s) \cap ToSet(t) = {}
                => IsInjective(s \o t)
<1>1. /\ s \o t \in Seq(U) /\ Len(s \o t) = Len(s) + Len(t)
      /\ \A i \in 1 .. Len(s) + Len(t) :
            (s \o t)[i] = IF i <= Len(s) THEN s[i] ELSE t[i - Len(s)]
  BY ConcatProperties
<1>2. ToSet(s \o t) = ToSet(s) \cup ToSet(t)
  <2>1. ASSUME NEW i \in 1 .. Len(s \o t) PROVE (s \o t)[i] \in ToSet(s) \cup ToSet(t)
    <3>1. CASE i <= Len(s)
      BY <1>1, <3>1 DEF ToSet
    <3>2. CASE ~(i <= Len(s))
      <4>1. i - Len(s) \in 1 .. Len(t)
        BY <1>1, <3>2
      <4>. QED
        BY <1>1, <3>2, <4>1 DEF ToSet
    <3>. QED
      BY <3>1, <3>2
  <2>2. ASSUME NEW i \in 1 .. Len(s) PROVE s[i] \in ToSet(s \o t)
    <3>1. i \in DOMAIN (s \o t) /\ (s \o t)[i] = s[i]
      BY <1>1
    <3>. QED
      BY <3>1 DEF ToSet
  <2>3. ASSUME NEW i \in 1 .. Len(t) PROVE t[i] \in ToSet(s \o t)
    <3>1. Len(s) + i \in DOMAIN (s \o t) /\ (s \o t)[Len(s) + i] = t[i]
      BY <1>1
    <3>. QED
      BY <3>1 DEF ToSet
  <2>4. ToSet(s \o t) \subseteq ToSet(s) \cup ToSet(t)
    BY <1>1, <2>1 DEF ToSet
  <2>5. ToSet(s) \subseteq ToSet(s \o t)
    BY <2>2 DEF ToSet
  <2>6. ToSet(t) \subseteq ToSet(s \o t)
    BY <2>3 DEF ToSet
  <2>. QED
    BY <2>4, <2>5, <2>6
<1>3. ASSUME IsInjective(s), IsInjective(t), ToSet(s) \cap ToSet(t) = {}
      PROVE  IsInjective(s \o t)
  <2>1. \A a \in 1 .. Len(s), b \in 1 .. Len(t) : s[a] # t[b]
    BY <1>3 DEF ToSet
  <2>2. \A a, b \in 1 .. Len(s) : s[a] = s[b] => a = b
    BY <1>3 DEF IsInjective
  <2>3. \A a, b \in 1 .. Len(t) : t[a] = t[b] => a = b
    BY <1>3 DEF IsInjective
  <2>. SUFFICES ASSUME NEW a \in 1 .. Len(s) + Len(t), NEW b \in 1 .. Len(s) + Len(t),
                       (s \o t)[a] = (s \o t)[b]
                PROVE  a = b
    BY <1>1 DEF IsInjective
  <2>4. CASE a <= Len(s) /\ b <= Len(s)
    BY <1>1, <2>2, <2>4
  <2>5. CASE ~(a <= Len(s)) /\ ~(b <= Len(s))
    <3>1. a - Len(s) \in 1 .. Len(t) /\ b - Len(s) \in 1 .. Len(t)
      BY <2>5
    <3>2. t[a - Len(s)] = t[b - Len(s)]
      BY <1>1, <2>5
    <3>3. a - Len(s) = b - Len(s)
      BY <2>3, <3>1, <3>2
    <3>. QED
      BY <3>3
  <2>6. CASE a <= Len(s) /\ ~(b <= Len(s))
    <3>1. a \in 1 .. Len(s) /\ b - Len(s) \in 1 .. Len(t)
      BY <2>6
    <3>2. s[a] = t[b - Len(s)]
      BY <1>1, <2>6
    <3>. QED
      BY <2>1, <3>1, <3>2
  <2>7. CASE ~(a <= Len(s)) /\ b <= Len(s)
    <3>1. a - Len(s) \in 1 .. Len(t) /\ b \in 1 .. Len(s)
      BY <2>7
    <3>2. t[a - Len(s)] = s[b]
      BY <1>1, <2>7
    <3>. QED
      BY <2>1, <3>1, <3>2
  <2>. QED
    BY <2>4, <2>5, <2>6, <2>7
<1>. QED
  BY <1>1, <1>2, <1>3

\* What remains of a sequence when its first element is taken.
LEMMA Taken ==
    ASSUME NEW U, NEW q \in Seq(U), q # <<>>
    PROVE  /\ Head(q) \in U /\ Head(q) = q[1] /\ Tail(q) \in Seq(U)
           /\ Len(Tail(q)) = Len(q) - 1 /\ \A i \in 1 .. Len(Tail(q)) : Tail(q)[i] = q[i + 1]
           /\ ToSet(q) = {Head(q)} \cup ToSet(Tail(q))
           /\ IsInjective(q) => IsInjective(Tail(q)) /\ Head(q) \notin ToSet(Tail(q))
<1>1. /\ Tail(q) \in Seq(U) /\ Len(Tail(q)) = Len(q) - 1 /\ Len(q) \in Nat /\ Len(q) >= 1
      /\ \A i \in 1 .. Len(Tail(q)) : Tail(q)[i] = q[i + 1]
  BY HeadTailProperties, EmptySeq
<1>2. Head(q) = q[1] /\ Head(q) \in U /\ 1 \in DOMAIN q
  BY <1>1
<1>3. ToSet(q) = {Head(q)} \cup ToSet(Tail(q))
  <2>1. ASSUME NEW i \in 1 .. Len(q), i # 1 PROVE q[i] \in ToSet(Tail(q))
    <3>1. i - 1 \in DOMAIN Tail(q) /\ Tail(q)[i - 1] = q[i]
      BY <1>1, <2>1
    <3>. QED
      BY <3>1 DEF ToSet
  <2>2. ASSUME NEW i \in DOMAIN Tail(q) PROVE Tail(q)[i] \in ToSet(q)
    <3>1. i + 1 \in DOMAIN q /\ Tail(q)[i] = q[i + 1]
      BY <1>1
    <3>. QED
      BY <3>1 DEF ToSet
  <2>3. ToSet(q) \subseteq {Head(q)} \cup ToSet(Tail(q))
    BY <1>2, <2>1 DEF ToSet
  <2>4. ToSet(Tail(q)) \subseteq ToSet(q)
    BY <2>2 DEF ToSet
  <2>5. Head(q) \in ToSet(q)
    BY <1>2 DEF ToSet
  <2>. QED
    BY <2>3, <2>4, <2>5
<1>4. ASSUME IsInjective(q) PROVE IsInjective(Tail(q)) /\ Head(q) \notin ToSet(Tail(q))
  <2>1. \A a, b \in 1 .. Len(q) : q[a] = q[b] => a = b
    BY <1>4 DEF IsInjective
  <2>2. ASSUME NEW a \in DOMAIN Tail(q), NEW b \in DOMAIN Tail(q), Tail(q)[a] = Tail(q)[b]
        PROVE  a = b
    <3>1. a + 1 \in 1 .. Len(q) /\ b + 1 \in 1 .. Len(q) /\ q[a + 1] = q[b + 1]
      BY <1>1, <2>2
    <3>2. a + 1 = b + 1
      BY <2>1, <3>1
    <3>. QED
      BY <1>1, <3>2
  <2>3. ASSUME NEW a \in DOMAIN Tail(q), Tail(q)[a] = Head(q) PROVE FALSE
    <3>1. a + 1 \in 1 .. Len(q) /\ q[a + 1] = q[1] /\ 1 \in 1 .. Len(q)
      BY <1>1, <1>2, <2>3
    <3>2. a + 1 = 1
      BY <2>1, <3>1
    <3>. QED
      BY <1>1, <3>2
  <2>4. IsInjective(Tail(q))
    BY <2>2 DEF IsInjective
  <2>5. Head(q) \notin ToSet(Tail(q))
    BY <2>3 DEF ToSet
  <2>. QED
    BY <2>4, <2>5
<1>. QED
  BY <1>1, <1>2, <1>3, <1>4

-----------------------------------------------------------------------------
(***************************************************************************)
(* The order of a call.                                                    *)
(***************************************************************************)

\* After a URL that is cooling down, or that answered the last call, there are only
\* URLs that are cooling down.
InOrder(q, cooling, last) ==
    \A i, j \in 1 .. Len(q) : i < j /\ (q[i] \in cooling \/ q[i] = last) => q[j] \in cooling

\* A client has URLs, and the last one to answer, if any, is one of them.
ClientOK(c) ==
    /\ urls[c] \in Seq(Url) \ {<<>>} /\ NoUrl \notin ToSet(urls[c])
    /\ lastSuccessful[c] \in ToSet(urls[c]) \cup {NoUrl}

\* What getURLsToTry returns: all URLs of the client, none twice unless the list
\* has it twice, those at rest first, and the last one to answer last of its kind.
THEOREM URLsInOrder ==
    ASSUME NEW c \in Client, ClientOK(c)
    PROVE  /\ URLsToTry(c) \in Seq(Url)
           /\ ToSet(URLsToTry(c)) = ToSet(urls[c])
           /\ IsInjective(urls[c]) => IsInjective(URLsToTry(c))
           /\ InOrder(URLsToTry(c), {u \in ToSet(urls[c]) : Cooling(c, u)}, lastSuccessful[c])
           /\ Len(urls[c]) <= 1 => Len(URLsToTry(c)) <= 1
<1>. DEFINE list == urls[c]
            last == lastSuccessful[c]
            cooling == {u \in ToSet(list) : Cooling(c, u)}
            Mine(cool) == {u \in Url \ {last} : Cooling(c, u) = cool}
<1>1. /\ list \in Seq(Url) /\ NoUrl \notin ToSet(list) /\ last \in ToSet(list) \cup {NoUrl}
      /\ Len(list) \in Nat
  BY DEF ClientOK
<1>2. ToSet(list) \subseteq Url
  BY <1>1 DEF ToSet
<1>3. CASE Len(list) <= 1
  <2>1. URLsToTry(c) = list
    BY <1>3 DEF URLsToTry
  <2>2. InOrder(list, cooling, last)
    BY <1>1, <1>3 DEF InOrder
  <2>. QED
    BY <1>1, <1>3, <2>1, <2>2
<1>4. CASE ~(Len(list) <= 1)
  <2>1. ASSUME NEW cool \in BOOLEAN
        PROVE  /\ Others(c, cool) \in Seq(Url)
               /\ ToSet(Others(c, cool)) = ToSet(list) \cap Mine(cool)
               /\ IsInjective(list) => IsInjective(Others(c, cool))
    BY <1>1, Collected DEF Others
  <2>2. ASSUME NEW cool \in BOOLEAN
        PROVE  /\ Answered(c, cool) \in Seq(Url)
               /\ ToSet(Answered(c, cool)) = {u \in ToSet(list) \cap {last} : Cooling(c, u) = cool}
               /\ IsInjective(Answered(c, cool))
               /\ Len(Answered(c, cool)) <= 1
    <3>1. CASE last # NoUrl /\ Cooling(c, last) = cool
      <4>1. Answered(c, cool) = <<last>> /\ last \in ToSet(list) /\ last \in Url
        BY <1>1, <1>2, <3>1 DEF Answered
      <4>2. ToSet(<<last>>) = {last} /\ IsInjective(<<last>>) /\ Len(<<last>>) = 1
        BY DEF ToSet, IsInjective
      <4>. QED
        BY <3>1, <4>1, <4>2
    <3>2. CASE ~(last # NoUrl /\ Cooling(c, last) = cool)
      <4>1. Answered(c, cool) = <<>>
        BY <3>2 DEF Answered
      <4>2. ToSet(<<>>) = {} /\ IsInjective(<<>>) /\ Len(<<>>) = 0 /\ <<>> \in Seq(Url)
        BY EmptySeq DEF ToSet, IsInjective
      <4>. QED
        BY <1>1, <3>2, <4>1, <4>2
    <3>. QED
      BY <3>1, <3>2
  <2>. DEFINE Part(cool) == Others(c, cool) \o Answered(c, cool)
  <2>3. ASSUME NEW cool \in BOOLEAN
        PROVE  /\ Part(cool) \in Seq(Url)
               /\ ToSet(Part(cool)) = {u \in ToSet(list) : Cooling(c, u) = cool}
               /\ IsInjective(list) => IsInjective(Part(cool))
    <3>1. ToSet(Others(c, cool)) \cap ToSet(Answered(c, cool)) = {}
      BY <2>1, <2>2
    <3>2. ToSet(Others(c, cool)) \cup ToSet(Answered(c, cool))
            = {u \in ToSet(list) : Cooling(c, u) = cool}
      BY <1>2, <2>1, <2>2
    <3>. QED
      BY <2>1, <2>2, <3>1, <3>2, Concatenated
  <2>4. \A i, j \in 1 .. Len(Part(FALSE)) : i < j => Part(FALSE)[i] # last
    <3>. DEFINE s == Others(c, FALSE)
                t == Answered(c, FALSE)
    <3>1. s \in Seq(Url) /\ t \in Seq(Url) /\ Len(t) <= 1 /\ last \notin ToSet(s)
      BY <2>1, <2>2
    <3>. HIDE DEF s, t
    <3>2. \A i, j \in 1 .. Len(s \o t) : i < j => (s \o t)[i] # last
      <4>. SUFFICES ASSUME NEW i \in 1 .. Len(s \o t), NEW j \in 1 .. Len(s \o t), i < j
                    PROVE  (s \o t)[i] # last
        OBVIOUS
      <4>1. i \in 1 .. Len(s) /\ (s \o t)[i] = s[i]
        BY <3>1
      <4>. QED
        BY <3>1, <4>1 DEF ToSet
    <3>. QED
      BY <3>2 DEF s, t
  <2>. DEFINE rest == Part(FALSE)
              cold == Part(TRUE)
  <2>5. URLsToTry(c) = rest \o cold
    BY <1>4 DEF URLsToTry
  <2>6. /\ rest \in Seq(Url) /\ cold \in Seq(Url)
        /\ ToSet(rest) = ToSet(list) \ cooling /\ ToSet(cold) = cooling
        /\ IsInjective(list) => IsInjective(rest) /\ IsInjective(cold)
        /\ \A i, j \in 1 .. Len(rest) : i < j => rest[i] # last
    <3>1. /\ {u \in ToSet(list) : Cooling(c, u) = FALSE} = ToSet(list) \ cooling
          /\ {u \in ToSet(list) : Cooling(c, u) = TRUE} = cooling
      BY DEF Cooling
    <3>. HIDE DEF Part, cooling
    <3>2. /\ Part(FALSE) \in Seq(Url) /\ ToSet(Part(FALSE)) = ToSet(list) \ cooling
          /\ IsInjective(list) => IsInjective(Part(FALSE))
      BY <2>3, <3>1
    <3>3. /\ Part(TRUE) \in Seq(Url) /\ ToSet(Part(TRUE)) = cooling
          /\ IsInjective(list) => IsInjective(Part(TRUE))
      BY <2>3, <3>1
    <3>. QED
      BY <2>4, <3>2, <3>3
  <2>. HIDE DEF rest, cold, Part
  <2>7. /\ rest \o cold \in Seq(Url) /\ ToSet(rest \o cold) = ToSet(list)
        /\ IsInjective(list) => IsInjective(rest \o cold)
    <3>1. ToSet(rest) \cap ToSet(cold) = {} /\ ToSet(rest) \cup ToSet(cold) = ToSet(list)
      BY <2>6
    <3>. QED
      BY <2>6, <3>1, Concatenated
  <2>8. InOrder(rest \o cold, cooling, last)
    <3>. DEFINE q == rest \o cold
    <3>1. /\ Len(q) = Len(rest) + Len(cold) /\ Len(rest) \in Nat /\ Len(cold) \in Nat
          /\ \A i \in 1 .. Len(q) : q[i] = IF i <= Len(rest) THEN rest[i] ELSE cold[i - Len(rest)]
      BY <2>6, ConcatProperties, LenProperties
    <3>. HIDE DEF q
    <3>2. ASSUME NEW i \in 1 .. Len(q), NEW j \in 1 .. Len(q), i < j,
                 q[i] \in cooling \/ q[i] = last
          PROVE  q[j] \in cooling
      <4>1. CASE j <= Len(rest)
        <5>1. i \in 1 .. Len(rest) /\ j \in 1 .. Len(rest) /\ q[i] = rest[i]
          BY <3>1, <3>2, <4>1
        <5>2. rest[i] \in ToSet(rest)
          BY <2>6, <5>1 DEF ToSet
        <5>. QED
          BY <2>6, <3>2, <5>1, <5>2
      <4>2. CASE ~(j <= Len(rest))
        <5>1. j - Len(rest) \in 1 .. Len(cold) /\ q[j] = cold[j - Len(rest)]
          BY <3>1, <4>2
        <5>2. q[j] \in ToSet(cold)
          BY <2>6, <5>1 DEF ToSet
        <5>. QED
          BY <2>6, <5>2
      <4>. QED
        BY <4>1, <4>2
    <3>. QED
      BY <3>2 DEF InOrder, q
  <2>. QED
    BY <1>4, <2>5, <2>7, <2>8
<1>. QED
  BY <1>3, <1>4

-----------------------------------------------------------------------------
(***************************************************************************)
(* The inductive invariant.                                                *)
(***************************************************************************)

\* The call of g goes through a client it may use, has every URL before it or behind
\* it, and asks them in order.  The local validator's URL is the only one of its client.
CallOK(g) ==
    /\ call[g].client \in Uses(g) \cup {"none"}
    /\ call[g].writing => Calling(g) /\ call[g].queue # <<>>
    /\ Calling(g) =>
         /\ ToSet(call[g].queue) \cup call[g].failed = UrlsOf(g)
         /\ IsInjective(urls[call[g].client]) =>
              /\ IsInjective(call[g].queue)
              /\ ToSet(call[g].queue) \cap call[g].failed = {}
         /\ call[g].client = "local" => Len(call[g].queue) <= 1
         /\ InOrder(call[g].queue, call[g].cooling, lastSuccessful[call[g].client])

ClientIInv ==
    /\ ClientTypeOK
    /\ urls["local"] = <<LocalUrl>> /\ \A c \in Client : ClientOK(c)
    /\ \A g \in Goroutine : CallOK(g)

\* What the invariant says of one call and its client.
LEMMA CallFacts ==
    ASSUME ClientIInv, NEW g \in Goroutine
    PROVE  /\ call[g] \in Call /\ Uses(g) \subseteq Client
           /\ Calling(g) => call[g].client \in Client /\ ClientOK(call[g].client)
BY DEF ClientIInv, ClientTypeOK, CallOK, Uses, Client, Calling

\* The URLs that no call has begun to ask are in order.
LEMMA IdleCalls ==
    ASSUME NEW g \in Goroutine
    PROVE  NoCalls[g] = NoCall /\ NoCall \in Call /\ NoCall.client = "none" /\ ~NoCall.writing
<1>1. <<>> \in Seq(Url)
  BY EmptySeq
<1>. QED
  BY <1>1 DEF NoCalls, NoCall, Call

\* Every client has URLs, none of which is the empty one.
LEMMA UrlListsOK ==
    \A list \in UrlLists \cup {<<LocalUrl>>} :
        list \in Seq(Url) \ {<<>>} /\ NoUrl \notin ToSet(list)
<1>1. ASSUME NEW list \in UrlLists PROVE list \in Seq(Url) \ {<<>>} /\ NoUrl \notin ToSet(list)
  <2>1. list \in Seq(ToSet(list)) \ {<<>>} /\ NoUrl \notin ToSet(list)
    BY ClientAssumption
  <2>2. ToSet(list) \subseteq Url
    BY DEF Url
  <2>. QED
    BY <2>1, <2>2, SeqMonotonic
<1>2. <<LocalUrl>> \in Seq(Url) \ {<<>>} /\ NoUrl \notin ToSet(<<LocalUrl>>)
  <2>1. LocalUrl \in Url /\ LocalUrl # NoUrl
    BY ClientAssumption DEF Url
  <2>. QED
    BY <2>1 DEF ToSet
<1>. QED
  BY <1>1, <1>2

\* NewClient establishes the invariant.
LEMMA ClientInitOK == ClientInit => ClientIInv
<1>. SUFFICES ASSUME ClientInit PROVE ClientIInv
  OBVIOUS
<1>1. ClientTypeOK
  BY IdleCalls, ClientAssumption
     DEF ClientInit, ClientTypeOK, NoSuccess, NoCooldown, NoCalls
<1>2. ASSUME NEW c \in Client PROVE ClientOK(c)
  <2>1. urls[c] \in UrlLists \cup {<<LocalUrl>>} /\ lastSuccessful[c] = NoUrl
    BY DEF ClientInit, NoSuccess
  <2>. QED
    BY <2>1, UrlListsOK DEF ClientOK
<1>3. ASSUME NEW g \in Goroutine PROVE CallOK(g)
  BY IdleCalls DEF ClientInit, CallOK, Calling
<1>. QED
  BY <1>1, <1>2, <1>3 DEF ClientInit, ClientIInv

\* A goroutine that begins a call, or ends one.
LEMMA BeginCallOK ==
    ASSUME ClientIInv, NEW g \in Goroutine, NEW c \in Client, BeginCall(g, c)
    PROVE  ClientIInv'
<1>. DEFINE new == [NoCall EXCEPT !.client = c, !.queue = URLsToTry(c),
                                  !.cooling = {u \in ToSet(urls[c]) : Cooling(c, u)}]
<1>1. /\ c \in Uses(g) /\ call' = [call EXCEPT ![g] = new]
      /\ UNCHANGED <<urls, lastSuccessful, cooldown>>
  BY DEF BeginCall
<1>2. ClientOK(c) /\ c # "none"
  BY DEF ClientIInv, Client
<1>3. /\ new.client = c /\ new.queue = URLsToTry(c) /\ new.failed = {} /\ ~new.writing
      /\ new.cooling = {u \in ToSet(urls[c]) : Cooling(c, u)}
  BY DEF NoCall
<1>4. new \in Call
  <2>1. URLsToTry(c) \in Seq(Url)
    BY <1>2, URLsInOrder
  <2>2. ToSet(urls[c]) \subseteq Url
    BY <1>2 DEF ClientOK, ToSet
  <2>. QED
    BY <2>1, <2>2 DEF NoCall, Call
<1>. HIDE DEF new
<1>5. ClientTypeOK'
  BY <1>1, <1>4 DEF ClientIInv, ClientTypeOK
<1>6. CallOK(g)'
  <2>1. call'[g] = new /\ call[g] \in Call
    BY <1>1 DEF ClientIInv, ClientTypeOK
  <2>2. c = "local" => Len(urls[c]) <= 1
    <3>1. Len(<<LocalUrl>>) = 1
      OBVIOUS
    <3>2. urls["local"] = <<LocalUrl>>
      BY DEF ClientIInv
    <3>3. Len(urls["local"]) <= 1
      BY <3>1, <3>2
    <3>. QED
      BY <3>3
  <2>. QED
    BY <1>1, <1>2, <1>3, <2>1, <2>2, URLsInOrder DEF CallOK, Calling, UrlsOf
<1>7. ASSUME NEW h \in Goroutine, h # g PROVE CallOK(h)'
  <2>1. call'[h] = call[h]
    BY <1>1, <1>7 DEF ClientIInv, ClientTypeOK
  <2>. QED
    BY <1>1, <2>1 DEF ClientIInv, CallOK, Calling, UrlsOf
<1>. QED
  BY <1>1, <1>5, <1>6, <1>7 DEF ClientIInv, ClientOK

\* The call of a goroutine that asks the next URL stays in order.
LEMMA TryNextOK ==
    ASSUME ClientIInv, NEW g \in Goroutine, Calling(g), call[g].queue # <<>>, TryNext(g),
           UNCHANGED <<urls, lastSuccessful>>,
           cooldown' \in [Client -> [Url -> 0 .. Cooldown]]
    PROVE  ClientIInv'
<1>. DEFINE q == call[g].queue
            new == [call[g] EXCEPT !.queue = Tail(q), !.failed = @ \cup {Head(q)},
                                   !.writing = FALSE]
<1>1. call[g] \in Call /\ q \in Seq(Url) /\ q # <<>> /\ call[g].client \in Client
  BY CallFacts DEF Call
<1>2. call' = [call EXCEPT ![g] = new]
  BY DEF TryNext, ClientIInv, ClientTypeOK, Call
<1>3. /\ new.client = call[g].client /\ new.queue = Tail(q)
      /\ new.failed = call[g].failed \cup {Head(q)}
      /\ ~new.writing /\ new.cooling = call[g].cooling
  BY <1>1 DEF Call
<1>4. new \in Call
  <2>1. Tail(q) \in Seq(Url) /\ Head(q) \in Url
    BY <1>1, Taken
  <2>. QED
    BY <1>1, <2>1 DEF Call
<1>. HIDE DEF new
<1>5. ClientTypeOK'
  BY <1>2, <1>4 DEF ClientIInv, ClientTypeOK
<1>6. CallOK(g)'
  <2>1. call'[g] = new
    BY <1>2 DEF ClientIInv, ClientTypeOK
  <2>2. /\ ToSet(q) = {Head(q)} \cup ToSet(Tail(q)) /\ Len(Tail(q)) = Len(q) - 1
        /\ IsInjective(q) => IsInjective(Tail(q)) /\ Head(q) \notin ToSet(Tail(q))
        /\ Len(q) \in Nat
        /\ \A i \in 1 .. Len(Tail(q)) : Tail(q)[i] = q[i + 1]
    BY <1>1, Taken
  <2>3. /\ ToSet(q) \cup call[g].failed = UrlsOf(g)
        /\ IsInjective(urls[call[g].client]) =>
             IsInjective(q) /\ ToSet(q) \cap call[g].failed = {}
        /\ call[g].client = "local" => Len(q) <= 1
        /\ InOrder(q, call[g].cooling, lastSuccessful[call[g].client])
        /\ call[g].client \in Uses(g)
    BY DEF ClientIInv, CallOK, Calling
  <2>. HIDE DEF q
  <2>4. InOrder(Tail(q), call[g].cooling, lastSuccessful[call[g].client])
    <3>. SUFFICES ASSUME NEW i \in 1 .. Len(Tail(q)), NEW j \in 1 .. Len(Tail(q)), i < j,
                         \/ Tail(q)[i] \in call[g].cooling
                         \/ Tail(q)[i] = lastSuccessful[call[g].client]
                  PROVE  Tail(q)[j] \in call[g].cooling
      BY DEF InOrder
    <3>1. /\ i + 1 \in 1 .. Len(q) /\ j + 1 \in 1 .. Len(q) /\ i + 1 < j + 1
          /\ Tail(q)[i] = q[i + 1] /\ Tail(q)[j] = q[j + 1]
      BY <2>2
    <3>. QED
      BY <2>3, <3>1 DEF InOrder
  <2>5. /\ UrlsOf(g)' = UrlsOf(g)
        /\ ToSet(Tail(q)) \cup (call[g].failed \cup {Head(q)}) = UrlsOf(g)
    BY <1>3, <2>1, <2>2, <2>3 DEF UrlsOf
  <2>6. IsInjective(urls[call[g].client]) =>
          /\ IsInjective(Tail(q))
          /\ ToSet(Tail(q)) \cap (call[g].failed \cup {Head(q)}) = {}
    BY <2>2, <2>3
  <2>7. call[g].client = "local" => Len(Tail(q)) <= 1
    BY <2>2, <2>3
  <2>. QED
    BY <1>3, <2>1, <2>3, <2>4, <2>5, <2>6, <2>7 DEF CallOK, Calling, Uses
<1>7. ASSUME NEW h \in Goroutine, h # g PROVE CallOK(h)'
  <2>1. call'[h] = call[h]
    BY <1>2, <1>7 DEF ClientIInv, ClientTypeOK
  <2>. QED
    BY <2>1 DEF ClientIInv, CallOK, Calling, UrlsOf
<1>. QED
  BY <1>5, <1>6, <1>7 DEF ClientIInv, ClientOK

\* The other goroutine's call is in order whatever this one's answer was: they share
\* only the client of the local validator, which has but one URL.
LEMMA SucceedOK ==
    ASSUME ClientIInv, NEW g \in Goroutine, Succeed(g)
    PROVE  ClientIInv'
<1>. DEFINE c == call[g].client
            u == Head(call[g].queue)
<1>1. /\ call[g] \in Call /\ call[g].queue \in Seq(Url) /\ call[g].queue # <<>>
      /\ c \in Client /\ c \in Uses(g) /\ ClientOK(c)
  BY CallFacts DEF Succeed, Trying, Call, ClientIInv, CallOK, Calling
<1>2. u \in ToSet(call[g].queue) /\ u \in Url
  BY <1>1, Taken
<1>3. u \in ToSet(urls[c])
  BY <1>2 DEF Succeed, Trying, ClientIInv, CallOK, UrlsOf
<1>4. /\ lastSuccessful' = [lastSuccessful EXCEPT ![c] = u]
      /\ call' = [call EXCEPT ![g] = NoCall] /\ UNCHANGED <<urls, cooldown>>
  BY DEF Succeed
<1>5. ClientTypeOK'
  BY <1>1, <1>2, <1>4, IdleCalls DEF ClientIInv, ClientTypeOK
<1>6. \A d \in Client : ClientOK(d)'
  BY <1>3, <1>4 DEF ClientIInv, ClientTypeOK, ClientOK
<1>. HIDE DEF c, u
<1>7. CallOK(g)'
  <2>1. call'[g] = NoCall
    BY <1>4 DEF ClientIInv, ClientTypeOK
  <2>. QED
    BY <2>1, IdleCalls DEF CallOK, Calling
<1>8. ASSUME NEW h \in Goroutine, h # g PROVE CallOK(h)'
  <2>1. call'[h] = call[h] /\ call[h] \in Call
    BY <1>4, <1>8 DEF ClientIInv, ClientTypeOK
  <2>2. CASE call[h].client # c
    <3>1. Calling(h) => lastSuccessful'[call[h].client] = lastSuccessful[call[h].client]
      BY <1>4, <2>2, CallFacts DEF ClientIInv, ClientTypeOK
    <3>. QED
      BY <1>4, <2>1, <3>1 DEF ClientIInv, CallOK, Calling, UrlsOf
  <2>3. CASE call[h].client = c
    <3>1. c = "local" /\ Calling(h)
      BY <1>1, <1>8, <2>3 DEF ClientIInv, CallOK, Uses, Goroutine, Client, Calling
    <3>2. Len(call[h].queue) <= 1 /\ Len(call[h].queue) \in Nat
      BY <2>1, <2>3, <3>1, LenProperties DEF ClientIInv, CallOK, Call
    <3>3. InOrder(call[h].queue, call[h].cooling, lastSuccessful'[call[h].client])
      BY <3>2 DEF InOrder
    <3>. QED
      BY <1>4, <2>1, <3>3 DEF ClientIInv, CallOK, Calling, UrlsOf
  <2>. QED
    BY <2>2, <2>3
<1>. QED
  BY <1>4, <1>5, <1>6, <1>7, <1>8 DEF ClientIInv

\* Every step keeps the invariant.
LEMMA ClientStepOK == ClientIInv /\ [ClientNext]_clientVars => ClientIInv'
<1>. SUFFICES ASSUME ClientIInv, [ClientNext]_clientVars PROVE ClientIInv'
  OBVIOUS
<1>1. ASSUME NEW g \in Goroutine, NEW c \in Client, BeginCall(g, c) PROVE ClientIInv'
  BY <1>1, BeginCallOK
<1>2. ASSUME NEW g \in Goroutine, Succeed(g) PROVE ClientIInv'
  BY <1>2, SucceedOK
<1>3. ASSUME NEW g \in Goroutine, Fail(g) PROVE ClientIInv'
  BY <1>3, TryNextOK DEF Fail, Trying, ClientIInv, ClientTypeOK
<1>4. ASSUME NEW g \in Goroutine, Refuse(g) PROVE ClientIInv'
  <2>1. /\ UNCHANGED <<urls, lastSuccessful, cooldown>>
        /\ call' = [call EXCEPT ![g].writing = TRUE] /\ Calling(g) /\ call[g].queue # <<>>
    BY <1>4 DEF Refuse, Trying
  <2>2. ClientTypeOK'
    BY <2>1 DEF ClientIInv, ClientTypeOK, Call
  <2>3. ASSUME NEW h \in Goroutine
        PROVE  /\ call'[h].client = call[h].client /\ call'[h].queue = call[h].queue
               /\ call'[h].failed = call[h].failed /\ call'[h].cooling = call[h].cooling
               /\ call'[h].writing = (call[h].writing \/ h = g)
    BY <2>1 DEF ClientIInv, ClientTypeOK, Call
  <2>4. ASSUME NEW h \in Goroutine PROVE CallOK(h)'
    BY <2>1, <2>3 DEF ClientIInv, CallOK, Calling, UrlsOf
  <2>. QED
    BY <2>1, <2>2, <2>4 DEF ClientIInv, ClientOK
<1>5. ASSUME NEW g \in Goroutine, CoolDown(g) PROVE ClientIInv'
  <2>1. call[g].writing /\ TryNext(g) /\ UNCHANGED <<urls, lastSuccessful>>
    BY <1>5 DEF CoolDown
  <2>2. Calling(g) /\ call[g].queue # <<>>
    BY <2>1 DEF ClientIInv, CallOK
  <2>3. cooldown' \in [Client -> [Url -> 0 .. Cooldown]]
    <3>. DEFINE c == call[g].client
                u == Head(call[g].queue)
    <3>1. cooldown' = [cooldown EXCEPT ![c] = [cooldown[c] EXCEPT ![u] = Cooldown]]
      BY <1>5 DEF CoolDown
    <3>2. cooldown \in [Client -> [Url -> 0 .. Cooldown]] /\ c \in Client
      BY <2>2, CallFacts DEF ClientIInv, ClientTypeOK
    <3>. HIDE DEF c, u
    <3>3. Cooldown \in 0 .. Cooldown
      BY ClientAssumption
    <3>4. cooldown[c] \in [Url -> 0 .. Cooldown]
      BY <3>2
    <3>5. [cooldown[c] EXCEPT ![u] = Cooldown] \in [Url -> 0 .. Cooldown]
      BY <3>3, <3>4
    <3>. QED
      BY <3>1, <3>2, <3>5
  <2>. QED
    BY <2>1, <2>2, <2>3, TryNextOK
<1>6. ASSUME NEW g \in Goroutine, GiveUp(g) PROVE ClientIInv'
  <2>1. UNCHANGED <<urls, lastSuccessful, cooldown>> /\ call' = [call EXCEPT ![g] = NoCall]
    BY <1>6 DEF GiveUp
  <2>2. ClientTypeOK'
    BY <2>1, IdleCalls DEF ClientIInv, ClientTypeOK
  <2>3. ASSUME NEW h \in Goroutine PROVE CallOK(h)'
    <3>1. call'[h] = IF h = g THEN NoCall ELSE call[h]
      BY <2>1 DEF ClientIInv, ClientTypeOK
    <3>2. CASE h = g
      BY <3>1, <3>2, IdleCalls DEF CallOK, Calling
    <3>3. CASE h # g
      BY <2>1, <3>1, <3>3 DEF ClientIInv, CallOK, Calling, UrlsOf
    <3>. QED
      BY <3>2, <3>3
  <2>. QED
    BY <2>1, <2>2, <2>3 DEF ClientIInv, ClientOK
<1>7. CASE Throw
  <2>1. /\ lastSuccessful' = NoSuccess /\ cooldown' = NoCooldown /\ call' = NoCalls
        /\ urls' = urls
    BY <1>7 DEF Throw
  <2>2. ClientTypeOK'
    BY <2>1, IdleCalls, ClientAssumption DEF ClientTypeOK, NoSuccess, NoCooldown, NoCalls
  <2>3. \A c \in Client : ClientOK(c)'
    BY <2>1 DEF ClientIInv, ClientOK, NoSuccess
  <2>4. \A g \in Goroutine : CallOK(g)'
    BY <2>1, IdleCalls DEF CallOK, Calling
  <2>. QED
    BY <2>1, <2>2, <2>3, <2>4 DEF ClientIInv
<1>8. CASE Tick
  <2>1. /\ UNCHANGED <<urls, lastSuccessful, call>>
        /\ cooldown' = [c \in Client |-> [u \in Url |->
                          IF Cooling(c, u) THEN cooldown[c][u] - 1 ELSE 0]]
    BY <1>8 DEF Tick
  <2>2. cooldown' \in [Client -> [Url -> 0 .. Cooldown]]
    BY <2>1, ClientAssumption DEF ClientIInv, ClientTypeOK, Cooling
  <2>. QED
    BY <2>1, <2>2 DEF ClientIInv, ClientTypeOK, ClientOK, CallOK, Calling, UrlsOf
<1>9. CASE UNCHANGED clientVars
  BY <1>9 DEF clientVars, ClientIInv, ClientTypeOK, ClientOK, CallOK, Calling, UrlsOf
<1>. QED
  BY <1>1, <1>2, <1>3, <1>4, <1>5, <1>6, <1>7, <1>8, <1>9 DEF ClientNext, Attempt

\* The invariant holds in every behaviour of the clients.
THEOREM ClientIInvAlways == ClientSpec => []ClientIInv
BY ClientInitOK, ClientStepOK, PTL DEF ClientSpec

-----------------------------------------------------------------------------
(***************************************************************************)
(* What it is for.                                                         *)
(***************************************************************************)

\* The clients and their calls keep their types: a cooldown never outlasts
\* urlCooldownDuration, however often a URL refuses.
THEOREM ClientTypeCorrect == ClientSpec => []ClientTypeOK
<1>1. ClientIInv => ClientTypeOK
  BY DEF ClientIInv
<1>. QED
  BY <1>1, ClientIInvAlways, PTL

\* executeWithRetry leaves no URL out and tries none twice, for any list of URLs and
\* whatever happens to the cooldowns and to the last URL to answer meanwhile.
THEOREM AllTried == ClientSpec => []EachTried
<1>1. ClientIInv => EachTried
  BY DEF ClientIInv, CallOK, EachTried
<1>. QED
  BY <1>1, ClientIInvAlways, PTL

\* A URL that was cooling down when the call began is asked only when all others
\* have failed.
THEOREM CoolingLast == ClientSpec => []CoolingAskedLast
<1>1. ClientIInv => CoolingAskedLast
  <2>. SUFFICES ASSUME ClientIInv, NEW g \in Goroutine, Trying(g),
                       Head(call[g].queue) \in call[g].cooling,
                       NEW u \in UrlsOf(g), u \notin call[g].cooling, u \notin call[g].failed
                PROVE  FALSE
    BY DEF CoolingAskedLast
  <2>. DEFINE q == call[g].queue
  <2>1. q \in Seq(Url) /\ q # <<>> /\ Calling(g)
    BY CallFacts DEF Trying, Call
  <2>2. u \in ToSet(q) /\ InOrder(q, call[g].cooling, lastSuccessful[call[g].client])
    BY <2>1 DEF ClientIInv, CallOK
  <2>. HIDE DEF q
  <2>3. PICK j \in 1 .. Len(q) : u = q[j]
    BY <2>1, <2>2 DEF ToSet
  <2>4. Head(q) = q[1] /\ 1 \in 1 .. Len(q)
    BY <2>1, Taken, EmptySeq
  <2>5. q[1] \in call[g].cooling
    BY <2>4 DEF q
  <2>6. 1 < j
    BY <2>3, <2>5
  <2>. QED
    BY <2>2, <2>3, <2>4, <2>5, <2>6 DEF InOrder
<1>. QED
  BY <1>1, ClientIInvAlways, PTL

\* The unlocked map of the cooldowns is written by two goroutines at once only in the
\* client of the local validator.
THEOREM RacesOnlyLocally == ClientSpec => []RaceOnlyLocally
<1>1. ClientIInv => RaceOnlyLocally
  <2>. SUFFICES ASSUME ClientIInv, NEW c \in Client, \A g \in Goroutine : call[g].client = c
                PROVE  c = "local"
    BY DEF RaceOnlyLocally, Racing
  <2>1. call["tracker"].client \in {"local", "none"}
    BY DEF ClientIInv, CallOK, Uses, Goroutine
  <2>. QED
    BY <2>1 DEF Goroutine, Client
<1>. QED
  BY <1>1, ClientIInvAlways, PTL

\* A URL answers twice in a row only when all others failed or were cooling down.
THEOREM SpreadsLoad == ClientSpec => LoadSpread
<1>. DEFINE Spread == \A g \in Goroutine : Succeed(g) /\ lastSuccessful' = lastSuccessful
         => UrlsOf(g) \ {Head(call[g].queue)} \subseteq call[g].failed \cup call[g].cooling
<1>1. ClientIInv => Spread
  <2>. SUFFICES ASSUME ClientIInv, NEW g \in Goroutine, Succeed(g),
                       lastSuccessful' = lastSuccessful,
                       NEW u \in UrlsOf(g), u # Head(call[g].queue), u \notin call[g].failed
                PROVE  u \in call[g].cooling
    OBVIOUS
  <2>. DEFINE q == call[g].queue
              last == lastSuccessful[call[g].client]
  <2>1. /\ q \in Seq(Url) /\ q # <<>> /\ Calling(g) /\ call[g].client \in Client
    BY CallFacts DEF Succeed, Trying, Call
  <2>2. last = Head(q)
    BY <2>1 DEF Succeed, ClientIInv, ClientTypeOK
  <2>3. u \in ToSet(q) /\ InOrder(q, call[g].cooling, last)
    BY <2>1 DEF ClientIInv, CallOK
  <2>4. u # Head(q)
    OBVIOUS
  <2>. HIDE DEF q, last
  <2>5. PICK j \in 1 .. Len(q) : u = q[j]
    BY <2>1, <2>3 DEF ToSet
  <2>6. Head(q) = q[1] /\ 1 \in 1 .. Len(q)
    BY <2>1, Taken, EmptySeq
  <2>7. 1 < j
    BY <2>4, <2>5, <2>6
  <2>. QED
    BY <2>2, <2>3, <2>5, <2>6, <2>7 DEF InOrder
<1>. QED
  BY <1>1, ClientIInvAlways, PTL DEF LoadSpread

\* A call that returns an error has asked every URL of its client.
THEOREM ErrorsMeanAllFailed == ClientSpec => ErrorMeansAllFailed
<1>. DEFINE Failed == \A g \in Goroutine : GiveUp(g) => call[g].failed = UrlsOf(g)
<1>1. ClientIInv => Failed
  <2>. SUFFICES ASSUME ClientIInv, NEW g \in Goroutine, GiveUp(g)
                PROVE  call[g].failed = UrlsOf(g)
    OBVIOUS
  <2>1. ToSet(<<>>) = {}
    BY DEF ToSet
  <2>. QED
    BY <2>1 DEF GiveUp, ClientIInv, CallOK
<1>. QED
  BY <1>1, ClientIInvAlways, PTL DEF ErrorMeansAllFailed
=============================================================================
