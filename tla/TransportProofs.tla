---------------------------- MODULE TransportProofs ----------------------------
(***************************************************************************)
(* Proofs about what carries messages between the parts of the system.     *)
(*                                                                         *)
(* The pool of connections is as its last list wants it and passes nobody  *)
(* by; the UDP reactor's handler of an address gets the data of one        *)
(* session; over a TCP connection the bytes of a message come once and in  *)
(* order, and frames are whole messages.  The lemmas about sequences that  *)
(* the three share come first.                                             *)
(***************************************************************************)
EXTENDS ConnPool, UdpReactor, Transfer, FiniteSetTheorems, SequenceTheorems, TLAPS

-------------------------------------------------------------------------------
(* Sequences *)

\* What SubSeq returns when a sequence is cut in two.
LEMMA CutItems ==
  ASSUME NEW S, NEW p \in Seq(S), NEW n \in 0 .. Len(p)
  PROVE  /\ SubSeq(p, 1, n) \in Seq(S) /\ Len(SubSeq(p, 1, n)) = n
         /\ \A i \in 1 .. n : SubSeq(p, 1, n)[i] = p[i]
         /\ SubSeq(p, n + 1, Len(p)) \in Seq(S) /\ Len(SubSeq(p, n + 1, Len(p))) = Len(p) - n
         /\ \A i \in 1 .. Len(p) - n : SubSeq(p, n + 1, Len(p))[i] = p[n + i]
<1>1. Len(p) \in Nat /\ \A i \in 1 .. Len(p) : p[i] \in S
  OBVIOUS
<1>. DEFINE a == SubSeq(p, 1, n)
            b == SubSeq(p, n + 1, Len(p))
<1>2. a \in Seq(S) /\ Len(a) = n /\ \A i \in 1 .. n : a[i] = p[i]
  <2>1. \A i \in 1 .. n : p[i] \in S
    BY <1>1
  <2>. QED
    BY <1>1, <2>1, SubSeqProperties
<1>3. b \in Seq(S) /\ Len(b) = Len(p) - n /\ \A i \in 1 .. Len(p) - n : b[i] = p[n + i]
  <2>1. \A i \in n + 1 .. Len(p) : p[i] \in S
    BY <1>1
  <2>2. n + 1 \in Int /\ Len(p) \in Int
    BY <1>1
  <2>3. /\ b \in Seq(S)
        /\ Len(b) = IF n + 1 <= Len(p) THEN Len(p) - (n + 1) + 1 ELSE 0
        /\ \A i \in 1 .. Len(p) - (n + 1) + 1 : b[i] = p[n + 1 + i - 1]
    BY <2>1, <2>2, SubSeqProperties
  <2>. HIDE DEF b
  <2>4. Len(b) = Len(p) - n
    BY <1>1, <2>3
  <2>5. ASSUME NEW i \in 1 .. Len(p) - n PROVE b[i] = p[n + i]
    <3>1. i \in 1 .. Len(p) - (n + 1) + 1 /\ n + 1 + i - 1 = n + i
      BY <1>1
    <3>2. b[i] = p[n + 1 + i - 1]
      BY <2>3, <3>1
    <3>. QED
      BY <3>1, <3>2
  <2>. QED
    BY <2>3, <2>4, <2>5
<1>. QED
  BY <1>2, <1>3

LEMMA ConcatItems ==
  ASSUME NEW S, NEW p \in Seq(S), NEW q \in Seq(S)
  PROVE  /\ p \o q \in Seq(S) /\ Len(p \o q) = Len(p) + Len(q)
         /\ \A i \in 1 .. Len(p) : (p \o q)[i] = p[i]
         /\ \A i \in 1 .. Len(q) : (p \o q)[Len(p) + i] = q[i]
<1>1. Len(p) \in Nat /\ Len(q) \in Nat
  OBVIOUS
<1>2. /\ p \o q \in Seq(S) /\ Len(p \o q) = Len(p) + Len(q)
      /\ \A i \in 1 .. Len(p) + Len(q) : (p \o q)[i] = IF i <= Len(p) THEN p[i] ELSE q[i - Len(p)]
  BY ConcatProperties
<1>3. ASSUME NEW i \in 1 .. Len(q) PROVE (p \o q)[Len(p) + i] = q[i]
  <2>1. Len(p) + i \in 1 .. Len(p) + Len(q) /\ ~(Len(p) + i <= Len(p)) /\ Len(p) + i - Len(p) = i
    BY <1>1
  <2>. QED
    BY <1>2, <2>1
<1>. QED
  BY <1>1, <1>2, <1>3

\* Bytes that go from the pipe to the reader stay in the stream.
LEMMA Moved ==
  ASSUME NEW S, NEW q \in Seq(S), NEW p \in Seq(S), NEW n \in 0 .. Len(p)
  PROVE  (q \o SubSeq(p, 1, n)) \o SubSeq(p, n + 1, Len(p)) = q \o p
<1>. DEFINE a == SubSeq(p, 1, n)
            b == SubSeq(p, n + 1, Len(p))
<1>1. /\ a \in Seq(S) /\ Len(a) = n /\ \A i \in 1 .. n : a[i] = p[i]
      /\ b \in Seq(S) /\ Len(b) = Len(p) - n /\ \A i \in 1 .. Len(p) - n : b[i] = p[n + i]
  BY CutItems
<1>2. Len(p) \in Nat
  OBVIOUS
<1>. HIDE DEF a, b
<1>3. /\ a \o b \in Seq(S) /\ Len(a \o b) = Len(p)
      /\ \A i \in 1 .. n : (a \o b)[i] = a[i]
      /\ \A i \in 1 .. Len(p) - n : (a \o b)[n + i] = b[i]
  BY <1>1, <1>2, ConcatItems
<1>4. ASSUME NEW i \in 1 .. Len(p) PROVE (a \o b)[i] = p[i]
  <2>1. CASE i <= n
    BY <1>1, <1>2, <1>3, <2>1
  <2>2. CASE ~(i <= n)
    <3>1. i - n \in 1 .. Len(p) - n /\ n + (i - n) = i
      BY <1>2, <2>2
    <3>2. (a \o b)[n + (i - n)] = b[i - n] /\ b[i - n] = p[n + (i - n)]
      BY <1>1, <1>3, <3>1
    <3>. QED
      BY <3>1, <3>2
  <2>. QED
    BY <2>1, <2>2
<1>5. a \o b = p
  BY <1>3, <1>4, SeqEqual
<1>6. (q \o a) \o b = q \o (a \o b)
  <2>1. a \in Seq(S) /\ b \in Seq(S)
    BY <1>1
  <2>2. \A t, u \in Seq(S) : (q \o t) \o u = q \o (t \o u)
    BY ConcatAssociative, SMTT(20)
  <2>. QED
    BY <2>1, <2>2
<1>. QED
  BY <1>5, <1>6 DEF a, b

LEMMA InSet ==
  ASSUME NEW S, NEW s \in Seq(S)
  PROVE  /\ ToSet(s) \subseteq S
         /\ \A i \in 1 .. Len(s) : s[i] \in ToSet(s)
         /\ \A e \in ToSet(s) : \E i \in 1 .. Len(s) : s[i] = e
BY DEF ToSet

LEMMA AppendSet ==
  ASSUME NEW S, NEW s \in Seq(S), NEW e \in S
  PROVE  /\ Append(s, e) \in Seq(S)
         /\ Len(Append(s, e)) = Len(s) + 1
         /\ \A i \in 1 .. Len(s) : Append(s, e)[i] = s[i]
         /\ ToSet(Append(s, e)) = ToSet(s) \cup {e}
         /\ IsInjective(s) /\ e \notin ToSet(s) => IsInjective(Append(s, e))
<1>. DEFINE a == Append(s, e)
<1>1. a \in Seq(S) /\ Len(a) = Len(s) + 1 /\ DOMAIN a = 1 .. Len(s) + 1 /\ DOMAIN s = 1 .. Len(s)
  OBVIOUS
<1>2. \A i \in 1 .. Len(s) + 1 : a[i] = IF i = Len(s) + 1 THEN e ELSE s[i]
  OBVIOUS
<1>. HIDE DEF a
<1>3. ToSet(a) = ToSet(s) \cup {e}
  <2>1. Len(s) \in Nat
    OBVIOUS
  <2>2. a[Len(s) + 1] = e
    BY <1>2, <2>1
  <2>. QED
    BY <1>1, <1>2, <2>1, <2>2 DEF ToSet
<1>4. IsInjective(s) /\ e \notin ToSet(s) => IsInjective(a)
  BY <1>1, <1>2 DEF IsInjective, ToSet
<1>5. \A i \in 1 .. Len(s) : a[i] = s[i]
  BY <1>2
<1>. QED
  BY <1>1, <1>3, <1>4, <1>5 DEF a

LEMMA TailSet ==
  ASSUME NEW S, NEW s \in Seq(S), s # <<>>
  PROVE  /\ Tail(s) \in Seq(S)
         /\ Head(s) \in ToSet(s)
         /\ ToSet(s) = {Head(s)} \cup ToSet(Tail(s))
<1>. DEFINE t == Tail(s)
<1>1. /\ t \in Seq(S) /\ Len(s) \in Nat \ {0} /\ DOMAIN t = 1 .. Len(s) - 1
      /\ DOMAIN s = 1 .. Len(s) /\ Head(s) = s[1]
  OBVIOUS
<1>2. \A i \in 1 .. Len(s) - 1 : t[i] = s[i + 1]
  OBVIOUS
<1>. HIDE DEF t
<1>3. ToSet(s) \subseteq {Head(s)} \cup ToSet(t)
  <2>. SUFFICES ASSUME NEW i \in 1 .. Len(s), i # 1 PROVE s[i] \in ToSet(t)
    BY <1>1 DEF ToSet
  <2>1. i - 1 \in DOMAIN t /\ t[i - 1] = s[i]
    BY <1>1, <1>2
  <2>. QED
    BY <2>1 DEF ToSet
<1>4. ToSet(t) \subseteq ToSet(s)
  <2>. SUFFICES ASSUME NEW i \in 1 .. Len(s) - 1 PROVE t[i] \in ToSet(s)
    BY <1>1 DEF ToSet
  <2>1. i + 1 \in DOMAIN s /\ t[i] = s[i + 1]
    BY <1>1, <1>2
  <2>. QED
    BY <2>1 DEF ToSet
<1>5. Head(s) \in ToSet(s)
  <2>1. 1 \in DOMAIN s
    BY <1>1
  <2>. QED
    BY <1>1, <2>1 DEF ToSet
<1>. QED
  BY <1>1, <1>3, <1>4, <1>5 DEF t

LEMMA RemoveAtItems ==
  ASSUME NEW S, NEW s \in Seq(S), NEW i \in 1 .. Len(s)
  PROVE  /\ RemoveAt(s, i) \in Seq(S)
         /\ Len(RemoveAt(s, i)) = Len(s) - 1
         /\ \A j \in 1 .. Len(s) - 1 : RemoveAt(s, i)[j] = IF j < i THEN s[j] ELSE s[j + 1]
<1>1. Len(s) \in Nat /\ i \in Nat /\ i >= 1 /\ i <= Len(s) /\ \A j \in 1 .. Len(s) : s[j] \in S
  OBVIOUS
<1>. DEFINE a == SubSeq(s, 1, i - 1)
            b == SubSeq(s, i + 1, Len(s))
<1>2. a \in Seq(S) /\ Len(a) = i - 1 /\ \A j \in 1 .. i - 1 : a[j] = s[j]
  <2>1. i - 1 \in 0 .. Len(s)
    BY <1>1
  <2>. QED
    BY <2>1, CutItems
<1>3. b \in Seq(S) /\ Len(b) = Len(s) - i /\ \A j \in 1 .. Len(s) - i : b[j] = s[i + j]
  <2>1. i \in 0 .. Len(s)
    BY <1>1
  <2>. QED
    BY <2>1, CutItems
<1>. HIDE DEF a, b
<1>4. /\ a \o b \in Seq(S) /\ Len(a \o b) = Len(a) + Len(b)
      /\ \A j \in 1 .. Len(a) + Len(b) : (a \o b)[j] = IF j <= Len(a) THEN a[j] ELSE b[j - Len(a)]
  BY <1>2, <1>3, ConcatProperties
<1>5. RemoveAt(s, i) = a \o b
  BY DEF RemoveAt, a, b
<1>6. Len(a) + Len(b) = Len(s) - 1
  BY <1>1, <1>2, <1>3
<1>7. ASSUME NEW j \in 1 .. Len(s) - 1
      PROVE  (a \o b)[j] = IF j < i THEN s[j] ELSE s[j + 1]
  <2>1. CASE j < i
    BY <1>1, <1>2, <1>4, <1>6, <2>1
  <2>2. CASE ~(j < i)
    <3>1. j - Len(a) \in 1 .. Len(s) - i /\ i + (j - Len(a)) = j + 1 /\ ~(j <= Len(a))
      BY <1>1, <1>2, <2>2
    <3>. QED
      BY <1>3, <1>4, <1>6, <2>2, <3>1
  <2>. QED
    BY <2>1, <2>2
<1>. QED
  BY <1>4, <1>5, <1>6, <1>7

LEMMA RemoveAtSet ==
  ASSUME NEW S, NEW s \in Seq(S), NEW i \in 1 .. Len(s)
  PROVE  /\ RemoveAt(s, i) \in Seq(S)
         /\ ToSet(s) \ {s[i]} \subseteq ToSet(RemoveAt(s, i))
         /\ ToSet(RemoveAt(s, i)) \subseteq ToSet(s)
         /\ IsInjective(s) => IsInjective(RemoveAt(s, i)) /\ s[i] \notin ToSet(RemoveAt(s, i))
<1>. DEFINE r == RemoveAt(s, i)
<1>1. Len(s) \in Nat /\ i \in Nat /\ i >= 1 /\ i <= Len(s) /\ DOMAIN s = 1 .. Len(s)
  OBVIOUS
<1>2. r \in Seq(S) /\ Len(r) = Len(s) - 1
  BY RemoveAtItems
<1>3. \A j \in 1 .. Len(s) - 1 : r[j] = IF j < i THEN s[j] ELSE s[j + 1]
  BY RemoveAtItems
<1>. HIDE DEF r
<1>4. DOMAIN r = 1 .. Len(s) - 1
  BY <1>2
<1>5. ToSet(s) \ {s[i]} \subseteq ToSet(r)
  <2>. SUFFICES ASSUME NEW j \in 1 .. Len(s), j # i PROVE s[j] \in ToSet(r)
    BY <1>1 DEF ToSet
  <2>. DEFINE k == IF j < i THEN j ELSE j - 1
  <2>1. k \in DOMAIN r /\ r[k] = s[j]
    BY <1>1, <1>3, <1>4
  <2>. QED
    BY <2>1 DEF ToSet
<1>6. ToSet(r) \subseteq ToSet(s)
  <2>. SUFFICES ASSUME NEW j \in 1 .. Len(s) - 1 PROVE r[j] \in ToSet(s)
    BY <1>4 DEF ToSet
  <2>1. j \in DOMAIN s /\ j + 1 \in DOMAIN s /\ r[j] \in {s[j], s[j + 1]}
    BY <1>1, <1>3
  <2>. QED
    BY <2>1 DEF ToSet
<1>7. ASSUME IsInjective(s) PROVE IsInjective(r)
  <2>. SUFFICES ASSUME NEW j \in 1 .. Len(s) - 1, NEW k \in 1 .. Len(s) - 1, r[j] = r[k] PROVE j = k
    BY <1>4 DEF IsInjective
  <2>. DEFINE at(n) == IF n < i THEN n ELSE n + 1
  <2>1. at(j) \in 1 .. Len(s) /\ at(k) \in 1 .. Len(s) /\ r[j] = s[at(j)] /\ r[k] = s[at(k)]
    BY <1>1, <1>3
  <2>2. at(j) = at(k)
    BY <1>1, <1>7, <2>1 DEF IsInjective
  <2>. QED
    BY <1>1, <2>2
<1>8. ASSUME IsInjective(s) PROVE s[i] \notin ToSet(r)
  <2>. SUFFICES ASSUME NEW j \in 1 .. Len(s) - 1, r[j] = s[i] PROVE FALSE
    BY <1>4 DEF ToSet
  <2>. DEFINE k == IF j < i THEN j ELSE j + 1
  <2>1. k \in 1 .. Len(s) /\ r[j] = s[k] /\ k # i
    BY <1>1, <1>3
  <2>. QED
    BY <1>1, <1>8, <2>1 DEF IsInjective
<1>. QED
  BY <1>2, <1>5, <1>6, <1>7, <1>8 DEF r

\* A sequence that repeats nothing is no longer than the set it is made from.
LEMMA InjectiveFits ==
  ASSUME NEW S, IsFiniteSet(S), NEW s \in Seq(S), IsInjective(s)
  PROVE  Len(s) <= Cardinality(S)
<1>1. s \in [1 .. Len(s) -> S] /\ Len(s) \in Nat
  OBVIOUS
<1>2. s \in Injection(1 .. Len(s), S)
  BY <1>1 DEF Injection
<1>3. Cardinality(1 .. Len(s)) = Len(s)
  <2>1. 1 \in Int /\ Len(s) \in Int
    BY <1>1
  <2>2. Cardinality(1 .. Len(s)) = IF 1 > Len(s) THEN 0 ELSE Len(s) - 1 + 1
    BY <2>1, FS_Interval
  <2>. QED
    BY <1>1, <2>2
<1>. QED
  BY <1>2, <1>3, FS_Injection

LEMMA InsertAtItems ==
  ASSUME NEW S, NEW s \in Seq(S), NEW i \in 1 .. Len(s), NEW e \in S
  PROVE  /\ InsertAt(s, i, e) \in Seq(S)
         /\ Len(InsertAt(s, i, e)) = Len(s) + 1
         /\ \A j \in 1 .. Len(s) + 1 :
              InsertAt(s, i, e)[j] = IF j < i THEN s[j] ELSE IF j = i THEN e ELSE s[j - 1]
<1>1. Len(s) \in Nat /\ i \in Nat /\ i >= 1 /\ i <= Len(s) /\ \A j \in 1 .. Len(s) : s[j] \in S
  OBVIOUS
<1>. DEFINE a == SubSeq(s, 1, i - 1)
            b == SubSeq(s, i, Len(s))
            m == a \o <<e>>
<1>2. a \in Seq(S) /\ Len(a) = i - 1 /\ \A j \in 1 .. i - 1 : a[j] = s[j]
  <2>1. \A j \in 1 .. i - 1 : s[j] \in S
    BY <1>1
  <2>2. i - 1 \in Int
    BY <1>1
  <2>. QED
    BY <1>1, <2>1, <2>2, SubSeqProperties
<1>3. b \in Seq(S) /\ Len(b) = Len(s) - i + 1 /\ \A j \in 1 .. Len(s) - i + 1 : b[j] = s[i + j - 1]
  <2>1. \A j \in i .. Len(s) : s[j] \in S
    BY <1>1
  <2>2. i \in Int /\ Len(s) \in Int
    BY <1>1
  <2>. QED
    BY <1>1, <2>1, <2>2, SubSeqProperties
<1>. HIDE DEF a, b
<1>4. m \in Seq(S) /\ Len(m) = i /\ m[i] = e /\ \A j \in 1 .. i - 1 : m[j] = s[j]
  BY <1>1, <1>2
<1>. HIDE DEF m
<1>5. /\ m \o b \in Seq(S) /\ Len(m \o b) = Len(m) + Len(b)
      /\ \A j \in 1 .. Len(m) + Len(b) : (m \o b)[j] = IF j <= Len(m) THEN m[j] ELSE b[j - Len(m)]
  BY <1>3, <1>4, ConcatProperties
<1>6. InsertAt(s, i, e) = m \o b
  BY DEF InsertAt, a, b, m
<1>7. Len(m) + Len(b) = Len(s) + 1
  BY <1>1, <1>3, <1>4
<1>8. ASSUME NEW j \in 1 .. Len(s) + 1
      PROVE  (m \o b)[j] = IF j < i THEN s[j] ELSE IF j = i THEN e ELSE s[j - 1]
  <2>1. CASE j <= i
    BY <1>1, <1>4, <1>5, <1>7, <2>1
  <2>2. CASE ~(j <= i)
    <3>1. j - i \in 1 .. Len(s) - i + 1 /\ i + (j - i) - 1 = j - 1 /\ ~(j <= Len(m))
      BY <1>1, <1>4, <2>2
    <3>2. b[j - i] = s[j - 1]
      BY <1>3, <3>1
    <3>3. (m \o b)[j] = b[j - i]
      BY <1>4, <1>5, <1>7, <3>1
    <3>4. ~(j < i) /\ j # i
      BY <1>1, <2>2
    <3>. QED
      BY <3>2, <3>3, <3>4
  <2>. QED
    BY <2>1, <2>2
<1>. QED
  BY <1>5, <1>6, <1>7, <1>8

-------------------------------------------------------------------------------
(* The pool *)

\* The variables have their types, the pool repeats no server.
Typed == /\ up \subseteq Servers
         /\ conns \in Seq(Servers) /\ IsInjective(conns)
         /\ open \subseteq ToSet(conns) /\ live \subseteq open
         /\ index \in 0 .. Cardinality(Servers)
         /\ timer \in BOOLEAN /\ starting \in BOOLEAN
         /\ busy \in Methods \cup {"no"}
         /\ rest \in Seq(Servers)
         /\ tag \in Nat
         /\ conn \in 0 .. Len(conns) /\ (conn # 0 => busy = "get")
         /\ wanted \subseteq Servers
         /\ steady \subseteq Servers /\ moved \in BOOLEAN
         /\ passedBy \in [Servers -> Nat]

\* What is left for the method to treat.
RestIsLeft == /\ Refreshing => /\ ToSet(rest) \subseteq wanted
                               /\ wanted \subseteq ToSet(conns) \cup ToSet(rest)
              /\ ~Refreshing => ToSet(conns) = wanted
              /\ busy = "check" => ToSet(rest) \subseteq ToSet(conns)

\* How often a connection may have been passed by when the p-th of n is still
\* ahead: _index, going on from i, comes to it before that is n times.
Ahead(n, i, p) == IF i < p THEN i + n - p ELSE i - p

\* An init that has reset _index has sent it around once more.
ExtraRound == IF starting THEN Len(conns) ELSE 0

\* The connection get_conn looks at has had its turn; the others are about to be
\* passed by once more.
Soon(p) ==
  /\ conn = 0 => passedBy[conns[p]] <= Ahead(Len(conns), index, p) + ExtraRound
  /\ conn # 0 /\ p # conn => passedBy[conns[p]] + 1 <= Ahead(Len(conns), index, p) + ExtraRound
  /\ conn # 0 /\ p = conn => passedBy[conns[p]] + 1 <= Len(conns) + ExtraRound

SoonGot == \A p \in 1 .. Len(conns) : Soon(p)

OpenIsPassed == \A s \in Servers :
                  passedBy[s] > 0 => s \in open /\ index <= Len(conns) /\ ~Refreshing

\* The places in front of the one get_conn looks at, or will next, from its start on.
InFront == IF conn = 0 THEN index ELSE conn - 1
LookedAt(p) == IF tag <= InFront THEN tag < p /\ p <= InFront ELSE tag < p \/ p <= InFront

IndexInRange == busy = "get" => /\ index <= Len(conns) /\ tag < Len(conns)
                                /\ conn = 0 => index < Len(conns)

LookedAtIsClosed ==
  busy = "get" => /\ steady \subseteq open
                  /\ ~moved /\ conn # 0 => index = conn
                  /\ ~moved => \A p \in 1 .. Len(conns) : LookedAt(p) => conns[p] \notin steady

PoolInv == Typed /\ RestIsLeft /\ SoonGot /\ OpenIsPassed /\ IndexInRange /\ LookedAtIsClosed

LEMMA ConnsFit ==
  ASSUME Typed
  PROVE  Len(conns) \in Nat /\ Cardinality(Servers) \in Nat /\ Len(conns) <= Cardinality(Servers)
BY PoolAssumption, InjectiveFits, FS_CardinalityType DEF Typed

\* Whoever has not been passed by is within the bound, which grows by one when
\* _index leaves somebody else behind.
LEMMA AheadIsNat ==
  ASSUME NEW n \in Nat, NEW i \in Nat, NEW p \in 1 .. n
  PROVE  Ahead(n, i, p) \in Nat /\ (i <= n => Ahead(n, i, p) < n)
BY DEF Ahead

LEMMA AheadGrows ==
  ASSUME NEW n \in Nat, NEW i \in Nat, NEW p \in 1 .. n, i < n
  PROVE  /\ p # i + 1 => Ahead(n, i + 1, p) = Ahead(n, i, p) + 1
         /\ p = i + 1 => Ahead(n, i, p) = n - 1
BY DEF Ahead

LEMMA ExtraIsNat ==
  ASSUME Typed
  PROVE  ExtraRound \in Nat /\ (~starting => ExtraRound = 0)
                           /\ (starting => ExtraRound = Len(conns))
BY DEF Typed, ExtraRound

LEMMA PoolBegins == PoolInit => PoolInv
<1>. SUFFICES ASSUME PoolInit PROVE PoolInv
  OBVIOUS
<1>1. ToSet(conns) = {} /\ Len(conns) = 0 /\ IsInjective(conns)
  BY DEF PoolInit, ToSet, IsInjective
<1>2. Typed
  <2>1. <<>> \in Seq(Servers)
    OBVIOUS
  <2>2. 0 \in Nat /\ passedBy \in [Servers -> Nat]
    BY DEF PoolInit
  <2>3. conn = 0 /\ conn \in 0 .. Len(conns)
    BY <1>1 DEF PoolInit
  <2>4. conns = <<>> /\ rest = <<>> /\ open = {} /\ live = {} /\ steady = {}
    BY DEF PoolInit
  <2>5. timer \in BOOLEAN /\ starting \in BOOLEAN /\ moved \in BOOLEAN
    BY DEF PoolInit
  <2>. QED
    BY <1>1, <2>1, <2>2, <2>3, <2>4, <2>5 DEF PoolInit, Typed
<1>. QED
  BY <1>1, <1>2 DEF PoolInit, PoolInv, RestIsLeft, SoonGot, OpenIsPassed, IndexInRange,
                    LookedAtIsClosed, Refreshing

-------------------------------------------------------------------------------
(* Refresh *)

\* The first line of init costs the open connections a round, but get_conn
\* stays in the vector.
LEMMA ResetIndexKeeps ==
  ASSUME PoolInv, ResetIndex
  PROVE  PoolInv'
<1>. USE DEF PoolInv, Typed
<1>1. /\ ~starting /\ starting' = TRUE /\ moved' = (busy = "get")
      /\ index' \in IF conn = 0 THEN {0} ELSE {0, 1, index}
      /\ UNCHANGED <<up, open, live, conns, timer, busy, rest, tag, conn, wanted, steady, passedBy>>
  BY DEF ResetIndex, world, method
<1>2. /\ Len(conns) \in Nat /\ Cardinality(Servers) \in Nat
      /\ Len(conns) <= Cardinality(Servers) /\ index \in Nat /\ conn \in Nat /\ conn <= Len(conns)
  BY ConnsFit
<1>3. index' \in Nat /\ index' <= Cardinality(Servers) /\ (index <= Len(conns) => index' <= Len(conns))
  BY <1>1, <1>2
<1>4. Typed'
  BY <1>1, <1>2, <1>3
<1>5. RestIsLeft'
  BY <1>1 DEF RestIsLeft, Refreshing
<1>6. OpenIsPassed'
  BY <1>1, <1>3 DEF OpenIsPassed, Refreshing
<1>7. SoonGot'
  <2>. SUFFICES ASSUME NEW p \in 1 .. Len(conns)
                PROVE  /\ passedBy[conns[p]] + 1 <= Ahead(Len(conns), index', p) + ExtraRound'
                       /\ passedBy[conns[p]] <= Ahead(Len(conns), index', p) + ExtraRound'
                       /\ passedBy[conns[p]] + 1 <= Len(conns) + ExtraRound'
    BY <1>1 DEF SoonGot, Soon
  <2>1. conns[p] \in Servers /\ passedBy[conns[p]] \in Nat
    BY InSet
  <2>2. ExtraRound = 0 /\ ExtraRound' = Len(conns)
    BY <1>1 DEF ExtraRound
  <2>3. /\ conn = 0 => passedBy[conns[p]] <= Ahead(Len(conns), index, p)
        /\ conn # 0 /\ p # conn => passedBy[conns[p]] + 1 <= Ahead(Len(conns), index, p)
        /\ conn # 0 /\ p = conn => passedBy[conns[p]] + 1 <= Len(conns)
    <3>1. Ahead(Len(conns), index, p) \in Nat
      BY <1>2, AheadIsNat
    <3>. QED
      BY <1>2, <2>1, <2>2, <3>1 DEF SoonGot, Soon
  <2>4. passedBy[conns[p]] > 0 => index <= Len(conns)
    BY <2>1 DEF OpenIsPassed
  <2>5. /\ Ahead(Len(conns), index, p) \in Nat /\ Ahead(Len(conns), index', p) \in Nat
        /\ index <= Len(conns) => Ahead(Len(conns), index, p) < Len(conns)
    BY <1>2, <1>3, AheadIsNat
  <2>6. passedBy[conns[p]] + 1 <= Len(conns)
    <3>. HIDE DEF PoolInv, Typed
    <3>. QED
      BY <1>2, <2>1, <2>3, <2>4, <2>5
  <2>. HIDE DEF PoolInv, Typed
  <2>. QED
    BY <1>2, <2>1, <2>2, <2>5, <2>6
<1>8. IndexInRange'
  <2>. SUFFICES ASSUME busy = "get" PROVE IndexInRange'
    BY <1>1 DEF IndexInRange
  <2>1. index <= Len(conns) /\ tag < Len(conns) /\ tag \in Nat
    BY DEF IndexInRange
  <2>. HIDE DEF PoolInv, Typed
  <2>. QED
    BY <1>1, <1>2, <1>3, <2>1 DEF IndexInRange
<1>9. LookedAtIsClosed'
  BY <1>1 DEF LookedAtIsClosed
<1>. QED
  BY <1>4, <1>5, <1>6, <1>7, <1>8, <1>9

LEMMA RefreshBeginsKeeps ==
  ASSUME PoolInv, NEW svrs \in Seq(Servers), init(svrs) \/ refresh(svrs)
  PROVE  PoolInv'
<1>. USE DEF PoolInv, Typed
<1>1. /\ busy = "no" /\ busy' \in {"init", "refresh"} /\ rest' = svrs /\ wanted' = ToSet(svrs)
      /\ passedBy' = [s \in Servers |-> 0] /\ starting' \in BOOLEAN
      /\ UNCHANGED <<up, open, live, conns, index, timer, tag, conn, steady, moved>>
  BY DEF init, refresh, RefreshBegins, world
<1>2. Len(conns) \in Nat /\ index \in Nat /\ conn = 0
  BY <1>1, ConnsFit
<1>3. ToSet(svrs) \subseteq Servers /\ \A p \in 1 .. Len(conns) : conns[p] \in Servers
  BY InSet
<1>4. Typed'
  BY <1>1, <1>2, <1>3 DEF Methods
<1>5. RestIsLeft'
  BY <1>1 DEF RestIsLeft, Refreshing
<1>6. SoonGot'
  <2>. SUFFICES ASSUME NEW p \in 1 .. Len(conns)
                PROVE  passedBy'[conns[p]] <= Ahead(Len(conns), index, p) + ExtraRound'
    BY <1>1, <1>2 DEF SoonGot, Soon
  <2>1. passedBy'[conns[p]] = 0
    BY <1>1, <1>3
  <2>2. Ahead(Len(conns), index, p) \in Nat /\ ExtraRound' \in Nat
    BY <1>1, <1>2, AheadIsNat DEF ExtraRound
  <2>. QED
    BY <2>1, <2>2
<1>7. OpenIsPassed' /\ IndexInRange' /\ LookedAtIsClosed'
  BY <1>1 DEF OpenIsPassed, IndexInRange, LookedAtIsClosed
<1>. QED
  BY <1>4, <1>5, <1>6, <1>7

\* While a refresh lasts nobody has been passed by.
LEMMA NobodyPassed ==
  ASSUME PoolInv, Refreshing
  PROVE  /\ conn = 0
         /\ \A s \in Servers : passedBy[s] = 0
         /\ \A s \in Seq(Servers), i \in Nat, x \in Nat : \A p \in 1 .. Len(s) :
              passedBy[s[p]] <= Ahead(Len(s), i, p) + x
<1>1. \A s \in Servers : passedBy[s] = 0
  BY DEF PoolInv, Typed, OpenIsPassed
<1>2. ASSUME NEW s \in Seq(Servers), NEW i \in Nat, NEW x \in Nat, NEW p \in 1 .. Len(s)
      PROVE  passedBy[s[p]] <= Ahead(Len(s), i, p) + x
  <2>1. Len(s) \in Nat /\ passedBy[s[p]] = 0
    BY <1>1, InSet
  <2>2. Ahead(Len(s), i, p) \in Nat
    BY <2>1, AheadIsNat
  <2>. QED
    BY <2>1, <2>2
<1>3. conn = 0
  BY DEF PoolInv, Typed, Refreshing
<1>. QED
  BY <1>1, <1>2, <1>3

LEMMA ReleaseConnKeeps ==
  ASSUME PoolInv, NEW i \in DOMAIN conns, ReleaseConn(i)
  PROVE  PoolInv'
<1>. USE DEF PoolInv, Typed
<1>1. /\ Refreshing /\ Refreshing' /\ conns[i] \notin wanted
      /\ open' = open \ {conns[i]} /\ live' = live \ {conns[i]} /\ conns' = RemoveAt(conns, i)
      /\ UNCHANGED <<up, index, timer, starting, busy, rest, tag, conn, wanted, steady, moved,
                     passedBy>>
      /\ busy \notin {"no", "get", "check"}
  BY DEF ReleaseConn, Refreshing, method, past
<1>2. /\ conns' \in Seq(Servers) /\ IsInjective(conns')
      /\ ToSet(conns') = ToSet(conns) \ {conns[i]}
  BY <1>1, RemoveAtSet
<1>3. Typed'
  <2>1. Len(conns') \in Nat /\ conn = 0
    BY <1>1, <1>2, NobodyPassed
  <2>. QED
    BY <1>1, <1>2, <2>1
<1>4. RestIsLeft'
  BY <1>1, <1>2 DEF RestIsLeft
<1>5. /\ index \in Nat /\ index' = index /\ passedBy' = passedBy /\ conn' = 0
      /\ ExtraRound' \in Nat
  BY <1>1, <1>2, <1>3, NobodyPassed DEF ExtraRound
<1>6. SoonGot'
  <2>1. \A p \in 1 .. Len(conns') :
           passedBy[conns'[p]] <= Ahead(Len(conns'), index, p) + ExtraRound'
    BY <1>1, <1>2, <1>5, NobodyPassed
  <2>. QED
    BY <1>5, <2>1 DEF SoonGot, Soon
<1>7. OpenIsPassed' /\ IndexInRange' /\ LookedAtIsClosed'
  BY <1>1, NobodyPassed DEF OpenIsPassed, IndexInRange, LookedAtIsClosed
<1>. QED
  BY <1>3, <1>4, <1>6, <1>7

LEMMA AddConnKeeps ==
  ASSUME PoolInv, AddConn
  PROVE  PoolInv'
<1>. USE DEF PoolInv, Typed
<1>1. /\ Refreshing /\ Refreshing' /\ rest # <<>> /\ Head(rest) \notin ToSet(conns)
      /\ conns' = Append(conns, Head(rest)) /\ rest' = Tail(rest)
      /\ \/ UNCHANGED <<open, live>>
         \/ open' = open \cup {Head(rest)} /\ live' = live \cup {Head(rest)}
      /\ UNCHANGED <<up, index, timer, starting, busy, tag, conn, wanted, steady, moved, passedBy>>
      /\ busy \notin {"no", "get", "check"}
  BY DEF AddConn, AllReleased, Refreshing, Listed, Connect, past
<1>2. /\ rest' \in Seq(Servers) /\ Head(rest) \in Servers
      /\ ToSet(rest) = {Head(rest)} \cup ToSet(rest')
  BY <1>1, TailSet, InSet
<1>3. /\ conns' \in Seq(Servers) /\ IsInjective(conns')
      /\ ToSet(conns') = ToSet(conns) \cup {Head(rest)}
  BY <1>1, <1>2, AppendSet
<1>4. Typed'
  <2>1. Len(conns') \in Nat /\ conn = 0
    BY <1>1, <1>3, NobodyPassed
  <2>. QED
    BY <1>1, <1>2, <1>3, <2>1
<1>5. RestIsLeft'
  BY <1>1, <1>2, <1>3 DEF RestIsLeft
<1>6. /\ index \in Nat /\ index' = index /\ passedBy' = passedBy /\ conn' = 0
      /\ ExtraRound' \in Nat
  BY <1>1, <1>3, <1>4, NobodyPassed DEF ExtraRound
<1>7. SoonGot'
  <2>1. \A p \in 1 .. Len(conns') :
           passedBy[conns'[p]] <= Ahead(Len(conns'), index, p) + ExtraRound'
    BY <1>1, <1>3, <1>6, NobodyPassed
  <2>. QED
    BY <1>6, <2>1 DEF SoonGot, Soon
<1>8. OpenIsPassed' /\ IndexInRange' /\ LookedAtIsClosed'
  BY <1>1, NobodyPassed DEF OpenIsPassed, IndexInRange, LookedAtIsClosed
<1>. QED
  BY <1>4, <1>5, <1>7, <1>8

LEMMA RefreshGoesOnKeeps ==
  ASSUME PoolInv, HasConn \/ RefreshEnds
  PROVE  PoolInv'
<1>. USE DEF PoolInv, Typed
<1>1. /\ Refreshing /\ ToSet(conns) \subseteq wanted
      /\ UNCHANGED <<up, open, live, conns, index, starting, tag, conn, wanted, steady, moved,
                     passedBy>>
      /\ timer' \in BOOLEAN
      /\ busy' \notin {"get", "check"} /\ conn = 0
  BY NobodyPassed DEF HasConn, RefreshEnds, AllReleased, Refreshing, world, pool, past
<1>2. CASE HasConn
  <2>1. /\ Refreshing' /\ rest # <<>> /\ Head(rest) \in ToSet(conns) /\ rest' = Tail(rest)
        /\ busy' = busy
    BY <1>1, <1>2 DEF HasConn, Listed, Refreshing
  <2>2. rest' \in Seq(Servers) /\ ToSet(rest) = {Head(rest)} \cup ToSet(rest')
    BY <2>1, TailSet
  <2>3. Typed'
    BY <1>1, <2>1, <2>2
  <2>4. RestIsLeft'
    BY <1>1, <2>1, <2>2 DEF RestIsLeft, Refreshing
  <2>. QED
    BY <1>1, <2>1, <2>3, <2>4
       DEF SoonGot, Soon, Ahead, ExtraRound, OpenIsPassed, IndexInRange, LookedAtIsClosed
<1>3. CASE RefreshEnds
  <2>1. busy' = "no" /\ rest = <<>> /\ rest' = rest
    BY <1>3 DEF RefreshEnds
  <2>2. ToSet(rest) = {}
    BY <2>1 DEF ToSet
  <2>3. Typed'
    BY <1>1, <2>1
  <2>4. RestIsLeft'
    BY <1>1, <2>1, <2>2 DEF RestIsLeft, Refreshing
  <2>5. OpenIsPassed'
    BY <1>1, NobodyPassed DEF OpenIsPassed
  <2>. QED
    BY <1>1, <2>1, <2>3, <2>4, <2>5 DEF SoonGot, Soon, Ahead, ExtraRound, IndexInRange, LookedAtIsClosed
<1>. QED
  BY <1>2, <1>3

-------------------------------------------------------------------------------
(* The timer, the users and the servers *)

\* A step that leaves _conns, _index and who was passed by alone.
LEMMA OthersKeep ==
  ASSUME PoolInv, UNCHANGED <<conns, index, timer, starting, tag, conn, wanted, moved>>,
         up' \subseteq Servers, busy' \in Methods \cup {"no"}, rest' \in Seq(Servers),
         busy' # busy => <<busy, busy'>> \in {<<"no", "check">>, <<"check", "no">>},
         busy' = "check" => ToSet(rest') \subseteq ToSet(conns),
         busy' # "check" => rest' = rest,
         open' \subseteq ToSet(conns), live' \subseteq open',
         steady' \subseteq steady, busy' = "get" => steady' \subseteq open',
         passedBy' \in [Servers -> Nat],
         \A s \in Servers : \/ passedBy'[s] = 0
                            \/ passedBy'[s] = passedBy[s] /\ (s \in open => s \in open')
  PROVE  PoolInv'
<1>. USE DEF PoolInv, Typed
<1>1. Typed'
  OBVIOUS
<1>2. Refreshing' = Refreshing
  BY DEF Refreshing
<1>3. RestIsLeft'
  BY <1>2 DEF RestIsLeft, Refreshing
<1>4. \A s \in Servers : passedBy'[s] <= passedBy[s]
  <2>. TAKE s \in Servers
  <2>1. passedBy[s] \in Nat /\ passedBy'[s] \in {0, passedBy[s]}
    OBVIOUS
  <2>. QED
    BY <2>1
<1>5. SoonGot'
  <2>. SUFFICES ASSUME NEW p \in 1 .. Len(conns)
                PROVE  Soon(p)'
    BY DEF SoonGot
  <2>1. /\ conns[p] \in Servers /\ passedBy[conns[p]] \in Nat /\ passedBy'[conns[p]] \in Nat
        /\ Len(conns) \in Nat /\ index \in Nat
    BY InSet
  <2>2. passedBy'[conns[p]] <= passedBy[conns[p]]
    BY <1>4, <2>1
  <2>3. Ahead(Len(conns), index, p) \in Nat /\ ExtraRound \in Nat /\ ExtraRound' = ExtraRound
    BY <2>1, AheadIsNat DEF ExtraRound
  <2>4. Soon(p)
    BY DEF SoonGot
  <2>5. UNCHANGED <<conns, index, conn>>
    OBVIOUS
  <2>. HIDE DEF PoolInv, Typed
  <2>. QED
    BY <2>1, <2>2, <2>3, <2>4, <2>5 DEF Soon
<1>6. OpenIsPassed'
  <2>. SUFFICES ASSUME NEW s \in Servers, passedBy'[s] > 0
                PROVE  s \in open' /\ index <= Len(conns) /\ ~Refreshing
    BY <1>2 DEF OpenIsPassed
  <2>1. passedBy[s] > 0 /\ (s \in open => s \in open')
    OBVIOUS
  <2>. QED
    BY <2>1 DEF OpenIsPassed
<1>7. IndexInRange'
  BY DEF IndexInRange
<1>8. LookedAtIsClosed'
  BY DEF LookedAtIsClosed, LookedAt, InFront
<1>. QED
  BY <1>1, <1>3, <1>5, <1>6, <1>7, <1>8

LEMMA CheckKeeps ==
  ASSUME PoolInv, CheckBegins \/ CheckStep
  PROVE  PoolInv'
<1>. USE DEF PoolInv, Typed, Methods, world, pool, past
<1>0. busy # "get" => conn = 0
  OBVIOUS
<1>1. CASE CheckBegins
  BY <1>1, OthersKeep DEF CheckBegins
<1>2. CASE CheckNext
  <2>1. /\ busy = "check" /\ rest # <<>> /\ rest' = Tail(rest)
        /\ \/ UNCHANGED <<open, live>>
           \/ open' = open \cup {Head(rest)} /\ live' = live \cup {Head(rest)}
    BY <1>2 DEF CheckNext, Connect
  <2>2. rest' \in Seq(Servers) /\ ToSet(rest) = {Head(rest)} \cup ToSet(rest')
    BY <2>1, TailSet
  <2>3. ToSet(rest) \subseteq ToSet(conns)
    BY <2>1 DEF RestIsLeft
  <2>. QED
    BY <1>2, <2>1, <2>2, <2>3, OthersKeep DEF CheckNext
<1>3. CASE CheckEnds
  BY <1>3, OthersKeep DEF CheckEnds
<1>. QED
  BY <1>1, <1>2, <1>3 DEF CheckStep

LEMMA WorldKeeps ==
  ASSUME PoolInv,
         \/ \E s \in Servers : CloseConn(s) \/ ServerUp(s) \/ ServerDown(s)
         \/ UNCHANGED poolVars
  PROVE  PoolInv'
<1>. USE DEF PoolInv, Typed, RestIsLeft, world, pool, method, past
<1>1. busy = "get" => steady \subseteq open
  BY DEF LookedAtIsClosed
<1>2. ASSUME NEW s \in Servers, CloseConn(s) PROVE PoolInv'
  BY <1>1, <1>2, OthersKeep DEF CloseConn
<1>3. ASSUME NEW s \in Servers, ServerUp(s) \/ ServerDown(s) PROVE PoolInv'
  BY <1>1, <1>3, OthersKeep DEF ServerUp, ServerDown
<1>4. CASE UNCHANGED poolVars
  BY <1>1, <1>4, OthersKeep DEF poolVars
<1>. QED
  BY <1>2, <1>3, <1>4

-------------------------------------------------------------------------------
(* get_conn *)

LEMMA GetBeginsKeeps ==
  ASSUME PoolInv, GetBegins
  PROVE  PoolInv'
<1>. USE DEF PoolInv, Typed
<1>1. /\ busy = "no" /\ busy' = "get" /\ index' = Wrapped(index) /\ tag' = index'
      /\ steady' = open /\ conn = 0
      /\ UNCHANGED <<up, open, live, conns, timer, starting, rest, conn, wanted, moved, passedBy>>
  BY DEF GetBegins, world
<1>2. Len(conns) \in Nat \ {0} /\ index \in Nat /\ Cardinality(Servers) \in Nat
      /\ Len(conns) <= Cardinality(Servers)
  BY ConnsFit DEF GetBegins
<1>3. index' \in 0 .. Len(conns) - 1 /\ (index' = index \/ (index' = 0 /\ index >= Len(conns)))
  <2>1. index' = IF index >= Len(conns) THEN 0 ELSE index
    BY <1>1 DEF Wrapped
  <2>. QED
    BY ONLY <1>2, <2>1
<1>4. open \subseteq Servers
  BY InSet
<1>5. Typed'
  BY <1>1, <1>2, <1>3, <1>4 DEF Methods
<1>6. RestIsLeft'
  BY <1>1 DEF RestIsLeft, Refreshing
<1>7. OpenIsPassed'
  BY <1>1, <1>2, <1>3 DEF OpenIsPassed, Refreshing
<1>8. SoonGot'
  <2>. SUFFICES ASSUME NEW p \in 1 .. Len(conns)
                PROVE  passedBy[conns[p]] <= Ahead(Len(conns), index', p) + ExtraRound
    BY <1>1 DEF SoonGot, Soon, ExtraRound
  <2>1. conns[p] \in Servers /\ passedBy[conns[p]] \in Nat /\ ExtraRound \in Nat
    BY InSet, ExtraIsNat
  <2>2. passedBy[conns[p]] <= Ahead(Len(conns), index, p) + ExtraRound
    BY <1>1 DEF SoonGot, Soon
  <2>3. passedBy[conns[p]] > 0 => index <= Len(conns)
    BY <2>1 DEF OpenIsPassed
  <2>4. Ahead(Len(conns), index', p) \in Nat
    BY <1>2, <1>3, AheadIsNat
  <2>. HIDE DEF PoolInv, Typed
  <2>5. CASE index' = index
    BY <2>2, <2>5
  <2>6. CASE index' = 0 /\ index >= Len(conns)
    <3>1. CASE passedBy[conns[p]] = 0
      BY <2>1, <2>4, <3>1
    <3>2. CASE index = Len(conns)
      BY <1>2, <2>1, <2>2, <2>6, <3>2 DEF Ahead
    <3>. QED
      BY <1>2, <2>1, <2>3, <2>6, <3>1, <3>2
  <2>. QED
    BY <1>3, <2>5, <2>6
<1>9. IndexInRange' /\ LookedAtIsClosed'
  BY <1>1, <1>2, <1>3 DEF IndexInRange, LookedAtIsClosed, LookedAt, InFront
<1>. QED
  BY <1>5, <1>6, <1>7, <1>8, <1>9

LEMMA GetLooksKeeps ==
  ASSUME PoolInv, GetLooks
  PROVE  PoolInv'
<1>. USE DEF PoolInv, Typed
<1>1. /\ busy = "get" /\ conn = 0 /\ conn' = index + 1 /\ index' = index + 1
      /\ UNCHANGED <<up, open, live, conns, timer, starting, busy, rest, tag, wanted, steady,
                     moved, passedBy>>
  BY DEF GetLooks, world, past
<1>2. /\ Len(conns) \in Nat /\ index \in Nat /\ tag \in Nat /\ Cardinality(Servers) \in Nat
      /\ Len(conns) <= Cardinality(Servers) /\ index < Len(conns) /\ tag < Len(conns)
  BY <1>1, ConnsFit DEF IndexInRange
<1>3. Typed'
  BY <1>1, <1>2
<1>4. RestIsLeft'
  BY <1>1 DEF RestIsLeft, Refreshing
<1>5. OpenIsPassed'
  BY <1>1, <1>2 DEF OpenIsPassed, Refreshing
<1>6. SoonGot'
  <2>. SUFFICES ASSUME NEW p \in 1 .. Len(conns)
                PROVE  /\ p # index + 1 =>
                            passedBy[conns[p]] + 1 <= Ahead(Len(conns), index + 1, p) + ExtraRound
                       /\ p = index + 1 => passedBy[conns[p]] + 1 <= Len(conns) + ExtraRound
    BY <1>1 DEF SoonGot, Soon, ExtraRound
  <2>1. conns[p] \in Servers /\ passedBy[conns[p]] \in Nat /\ ExtraRound \in Nat
    BY InSet, ExtraIsNat
  <2>2. passedBy[conns[p]] <= Ahead(Len(conns), index, p) + ExtraRound
    BY <1>1 DEF SoonGot, Soon
  <2>3. Ahead(Len(conns), index, p) \in Nat
    BY <1>2, AheadIsNat
  <2>4. /\ p # index + 1 => Ahead(Len(conns), index + 1, p) = Ahead(Len(conns), index, p) + 1
        /\ p = index + 1 => Ahead(Len(conns), index, p) = Len(conns) - 1
    BY <1>2, AheadGrows
  <2>. HIDE DEF PoolInv, Typed
  <2>5. CASE p # index + 1
    BY <2>1, <2>2, <2>3, <2>4, <2>5
  <2>6. CASE p = index + 1
    <3>1. passedBy[conns[p]] <= Len(conns) - 1 + ExtraRound
      BY <2>2, <2>4, <2>6
    <3>2. passedBy[conns[p]] + 1 <= Len(conns) + ExtraRound
      BY <1>2, <2>1, <3>1
    <3>. QED
      BY <2>6, <3>2
  <2>. QED
    BY <2>5, <2>6
<1>7. IndexInRange'
  BY <1>1, <1>2 DEF IndexInRange
<1>8. LookedAtIsClosed'
  <2>1. InFront' = InFront
    BY <1>1, <1>2 DEF InFront
  <2>. QED
    BY <1>1, <2>1 DEF LookedAtIsClosed, LookedAt
<1>. QED
  BY <1>3, <1>4, <1>5, <1>6, <1>7, <1>8

LEMMA GetTakesKeeps ==
  ASSUME PoolInv, GetTakes
  PROVE  PoolInv'
<1>. USE DEF PoolInv, Typed
<1>1. /\ busy = "get" /\ busy' = "no" /\ conn # 0 /\ conns[conn] \in open
      /\ passedBy' = [s \in Servers |->
            IF s \in open \ {conns[conn]} /\ Listed(conns, s) THEN passedBy[s] + 1 ELSE 0]
      /\ tag' = 0 /\ conn' = 0 /\ steady' = {} /\ moved' = FALSE
      /\ UNCHANGED <<up, open, live, conns, index, timer, starting, rest, wanted>>
  BY DEF GetTakes, GetEnds, PassBy, world, pool
<1>2. Len(conns) \in Nat /\ index \in Nat /\ conn \in 1 .. Len(conns) /\ index <= Len(conns)
  BY <1>1, ConnsFit DEF IndexInRange
<1>3. Typed'
  <2>1. passedBy' \in [Servers -> Nat]
    <3>1. \A s \in Servers : passedBy[s] + 1 \in Nat
      OBVIOUS
    <3>. QED
      BY <1>1, <3>1
  <2>2. conn' \in 0 .. Len(conns') /\ conn' = 0 /\ tag' \in Nat
    BY <1>1, <1>2
  <2>3. busy' \in Methods \cup {"no"} /\ steady' \subseteq Servers /\ moved' \in BOOLEAN
    BY <1>1
  <2>. QED
    BY <1>1, <2>1, <2>2, <2>3
<1>4. RestIsLeft'
  BY <1>1 DEF RestIsLeft, Refreshing
<1>5. OpenIsPassed'
  BY <1>1, <1>2 DEF OpenIsPassed, Refreshing
<1>6. SoonGot'
  <2>. SUFFICES ASSUME NEW p \in 1 .. Len(conns)
                PROVE  passedBy'[conns[p]] <= Ahead(Len(conns), index, p) + ExtraRound
    BY <1>1 DEF SoonGot, Soon, ExtraRound
  <2>1. conns[p] \in Servers /\ passedBy[conns[p]] \in Nat /\ ExtraRound \in Nat
    BY InSet, ExtraIsNat
  <2>2. p # conn => passedBy[conns[p]] + 1 <= Ahead(Len(conns), index, p) + ExtraRound
    BY <1>1 DEF SoonGot, Soon
  <2>3. passedBy'[conns[p]] \in {0, passedBy[conns[p]] + 1}
    BY <1>1, <2>1
  <2>4. p = conn => passedBy'[conns[p]] = 0
    BY <1>1, <2>1
  <2>5. Ahead(Len(conns), index, p) \in Nat
    BY <1>2, AheadIsNat
  <2>. HIDE DEF PoolInv, Typed
  <2>. QED
    BY <2>1, <2>2, <2>3, <2>4, <2>5
<1>. QED
  BY <1>1, <1>3, <1>4, <1>5, <1>6 DEF IndexInRange, LookedAtIsClosed

\* Where get_conn goes on from a closed connection, and what it has then looked
\* at if nobody has reset _index.
LEMMA SkipsOne ==
  ASSUME PoolInv, GetSkips
  PROVE  /\ Len(conns) \in Nat /\ index \in Nat /\ tag \in Nat /\ conn \in 1 .. Len(conns)
         /\ index <= Len(conns) /\ tag < Len(conns)
         /\ index' = IF index = Len(conns) THEN 0 ELSE index
         /\ ~moved => index = conn
         /\ ~moved => \A p \in 1 .. Len(conns) : LookedAt(p) \/ p = conn => conns[p] \notin steady
<1>. USE DEF PoolInv, Typed
<1>1. busy = "get" /\ conn # 0 /\ conns[conn] \notin open /\ index' = Wrapped(index)
  BY DEF GetSkips
<1>2. /\ Len(conns) \in Nat /\ index \in Nat /\ tag \in Nat /\ conn \in 1 .. Len(conns)
      /\ index <= Len(conns) /\ tag < Len(conns)
  BY <1>1 DEF IndexInRange
<1>3. index' = IF index = Len(conns) THEN 0 ELSE index
  BY <1>1, <1>2 DEF Wrapped
<1>4. /\ ~moved => index = conn
      /\ ~moved => \A p \in 1 .. Len(conns) : LookedAt(p) \/ p = conn => conns[p] \notin steady
  BY <1>1 DEF LookedAtIsClosed
<1>. QED
  BY <1>2, <1>3, <1>4

LEMMA GetSkipsKeeps ==
  ASSUME PoolInv, GetSkips
  PROVE  PoolInv'
<1>. USE DEF PoolInv, Typed
<1>1. /\ busy = "get" /\ conn # 0 /\ conns[conn] \notin open /\ conn' = 0
      /\ UNCHANGED <<up, open, live, conns, timer, starting, rest, wanted, passedBy>>
      /\ \/ index' # tag /\ UNCHANGED <<busy, tag, steady, moved>>
         \/ index' = tag /\ busy' = "no" /\ tag' = 0 /\ steady' = {} /\ moved' = FALSE
  BY DEF GetSkips, GetEnds, world
<1>2. /\ Len(conns) \in Nat /\ index \in Nat /\ tag \in Nat /\ conn \in 1 .. Len(conns)
      /\ index <= Len(conns) /\ tag < Len(conns)
      /\ index' = IF index = Len(conns) THEN 0 ELSE index
      /\ Cardinality(Servers) \in Nat /\ Len(conns) <= Cardinality(Servers)
  BY SkipsOne, ConnsFit
<1>3. index' \in 0 .. Cardinality(Servers) /\ index' \in Nat /\ index' < Len(conns)
  BY <1>2
<1>4. Typed'
  <2>1. conn' \in 0 .. Len(conns') /\ conn' = 0 /\ tag' \in Nat
    BY <1>1, <1>2
  <2>2. busy' \in Methods \cup {"no"} /\ steady' \subseteq Servers /\ moved' \in BOOLEAN
    BY <1>1
  <2>. QED
    BY <1>1, <1>3, <2>1, <2>2
<1>5. RestIsLeft'
  BY <1>1 DEF RestIsLeft, Refreshing
<1>6. OpenIsPassed'
  BY <1>1, <1>2 DEF OpenIsPassed, Refreshing
<1>7. SoonGot'
  <2>. SUFFICES ASSUME NEW p \in 1 .. Len(conns)
                PROVE  passedBy[conns[p]] <= Ahead(Len(conns), index', p) + ExtraRound
    BY <1>1 DEF SoonGot, Soon, ExtraRound
  <2>1. conns[p] \in Servers /\ passedBy[conns[p]] \in Nat /\ ExtraRound \in Nat
    BY InSet, ExtraIsNat
  <2>2. p # conn => passedBy[conns[p]] + 1 <= Ahead(Len(conns), index, p) + ExtraRound
    BY <1>1 DEF SoonGot, Soon
  <2>3. p = conn => passedBy[conns[p]] = 0
    BY <1>1, <2>1 DEF OpenIsPassed
  <2>4. Ahead(Len(conns), index', p) \in Nat /\ Ahead(Len(conns), index, p) \in Nat
    BY <1>2, <1>3, AheadIsNat
  <2>. HIDE DEF PoolInv, Typed
  <2>5. Ahead(Len(conns), index, p) <= Ahead(Len(conns), index', p)
    BY <1>2 DEF Ahead
  <2>. QED
    BY <2>1, <2>2, <2>3, <2>4, <2>5
<1>8. IndexInRange'
  BY <1>1, <1>2, <1>3 DEF IndexInRange
<1>9. LookedAtIsClosed'
  <2>1. CASE busy' = "no"
    BY <2>1 DEF LookedAtIsClosed
  <2>2. CASE index' # tag /\ UNCHANGED <<busy, tag, steady, moved>>
    <3>1. steady \subseteq open
      BY <1>1 DEF LookedAtIsClosed
    <3>2. ~moved => \A p \in 1 .. Len(conns) : LookedAt(p)' => LookedAt(p) \/ p = conn
      BY <1>1, <1>2, <2>2, SkipsOne DEF LookedAt, InFront
    <3>. QED
      BY <1>1, <1>2, <2>2, <3>1, <3>2, SkipsOne DEF LookedAtIsClosed
  <2>. QED
    BY <1>1, <2>1, <2>2
<1>. QED
  BY <1>4, <1>5, <1>6, <1>7, <1>8, <1>9

-------------------------------------------------------------------------------

LEMMA PoolStep == PoolInv /\ [PoolNext]_poolVars => PoolInv'
<1>1. Lists \subseteq Seq(Servers)
  BY DEF Lists, BoundedSeq, SeqOf
<1>. QED
  BY <1>1, ResetIndexKeeps, RefreshBeginsKeeps, ReleaseConnKeeps, AddConnKeeps,
     RefreshGoesOnKeeps, CheckKeeps, GetBeginsKeeps, GetLooksKeeps, GetTakesKeeps, GetSkipsKeeps,
     WorldKeeps
     DEF PoolNext, RefreshStep, GetStep

LEMMA PoolInvariant == PoolSpec => []PoolInv
<1>. QED
  BY PoolBegins, PoolStep, PTL DEF PoolSpec

\* The pool's variables keep their types, and _index is in the vector whenever
\* get_conn reads from it (ConnMgtLB.cpp:52-66), whatever refresh has erased.
THEOREM PoolTypeCorrect == PoolSpec => []PoolTypeOK
<1>1. PoolInv => PoolTypeOK
  <2>. SUFFICES ASSUME PoolInv PROVE PoolTypeOK
    OBVIOUS
  <2>1. conns \in BoundedSeq(Servers, Cardinality(Servers))
    <3>1. Len(conns) \in 0 .. Cardinality(Servers) /\ conns \in [1 .. Len(conns) -> Servers]
      BY ConnsFit DEF PoolInv, Typed
    <3>. QED
      BY <3>1 DEF BoundedSeq, SeqOf
  <2>. QED
    BY <2>1 DEF PoolInv, Typed, PoolTypeOK, IndexInRange
<1>. QED
  BY <1>1, PoolInvariant, PTL

\* After a refresh the pool has one connection for each server of the list.
THEOREM PoolIsAsWanted == PoolSpec => []PoolIsWanted
<1>1. PoolInv => PoolIsWanted
  BY DEF PoolInv, Typed, RestIsLeft, PoolIsWanted
<1>. QED
  BY <1>1, PoolInvariant, PTL

\* Round robin: an open connection is got before all others have been twice, or
\* three times if an init has reset _index without the mutex (ConnMgtLB.h:41) and
\* waits for it.
THEOREM NobodyStarves == PoolSpec => []NotStarved
<1>1. PoolInv => NotStarved
  <2>. SUFFICES ASSUME PoolInv, NEW s \in ToSet(conns)
                PROVE  passedBy[s] < IF starting THEN 2 * Len(conns) ELSE Len(conns)
    BY DEF NotStarved
  <2>1. PICK p \in 1 .. Len(conns) : conns[p] = s
    BY InSet DEF PoolInv, Typed
  <2>2. /\ s \in Servers /\ passedBy[s] \in Nat /\ Len(conns) \in Nat /\ index \in Nat
        /\ starting \in BOOLEAN
    BY <2>1, InSet DEF PoolInv, Typed
  <2>3. /\ conn = 0 => passedBy[s] <= Ahead(Len(conns), index, p) + ExtraRound
        /\ conn # 0 /\ p # conn => passedBy[s] + 1 <= Ahead(Len(conns), index, p) + ExtraRound
        /\ conn # 0 /\ p = conn => passedBy[s] + 1 <= Len(conns) + ExtraRound
    BY <2>1 DEF PoolInv, SoonGot, Soon
  <2>4. passedBy[s] > 0 => index <= Len(conns)
    BY <2>2 DEF PoolInv, OpenIsPassed
  <2>5. /\ Ahead(Len(conns), index, p) \in Nat
        /\ index <= Len(conns) => Ahead(Len(conns), index, p) < Len(conns)
    BY <2>2, AheadIsNat
  <2>6. ExtraRound = IF starting THEN Len(conns) ELSE 0
    BY DEF ExtraRound
  <2>7. passedBy[s] = 0 \/ passedBy[s] < Len(conns) + ExtraRound
    BY <2>2, <2>3, <2>4, <2>5, <2>6
  <2>. QED
    BY <2>1, <2>2, <2>6, <2>7
<1>. QED
  BY <1>1, PoolInvariant, PTL

\* When get_conn gives up, no connection has been open all the time, unless an
\* init has reset _index under its loop.
THEOREM FailureIsJustified == PoolSpec => FailsOnlyIfNoneOpen
<1>1. PoolInv /\ [PoolNext]_poolVars =>
        [GetSkips /\ busy' = "no" /\ ~moved => steady = {}]_poolVars
  <2>. SUFFICES ASSUME PoolInv, GetSkips, busy' = "no", ~moved, NEW s \in steady PROVE FALSE
    OBVIOUS
  <2>1. busy = "get" /\ index' = tag
    BY DEF GetSkips
  <2>2. s \in ToSet(conns)
    BY <2>1 DEF PoolInv, Typed, LookedAtIsClosed
  <2>3. PICK p \in 1 .. Len(conns) : conns[p] = s
    BY <2>2, InSet DEF PoolInv, Typed
  <2>4. LookedAt(p) \/ p = conn
    BY <2>1, SkipsOne DEF LookedAt, InFront
  <2>. QED
    BY <2>3, <2>4, SkipsOne
<1>. QED
  BY <1>1, PoolInvariant, PTL DEF PoolSpec, FailsOnlyIfNoneOpen

-------------------------------------------------------------------------------
(* The UDP reactor *)

\* Of an address whose ends all came in order: what is on the way, what its
\* handler got, the session it sends in and whether that has been ended.  Between
\* data of different sessions there is an end, one follows the data of a session
\* that is over, and what the handler got is older than all that is on the way.
Tidy(q, got, cur, ended) ==
  /\ \A i, j \in 1 .. Len(q) :
       i < j /\ ~q[i].empty /\ ~q[j].empty /\ q[i].session # q[j].session
         => \E k \in 1 .. Len(q) : i < k /\ k < j /\ q[k].empty
  /\ \A i \in 1 .. Len(q) :
       ~q[i].empty /\ (q[i].session # cur \/ ended)
         => \E k \in 1 .. Len(q) : i < k /\ q[k].empty
  /\ \A h \in got :
       /\ got = {h}
       /\ h # cur \/ ended => \E k \in 1 .. Len(q) : q[k].empty
       /\ \A i \in 1 .. Len(q) :
            ~q[i].empty /\ q[i].session # h => \E k \in 1 .. Len(q) : k < i /\ q[k].empty

LEMMA TidySent ==
  ASSUME NEW q \in Seq(Datagram), NEW got, NEW cur, NEW d \in Datagram,
         Tidy(q, got, cur, FALSE), d.session = cur
  PROVE  Tidy(Append(q, d), got, cur, d.empty)
<1>. DEFINE r == Append(q, d)
<1>1. /\ Len(q) \in Nat /\ Len(r) = Len(q) + 1 /\ r[Len(q) + 1] = d
      /\ \A i \in 1 .. Len(q) : r[i] = q[i]
  OBVIOUS
<1>2. \A i \in 1 .. Len(r) : i \in 1 .. Len(q) \/ i = Len(q) + 1
  BY <1>1
<1>3. 1 .. Len(q) \subseteq 1 .. Len(r) /\ Len(q) + 1 \in 1 .. Len(r)
  BY <1>1
<1>. HIDE DEF r
<1>4. ASSUME NEW i \in 1 .. Len(r), NEW j \in 1 .. Len(r),
             i < j, ~r[i].empty, ~r[j].empty, r[i].session # r[j].session
      PROVE  \E k \in 1 .. Len(r) : i < k /\ k < j /\ r[k].empty
  <2>1. i \in 1 .. Len(q) /\ r[i] = q[i]
    BY <1>1, <1>4
  <2>2. CASE j \in 1 .. Len(q)
    <3>1. PICK k \in 1 .. Len(q) : i < k /\ k < j /\ q[k].empty
      BY <1>1, <1>4, <2>1, <2>2 DEF Tidy
    <3>. QED
      BY <1>1, <1>3, <3>1
  <2>3. CASE j = Len(q) + 1
    <3>1. PICK k \in 1 .. Len(q) : i < k /\ q[k].empty
      BY <1>1, <1>4, <2>1, <2>3 DEF Tidy
    <3>. QED
      BY <1>1, <1>3, <2>3, <3>1
  <2>. QED
    BY <1>2, <2>2, <2>3
<1>5. ASSUME NEW i \in 1 .. Len(r), ~r[i].empty, r[i].session # cur \/ d.empty
      PROVE  \E k \in 1 .. Len(r) : i < k /\ r[k].empty
  <2>1. i \in 1 .. Len(q) /\ r[i] = q[i]
    BY <1>1, <1>2, <1>5
  <2>2. CASE d.empty
    BY <1>1, <1>3, <2>1, <2>2
  <2>3. CASE ~d.empty
    <3>1. PICK k \in 1 .. Len(q) : i < k /\ q[k].empty
      BY <1>5, <2>1, <2>3 DEF Tidy
    <3>. QED
      BY <1>1, <1>3, <3>1
  <2>. QED
    BY <2>2, <2>3
<1>6. ASSUME NEW h \in got
      PROVE  /\ got = {h}
             /\ h # cur \/ d.empty => \E k \in 1 .. Len(r) : r[k].empty
             /\ \A i \in 1 .. Len(r) :
                  ~r[i].empty /\ r[i].session # h => \E k \in 1 .. Len(r) : k < i /\ r[k].empty
  <2>1. got = {h}
    BY <1>6 DEF Tidy
  <2>2. h # cur => \E k \in 1 .. Len(q) : q[k].empty
    BY <1>6 DEF Tidy
  <2>3. ASSUME NEW i \in 1 .. Len(r), ~r[i].empty, r[i].session # h
        PROVE  \E k \in 1 .. Len(r) : k < i /\ r[k].empty
    <3>1. CASE i \in 1 .. Len(q)
      BY <1>1, <1>3, <1>6, <2>3, <3>1 DEF Tidy
    <3>2. CASE i = Len(q) + 1
      <4>1. PICK k \in 1 .. Len(q) : q[k].empty
        BY <1>1, <2>2, <2>3, <3>2
      <4>. QED
        BY <1>1, <1>3, <3>2, <4>1
    <3>. QED
      BY <1>2, <3>1, <3>2
  <2>4. h # cur \/ d.empty => \E k \in 1 .. Len(r) : r[k].empty
    BY <1>1, <1>3, <2>2
  <2>. QED
    BY <2>1, <2>3, <2>4
<1>. QED
  BY <1>4, <1>5, <1>6 DEF Tidy, r

\* Data may get lost.
LEMMA TidyLost ==
  ASSUME NEW q \in Seq(Datagram), NEW got, NEW cur, NEW ended,
         Tidy(q, got, cur, ended), NEW n \in 1 .. Len(q), ~q[n].empty
  PROVE  Tidy(RemoveAt(q, n), got, cur, ended)
<1>. DEFINE r == RemoveAt(q, n)
            old(j) == IF j < n THEN j ELSE j + 1
            new(k) == IF k < n THEN k ELSE k - 1
<1>1. Len(r) = Len(q) - 1 /\ \A j \in 1 .. Len(q) - 1 : r[j] = IF j < n THEN q[j] ELSE q[j + 1]
  BY RemoveAtItems
<1>2. Len(q) \in Nat
  OBVIOUS
<1>. HIDE DEF r
<1>3. \A j \in 1 .. Len(r) : old(j) \in 1 .. Len(q) /\ r[j] = q[old(j)]
  <2>. TAKE j \in 1 .. Len(r)
  <2>1. j \in 1 .. Len(q) - 1 /\ r[j] = IF j < n THEN q[j] ELSE q[j + 1]
    BY <1>1
  <2>. QED
    BY <1>2, <2>1
\* An end keeps its place among the others.
<1>4. ASSUME NEW k \in 1 .. Len(q), q[k].empty
      PROVE  /\ new(k) \in 1 .. Len(r) /\ r[new(k)].empty
             /\ \A j \in 1 .. Len(r) : /\ k < old(j) => new(k) < j
                                       /\ old(j) < k => j < new(k)
  <2>1. k # n
    BY <1>4
  <2>. QED
    BY <1>1, <1>2, <1>4, <2>1
<1>5. \A i, j \in 1 .. Len(r) : i < j => old(i) < old(j)
  BY <1>1, <1>2
<1>. HIDE DEF old, new
<1>6. ASSUME NEW i \in 1 .. Len(r), NEW j \in 1 .. Len(r),
             i < j, ~r[i].empty, ~r[j].empty, r[i].session # r[j].session
      PROVE  \E k \in 1 .. Len(r) : i < k /\ k < j /\ r[k].empty
  <2>1. PICK k \in 1 .. Len(q) : old(i) < k /\ k < old(j) /\ q[k].empty
    BY <1>3, <1>5, <1>6 DEF Tidy
  <2>. QED
    BY <1>4, <2>1
<1>7. ASSUME NEW i \in 1 .. Len(r), ~r[i].empty, r[i].session # cur \/ ended
      PROVE  \E k \in 1 .. Len(r) : i < k /\ r[k].empty
  <2>1. PICK k \in 1 .. Len(q) : old(i) < k /\ q[k].empty
    BY <1>3, <1>7 DEF Tidy
  <2>. QED
    BY <1>4, <2>1
<1>8. ASSUME NEW h \in got
      PROVE  /\ got = {h}
             /\ h # cur \/ ended => \E k \in 1 .. Len(r) : r[k].empty
             /\ \A i \in 1 .. Len(r) :
                  ~r[i].empty /\ r[i].session # h => \E k \in 1 .. Len(r) : k < i /\ r[k].empty
  <2>1. got = {h} /\ (h # cur \/ ended => \E k \in 1 .. Len(q) : q[k].empty)
    BY <1>8 DEF Tidy
  <2>2. ASSUME NEW i \in 1 .. Len(r), ~r[i].empty, r[i].session # h
        PROVE  \E k \in 1 .. Len(r) : k < i /\ r[k].empty
    <3>1. PICK k \in 1 .. Len(q) : k < old(i) /\ q[k].empty
      BY <1>3, <1>8, <2>2 DEF Tidy
    <3>. QED
      BY <1>4, <3>1
  <2>. QED
    BY <1>4, <2>1, <2>2
<1>. QED
  BY <1>6, <1>7, <1>8 DEF Tidy, r

\* Data and ends may be doubled: the copy comes right before the original.
LEMMA TidyDoubled ==
  ASSUME NEW q \in Seq(Datagram), NEW got, NEW cur, NEW ended,
         Tidy(q, got, cur, ended), NEW n \in 1 .. Len(q)
  PROVE  Tidy(InsertAt(q, n, q[n]), got, cur, ended)
<1>. DEFINE r == InsertAt(q, n, q[n])
            old(j) == IF j <= n THEN j ELSE j - 1
            new(k) == IF k <= n THEN k ELSE k + 1
<1>1. /\ Len(r) = Len(q) + 1 
      /\ \A j \in 1 .. Len(q) + 1 : r[j] = IF j < n THEN q[j] ELSE IF j = n THEN q[n] ELSE q[j - 1]
  BY InsertAtItems
<1>2. Len(q) \in Nat
  OBVIOUS
<1>. HIDE DEF r
<1>3. \A j \in 1 .. Len(r) : old(j) \in 1 .. Len(q) /\ r[j] = q[old(j)]
  BY <1>1, <1>2
<1>4. ASSUME NEW k \in 1 .. Len(q)
      PROVE  /\ new(k) \in 1 .. Len(r) /\ r[new(k)] = q[k]
             /\ \A j \in 1 .. Len(r) : /\ k < old(j) => new(k) < j
                                       /\ old(j) < k => j < new(k)
  BY <1>1, <1>2
<1>5. \A i, j \in 1 .. Len(r) : i < j /\ old(i) # old(j) => old(i) < old(j)
  BY <1>1, <1>2
<1>. HIDE DEF old, new
<1>6. ASSUME NEW i \in 1 .. Len(r), NEW j \in 1 .. Len(r),
             i < j, ~r[i].empty, ~r[j].empty, r[i].session # r[j].session
      PROVE  \E k \in 1 .. Len(r) : i < k /\ k < j /\ r[k].empty
  <2>1. old(i) < old(j)
    BY <1>3, <1>5, <1>6
  <2>2. PICK k \in 1 .. Len(q) : old(i) < k /\ k < old(j) /\ q[k].empty
    BY <1>3, <1>6, <2>1 DEF Tidy
  <2>3. new(k) \in 1 .. Len(r) /\ i < new(k) /\ new(k) < j /\ r[new(k)] = q[k]
    BY <1>4, <2>2
  <2>. QED
    BY <2>2, <2>3
<1>7. ASSUME NEW i \in 1 .. Len(r), ~r[i].empty, r[i].session # cur \/ ended
      PROVE  \E k \in 1 .. Len(r) : i < k /\ r[k].empty
  <2>1. PICK k \in 1 .. Len(q) : old(i) < k /\ q[k].empty
    BY <1>3, <1>7 DEF Tidy
  <2>2. new(k) \in 1 .. Len(r) /\ i < new(k) /\ r[new(k)] = q[k]
    BY <1>4, <2>1
  <2>. QED
    BY <2>1, <2>2
<1>8. ASSUME NEW h \in got
      PROVE  /\ got = {h}
             /\ h # cur \/ ended => \E k \in 1 .. Len(r) : r[k].empty
             /\ \A i \in 1 .. Len(r) :
                  ~r[i].empty /\ r[i].session # h => \E k \in 1 .. Len(r) : k < i /\ r[k].empty
  <2>1. got = {h} /\ (h # cur \/ ended => \E k \in 1 .. Len(q) : q[k].empty)
    BY <1>8 DEF Tidy
  <2>2. ASSUME NEW i \in 1 .. Len(r), ~r[i].empty, r[i].session # h
        PROVE  \E k \in 1 .. Len(r) : k < i /\ r[k].empty
    <3>0. old(i) \in 1 .. Len(q) /\ ~q[old(i)].empty /\ q[old(i)].session # h
      BY <1>3, <2>2
    <3>1. PICK k \in 1 .. Len(q) : k < old(i) /\ q[k].empty
      BY <1>8, <3>0 DEF Tidy
    <3>2. new(k) \in 1 .. Len(r) /\ new(k) < i /\ r[new(k)] = q[k]
      BY <1>4, <3>1
    <3>. QED
      BY <3>1, <3>2
  <2>. QED
    BY <1>4, <2>1, <2>2
<1>. QED
  BY <1>6, <1>7, <1>8 DEF Tidy, r

\* The first datagram is an end: the handler goes.
LEMMA TidyEnded ==
  ASSUME NEW q \in Seq(Datagram), NEW got, NEW cur, NEW ended,
         Tidy(q, got, cur, ended), q # <<>>
  PROVE  Tidy(RemoveAt(q, 1), {}, cur, ended)
<1>. DEFINE r == RemoveAt(q, 1)
<1>1. Len(q) \in Nat \ {0} /\ 1 \in 1 .. Len(q)
  OBVIOUS
<1>2. Len(r) = Len(q) - 1 /\ \A j \in 1 .. Len(q) - 1 : r[j] = q[j + 1]
  BY <1>1, RemoveAtItems
<1>. HIDE DEF r
<1>3. \A j \in 1 .. Len(r) : j + 1 \in 1 .. Len(q) /\ r[j] = q[j + 1]
  BY <1>1, <1>2
<1>4. \A k \in 2 .. Len(q) : k - 1 \in 1 .. Len(r) /\ r[k - 1] = q[k]
  BY <1>1, <1>2
<1>5. ASSUME NEW i \in 1 .. Len(r), NEW j \in 1 .. Len(r),
             i < j, ~r[i].empty, ~r[j].empty, r[i].session # r[j].session
      PROVE  \E k \in 1 .. Len(r) : i < k /\ k < j /\ r[k].empty
  <2>0. /\ i + 1 \in 1 .. Len(q) /\ r[i] = q[i + 1]
        /\ j + 1 \in 1 .. Len(q) /\ r[j] = q[j + 1]
        /\ i + 1 < j + 1
    BY <1>1, <1>2, <1>3, <1>5
  <2>1. PICK k \in 1 .. Len(q) : i + 1 < k /\ k < j + 1 /\ q[k].empty
    BY <1>5, <2>0 DEF Tidy
  <2>2. k \in 2 .. Len(q) /\ i < k - 1 /\ k - 1 < j
    BY <2>1
  <2>. QED
    BY <1>4, <2>1, <2>2
<1>6. ASSUME NEW i \in 1 .. Len(r), ~r[i].empty, r[i].session # cur \/ ended
      PROVE  \E k \in 1 .. Len(r) : i < k /\ r[k].empty
  <2>1. PICK k \in 1 .. Len(q) : i + 1 < k /\ q[k].empty
    BY <1>3, <1>6 DEF Tidy
  <2>2. k \in 2 .. Len(q) /\ i < k - 1
    BY <2>1
  <2>. QED
    BY <1>4, <2>1, <2>2
<1>. QED
  BY <1>5, <1>6 DEF Tidy, r

\* The handler gets data that no end comes before, or is renewed for it.
LEMMA TidyGot ==
  ASSUME NEW q \in Seq(Datagram), NEW got, NEW cur, NEW ended,
         Tidy(q, got, cur, ended), NEW n \in 1 .. Len(q), ~q[n].empty,
         \A k \in 1 .. n - 1 : ~q[k].empty
  PROVE  Tidy(q, got \cup {q[n].session}, cur, ended)
<1>. DEFINE h == q[n].session
<1>1. Len(q) \in Nat /\ \A k \in 1 .. Len(q) : k < n => ~q[k].empty
  OBVIOUS
<1>2. got \cup {h} = {h}
  BY <1>1 DEF Tidy
<1>3. h # cur \/ ended => \E k \in 1 .. Len(q) : q[k].empty
  BY DEF Tidy
<1>4. ASSUME NEW i \in 1 .. Len(q), ~q[i].empty, q[i].session # h
      PROVE  \E k \in 1 .. Len(q) : k < i /\ q[k].empty
  <2>1. CASE i < n
    BY <1>1, <1>4, <2>1 DEF Tidy
  <2>2. CASE n < i
    BY <1>4, <2>2 DEF Tidy
  <2>. QED
    BY <1>4, <2>1, <2>2
<1>. QED
  BY <1>2, <1>3, <1>4 DEF Tidy

\* A new session begins, the last one being over.
LEMMA TidyRenewed ==
  ASSUME NEW q, NEW got, NEW cur, NEW new, Tidy(q, got, cur, TRUE)
  PROVE  Tidy(q, got, new, FALSE)
BY DEF Tidy

-------------------------------------------------------------------------------

UdpTyped == /\ is_open \subseteq Clients
            /\ session \in [Clients -> 0 .. MaxSessions]
            /\ saidEnd \subseteq Clients
            /\ net \in [Clients -> Seq(Datagram)]
            /\ \A c \in Clients : Len(net[c]) <= MaxNet
            /\ handlers \in [Clients -> SUBSET Sessions]
            /\ orderly \subseteq Clients

UdpInv == /\ UdpTyped
          /\ \A c \in Clients : session[c] = 0 => net[c] = <<>> /\ handlers[c] = {}
          /\ \A c \in orderly : Tidy(net[c], handlers[c], session[c], c \in saidEnd)

\* The addresses do not meet: a step that changes one leaves the others alone.
OnlyAt(c) == \A b \in Clients \ {c} :
               /\ net'[b] = net[b] /\ handlers'[b] = handlers[b] /\ session'[b] = session[b]
               /\ b \in saidEnd' <=> b \in saidEnd
               /\ b \in orderly' => b \in orderly

LEMMA OneAddress ==
  ASSUME UdpInv, NEW c \in Clients, UdpTyped', OnlyAt(c),
         session'[c] = 0 => net'[c] = <<>> /\ handlers'[c] = {},
         c \in orderly' => Tidy(net'[c], handlers'[c], session'[c], c \in saidEnd')
  PROVE  UdpInv'
<1>1. ASSUME NEW b \in Clients, session'[b] = 0
      PROVE  net'[b] = <<>> /\ handlers'[b] = {}
  BY <1>1 DEF UdpInv, OnlyAt
<1>2. ASSUME NEW b \in orderly', b # c
      PROVE  Tidy(net'[b], handlers'[b], session'[b], b \in saidEnd')
  <2>1. b \in Clients \ {c} /\ b \in orderly
    BY <1>2 DEF UdpTyped, OnlyAt
  <2>2. Tidy(net[b], handlers[b], session[b], b \in saidEnd)
    BY <2>1 DEF UdpInv
  <2>3. /\ net'[b] = net[b] /\ handlers'[b] = handlers[b] /\ session'[b] = session[b]
        /\ (b \in saidEnd') = (b \in saidEnd)
    BY <2>1 DEF OnlyAt
  <2>. QED
    BY <2>2, <2>3
<1>. QED
  BY <1>1, <1>2 DEF UdpInv

LEMMA UdpBegins == UdpInit => UdpInv
<1>. SUFFICES ASSUME UdpInit PROVE UdpInv
  OBVIOUS
<1>1. UdpTyped
  BY UdpAssumption DEF UdpInit, UdpTyped
<1>2. ASSUME NEW c \in Clients
      PROVE  Tidy(net[c], handlers[c], session[c], c \in saidEnd)
  <2>1. net[c] = <<>> /\ handlers[c] = {} /\ Len(<<>>) = 0
    BY DEF UdpInit
  <2>. QED
    BY <2>1 DEF Tidy
<1>. QED
  BY <1>1, <1>2 DEF UdpInit, UdpInv

LEMMA UdpConnects == ASSUME UdpInv, NEW c \in Clients, connect(c) PROVE UdpInv'
<1>1. UdpTyped' /\ OnlyAt(c) /\ session'[c] = session[c] + 1 /\ session[c] \in Nat
  BY UdpAssumption DEF connect, UdpInv, UdpTyped, OnlyAt
<1>2. ASSUME c \in orderly'
      PROVE  Tidy(net'[c], handlers'[c], session'[c], c \in saidEnd')
  <2>1. c \in orderly /\ (session[c] = 0 \/ c \in saidEnd) /\ c \notin saidEnd'
    BY <1>1, <1>2 DEF connect
  <2>2. CASE session[c] = 0
    <3>1. net'[c] = <<>> /\ handlers'[c] = {} /\ Len(<<>>) = 0
      BY <2>2 DEF UdpInv, connect
    <3>. QED
      BY <3>1 DEF Tidy
  <2>3. CASE c \in saidEnd
    <3>1. Tidy(net[c], handlers[c], session[c], TRUE)
      BY <2>1, <2>3 DEF UdpInv
    <3>2. Tidy(net[c], handlers[c], session'[c], FALSE)
      BY <3>1, TidyRenewed
    <3>3. (c \in saidEnd') = FALSE /\ net' = net /\ handlers' = handlers
      BY <2>1 DEF connect
    <3>. QED
      BY <3>2, <3>3
  <2>. QED
    BY <2>1, <2>2, <2>3
<1>. QED
  BY <1>1, <1>2, OneAddress

LEMMA UdpSends ==
  ASSUME UdpInv, NEW c \in Clients, NEW d \in Datagram, sendto(c, d)
  PROVE  UdpInv'
<1>1. /\ net[c] \in Seq(Datagram) /\ Append(net[c], d) \in Seq(Datagram)
      /\ Len(Append(net[c], d)) = Len(net[c]) + 1 /\ Len(net[c]) \in Nat
      /\ net'[c] = Append(net[c], d)
  BY DEF sendto, UdpInv, UdpTyped
<1>2. UdpTyped' /\ OnlyAt(c)
  BY <1>1, UdpAssumption DEF sendto, UdpInv, UdpTyped, OnlyAt
<1>3. session'[c] # 0
  BY DEF sendto, Datagram, Sessions
<1>4. ASSUME c \in orderly'
      PROVE  Tidy(net'[c], handlers'[c], session'[c], c \in saidEnd')
  <2>0. c \in orderly /\ (c \in saidEnd) = FALSE
    BY <1>4 DEF sendto
  <2>1. Tidy(net[c], handlers[c], session[c], FALSE)
    BY <2>0 DEF UdpInv
  <2>2. Tidy(Append(net[c], d), handlers[c], session[c], d.empty)
    BY <1>1, <2>1, TidySent DEF sendto
  <2>3. (c \in saidEnd') = d.empty
    BY DEF sendto, Datagram
  <2>. QED
    BY <1>1, <2>2, <2>3 DEF sendto
<1>. QED
  BY <1>2, <1>3, <1>4, OneAddress

LEMMA UdpCloses == ASSUME UdpInv, NEW c \in Clients, close(c) PROVE UdpInv'
BY DEF close, UdpInv, UdpTyped

\* What the network and svc do to the datagrams of one address.
LEMMA NetItems ==
  ASSUME UdpTyped, NEW c \in Clients, NEW i \in DOMAIN net[c]
  PROVE  /\ net[c] \in Seq(Datagram) /\ i \in 1 .. Len(net[c]) /\ net[c][i] \in Datagram
         /\ RemoveAt(net[c], i) \in Seq(Datagram) /\ Len(RemoveAt(net[c], i)) <= MaxNet
         /\ InsertAt(net[c], i, net[c][i]) \in Seq(Datagram)
         /\ Len(InsertAt(net[c], i, net[c][i])) = Len(net[c]) + 1
         /\ net[c] # <<>>
<1>1. net[c] \in Seq(Datagram) /\ i \in 1 .. Len(net[c]) /\ Len(net[c]) \in Nat /\ Len(net[c]) <= MaxNet
  BY DEF UdpTyped
<1>2. net[c][i] \in Datagram /\ net[c] # <<>>
  BY <1>1
<1>3. RemoveAt(net[c], i) \in Seq(Datagram) /\ Len(RemoveAt(net[c], i)) = Len(net[c]) - 1
  BY <1>1, RemoveAtItems
<1>4. /\ InsertAt(net[c], i, net[c][i]) \in Seq(Datagram)
      /\ Len(InsertAt(net[c], i, net[c][i])) = Len(net[c]) + 1
  BY <1>1, <1>2, InsertAtItems
<1>5. Len(net[c]) - 1 <= MaxNet
  BY <1>1, UdpAssumption
<1>. QED
  BY <1>1, <1>2, <1>3, <1>4, <1>5

LEMMA UdpLoses ==
  ASSUME UdpInv, NEW c \in Clients, NEW i \in DOMAIN net[c], Lose(c, i)
  PROVE  UdpInv'
<1>. UdpTyped
  BY DEF UdpInv
<1>1. UdpTyped' /\ OnlyAt(c) /\ net'[c] = RemoveAt(net[c], i)
  BY NetItems DEF Lose, client, UdpTyped, OnlyAt
<1>2. session[c] # 0
  BY NetItems DEF UdpInv
<1>3. ASSUME c \in orderly'
      PROVE  Tidy(net'[c], handlers'[c], session'[c], c \in saidEnd')
  <2>1. ~net[c][i].empty /\ Tidy(net[c], handlers[c], session[c], c \in saidEnd)
    BY <1>3 DEF Lose, UdpInv
  <2>2. Tidy(RemoveAt(net[c], i), handlers[c], session[c], c \in saidEnd)
    BY <2>1, NetItems, TidyLost
  <2>. QED
    BY <1>1, <2>2 DEF Lose, client
<1>. QED
  BY <1>1, <1>2, <1>3, OneAddress DEF Lose, client

LEMMA UdpDoubles ==
  ASSUME UdpInv, NEW c \in Clients, NEW i \in DOMAIN net[c], Duplicate(c, i)
  PROVE  UdpInv'
<1>. UdpTyped
  BY DEF UdpInv
<1>1. /\ OnlyAt(c) /\ net'[c] = InsertAt(net[c], i, net[c][i])
      /\ Len(net[c]) \in Nat /\ Len(net[c]) < MaxNet
  BY NetItems DEF Duplicate, client, UdpTyped, OnlyAt
<1>2. UdpTyped'
  BY <1>1, NetItems, UdpAssumption DEF Duplicate, client, UdpTyped
<1>3. session[c] # 0
  BY NetItems DEF UdpInv
<1>4. ASSUME c \in orderly'
      PROVE  Tidy(net'[c], handlers'[c], session'[c], c \in saidEnd')
  <2>1. Tidy(net[c], handlers[c], session[c], c \in saidEnd)
    BY <1>4 DEF Duplicate, UdpInv
  <2>2. Tidy(InsertAt(net[c], i, net[c][i]), handlers[c], session[c], c \in saidEnd)
    BY <2>1, NetItems, TidyDoubled
  <2>. QED
    BY <1>1, <2>2 DEF Duplicate, client
<1>. QED
  BY <1>1, <1>2, <1>3, <1>4, OneAddress DEF Duplicate, client

LEMMA UdpEnds ==
  ASSUME UdpInv, NEW c \in Clients, NEW i \in DOMAIN net[c], ReceiveEnd(c, i)
  PROVE  UdpInv'
<1>. UdpTyped
  BY DEF UdpInv
<1>1. /\ UdpTyped' /\ OnlyAt(c) /\ net'[c] = RemoveAt(net[c], i) /\ handlers'[c] = {}
  BY NetItems DEF ReceiveEnd, client, UdpTyped, OnlyAt
<1>2. session[c] # 0
  BY NetItems DEF UdpInv
<1>3. ASSUME c \in orderly'
      PROVE  Tidy(net'[c], handlers'[c], session'[c], c \in saidEnd')
  <2>1. ~CrossesEnd(c, i) /\ Tidy(net[c], handlers[c], session[c], c \in saidEnd)
    BY <1>3 DEF ReceiveEnd, UdpInv
  <2>2. i = 1
    <3>1. SUFFICES ASSUME i # 1 PROVE FALSE
      OBVIOUS
    <3>2. 1 \in 1 .. i - 1
      BY <3>1, NetItems
    <3>. QED
      BY <2>1, <3>2 DEF CrossesEnd, ReceiveEnd
  <2>3. Tidy(RemoveAt(net[c], 1), {}, session[c], c \in saidEnd)
    BY <2>1, NetItems, TidyEnded
  <2>. QED
    BY <1>1, <2>2, <2>3 DEF ReceiveEnd, client
<1>. QED
  BY <1>1, <1>2, <1>3, OneAddress DEF ReceiveEnd, client

LEMMA UdpGets ==
  ASSUME UdpInv, NEW c \in Clients, NEW i \in DOMAIN net[c], ReceiveData(c, i)
  PROVE  UdpInv'
<1>. UdpTyped
  BY DEF UdpInv
<1>. DEFINE got == handlers[c] \cup {net[c][i].session}
<1>1. net[c][i].session \in Sessions
  BY NetItems DEF Datagram
<1>2. UdpTyped' /\ OnlyAt(c) /\ net'[c] = RemoveAt(net[c], i) /\ handlers'[c] = got
  BY <1>1, NetItems DEF ReceiveData, client, UdpTyped, OnlyAt
<1>3. session[c] # 0
  BY NetItems DEF UdpInv
<1>4. ASSUME c \in orderly'
      PROVE  Tidy(net'[c], handlers'[c], session'[c], c \in saidEnd')
  <2>1. ~CrossesEnd(c, i) /\ Tidy(net[c], handlers[c], session[c], c \in saidEnd)
    BY <1>4 DEF ReceiveData, UdpInv
  <2>2. ~net[c][i].empty /\ \A k \in 1 .. i - 1 : ~net[c][k].empty
    BY <2>1 DEF CrossesEnd, ReceiveData
  <2>3. Tidy(net[c], got, session[c], c \in saidEnd)
    BY <2>1, <2>2, NetItems, TidyGot
  <2>4. Tidy(RemoveAt(net[c], i), got, session[c], c \in saidEnd)
    BY <2>2, <2>3, NetItems, TidyLost
  <2>. QED
    BY <1>2, <2>4 DEF ReceiveData, client
<1>. QED
  BY <1>2, <1>3, <1>4, OneAddress DEF ReceiveData, client

LEMMA UdpInvariant == UdpSpec => []UdpInv
<1>1. UdpInv /\ [UdpNext]_udpVars => UdpInv'
  <2>1. UdpInv /\ UdpNext => UdpInv'
    BY UdpConnects, UdpSends, UdpCloses, UdpLoses, UdpDoubles, UdpEnds, UdpGets DEF UdpNext, svc
  <2>2. UdpInv /\ UNCHANGED udpVars => UdpInv'
    BY DEF UdpInv, UdpTyped, udpVars, client
  <2>. QED
    BY <2>1, <2>2
<1>. QED
  BY <1>1, UdpBegins, PTL DEF UdpSpec

\* The variables of the reactor, its clients and the network keep their types.
THEOREM UdpTypeCorrect == UdpSpec => []UdpTypeOK
<1>1. UdpInv => UdpTypeOK
  <2>. SUFFICES ASSUME UdpInv PROVE UdpTypeOK
    OBVIOUS
  <2>1. ASSUME NEW c \in Clients PROVE net[c] \in BoundedSeq(Datagram, MaxNet)
    <3>1. Len(net[c]) \in 0 .. MaxNet /\ net[c] \in [1 .. Len(net[c]) -> Datagram]
      BY UdpAssumption DEF UdpInv, UdpTyped
    <3>. QED
      BY <3>1 DEF BoundedSeq, SeqOf
  <2>. QED
    BY <2>1 DEF UdpInv, UdpTyped, UdpTypeOK
<1>. QED
  BY <1>1, UdpInvariant, PTL

\* One handler serves one session, and none outlives its session and its
\* datagrams (UdpReactor.cpp:182-241), as long as ends come once and in order.
THEOREM HandlersArePerSession == UdpSpec => []HandlerPerSession
<1>1. UdpInv => HandlerPerSession
  <2>. SUFFICES ASSUME UdpInv, NEW c \in orderly
                PROVE  /\ Cardinality(handlers[c]) <= 1
                       /\ net[c] = <<>> /\ handlers[c] # {}
                            => handlers[c] = {session[c]} /\ c \notin saidEnd
    BY DEF HandlerPerSession
  <2>1. Tidy(net[c], handlers[c], session[c], c \in saidEnd)
    BY DEF UdpInv
  <2>2. CASE handlers[c] = {}
    BY <2>2, FS_EmptySet
  <2>3. ASSUME NEW h \in handlers[c]
        PROVE  /\ Cardinality(handlers[c]) <= 1
               /\ net[c] = <<>> => handlers[c] = {session[c]} /\ c \notin saidEnd
    <3>1. handlers[c] = {h}
      BY <2>1, <2>3 DEF Tidy
    <3>2. Cardinality({h}) = 1
      BY FS_Singleton
    <3>3. h # session[c] \/ c \in saidEnd => \E k \in 1 .. Len(net[c]) : net[c][k].empty
      BY <2>1, <2>3 DEF Tidy
    <3>4. Len(<<>>) = 0
      OBVIOUS
    <3>. QED
      BY <3>1, <3>2, <3>3, <3>4
  <2>. QED
    BY <2>2, <2>3
<1>. QED
  BY <1>1, UdpInvariant, PTL

-------------------------------------------------------------------------------
(* Messages over a TCP connection: the types *)

SenderTypes ==
  /\ holder \subseteq Senders
  /\ pc \in [Senders -> {"idle", "lock", "first", "again"}]
  /\ len \in [Senders -> 0 .. MsgSize]
  /\ buf_size \in [Senders -> 0 .. MsgSize]
  /\ msg \in [Senders -> 1 .. MaxMsgs + 1]
  /\ done \in [Senders -> 0 .. MsgSize]

PipeTypes ==
  /\ pipe \in Seq(Bytes) /\ Len(pipe) <= Capacity
  /\ closed => pipe = <<>>
  /\ closed \in BOOLEAN
  /\ mixed \in BOOLEAN

ReaderTypes ==
  /\ reading \in {"idle", "first", "again"}
  /\ once \in BOOLEAN
  /\ need \in 0 .. MsgSize
  /\ reading # "idle" => need > 0 /\ need = MsgSize - Len(frame)
  /\ frame \in Seq(Bytes) /\ Len(frame) <= MsgSize
  /\ received \in Seq(Bytes)

\* One thread at a time is in send_n; what it has still to send completes its
\* message, and nobody is beyond a message's end.
OneSends ==
  /\ \A s \in Senders : s \in holder <=> InLoop(s)
  /\ \A s, t \in holder : s = t
  /\ \A s \in Senders :
       /\ done[s] < MsgSize
       /\ done[s] > 0 \/ pc[s] # "idle" => msg[s] <= MaxMsgs
       /\ InLoop(s) => buf_size[s] > 0 /\ done[s] + len[s] + buf_size[s] = MsgSize
       /\ ~InLoop(s) => buf_size[s] = 0 /\ len[s] = 0

Loaded == SenderTypes /\ PipeTypes /\ ReaderTypes /\ OneSends

LEMMA Nats == /\ MsgSize \in Nat /\ MsgSize > 0 /\ MsgSize \in Int
              /\ MaxMsgs \in Nat /\ Capacity \in Nat
BY TransferAssumption

\* The next n bytes of thread s.
Block(s, n) == [i \in 1 .. n |-> <<s, msg[s], done[s] + len[s] + i>>]

LEMMA BlockItems ==
  ASSUME Loaded, NEW s \in Senders, InLoop(s), NEW n \in 1 .. buf_size[s]
  PROVE  /\ Block(s, n) \in Seq(Bytes) /\ Len(Block(s, n)) = n
         /\ \A i \in 1 .. n : Block(s, n)[i] = <<s, msg[s], done[s] + len[s] + i>>
         /\ done[s] + len[s] + n <= MsgSize
         /\ n \in Nat /\ done[s] \in Nat /\ len[s] \in Nat /\ buf_size[s] \in Nat
<1>1. /\ n \in Nat /\ done[s] \in Nat /\ len[s] \in Nat /\ buf_size[s] \in Nat
      /\ msg[s] \in 1 .. MaxMsgs
      /\ done[s] + len[s] + n <= MsgSize
  BY Nats DEF Loaded, SenderTypes, PipeTypes, ReaderTypes, OneSends, InLoop
<1>2. \A i \in 1 .. n : <<s, msg[s], done[s] + len[s] + i>> \in Bytes
  <2>. SUFFICES ASSUME NEW i \in 1 .. n PROVE done[s] + len[s] + i \in 1 .. MsgSize
    BY <1>1 DEF Bytes
  <2>. QED
    BY <1>1, Nats
<1>3. Block(s, n) \in Seq(Bytes) /\ Len(Block(s, n)) = n
  BY <1>1, <1>2 DEF Block
<1>. QED
  BY <1>1, <1>3 DEF Block

LEMMA SomeSent ==
  ASSUME Loaded, NEW s \in Senders, NEW n \in 1 .. buf_size[s], Put(s, n)
  PROVE  /\ InLoop(s) /\ ~closed
         /\ pipe' = pipe \o Block(s, n) /\ pipe' \in Seq(Bytes) /\ Len(pipe') <= Capacity
<1>1. InLoop(s) /\ ~closed /\ pipe' = pipe \o Block(s, n) /\ Len(pipe) + n <= Capacity
  BY DEF Put, Block
<1>2. Block(s, n) \in Seq(Bytes) /\ Len(Block(s, n)) = n
  BY <1>1, BlockItems
<1>3. pipe \in Seq(Bytes)
  BY DEF Loaded, PipeTypes
<1>. QED
  BY <1>1, <1>2, <1>3, ConcatItems

LEMMA LoadedInit == Init => Loaded
<1>. SUFFICES ASSUME Init PROVE Loaded
  OBVIOUS
<1>1. SenderTypes
  BY Nats DEF Init, SenderTypes
<1>2. PipeTypes /\ ReaderTypes
  <2>1. <<>> \in Seq(Bytes) /\ Len(<<>>) = 0
    OBVIOUS
  <2>2. pipe = <<>> /\ frame = <<>> /\ received = <<>> /\ need = 0 /\ reading = "idle"
    BY DEF Init
  <2>3. closed = FALSE /\ mixed = FALSE /\ once = FALSE
    BY DEF Init
  <2>4. /\ pipe \in Seq(Bytes) /\ frame \in Seq(Bytes) /\ received \in Seq(Bytes)
        /\ Len(pipe) <= Capacity /\ Len(frame) <= MsgSize /\ need \in 0 .. MsgSize
    BY <2>1, <2>2, Nats
  <2>5. PipeTypes
    BY <2>2, <2>3, <2>4, Zenon DEF PipeTypes
  <2>6. ReaderTypes
    BY <2>2, <2>3, <2>4, Zenon DEF ReaderTypes
  <2>. QED
    BY <2>5, <2>6
<1>3. OneSends
  BY Nats DEF Init, OneSends, InLoop
<1>. QED
  BY <1>1, <1>2, <1>3 DEF Loaded

LEMMA ReaderWaits == Loaded /\ UNCHANGED reader => ReaderTypes'
BY DEF Loaded, ReaderTypes, reader

LEMMA LoadedCalls ==
  ASSUME Loaded, NEW s \in Senders, CallSend(s) \/ Lock(s) \/ SendWaits(s)
  PROVE  Loaded'
<1>1. UNCHANGED <<pipe, closed, reader>>
  BY DEF CallSend, Lock, BeginSend, SendWaits
<1>2. mixed' \in BOOLEAN
  BY DEF Loaded, PipeTypes, CallSend, Lock, BeginSend, SendWaits
<1>3. PipeTypes' /\ ReaderTypes'
  BY <1>1, <1>2, ReaderWaits DEF Loaded, PipeTypes
<1>4. CASE CallSend(s)
  <2>1. SenderTypes'
    BY <1>4 DEF Loaded, SenderTypes, CallSend
  <2>2. OneSends'
    BY <1>4, Nats DEF Loaded, SenderTypes, OneSends, CallSend, InLoop
  <2>. QED
    BY <1>3, <2>1, <2>2 DEF Loaded
<1>5. CASE Lock(s)
  <2>1. MsgSize - done[s] \in 1 .. MsgSize
    BY Nats DEF Loaded, SenderTypes, OneSends
  <2>2. SenderTypes'
    BY <1>5, <2>1, Nats DEF Loaded, SenderTypes, Lock, BeginSend
  <2>3. OneSends'
    BY <1>5, <2>1, Nats DEF Loaded, SenderTypes, OneSends, Lock, BeginSend, InLoop
  <2>. QED
    BY <1>3, <2>2, <2>3 DEF Loaded
<1>6. CASE SendWaits(s)
  <2>1. SenderTypes'
    BY <1>6 DEF Loaded, SenderTypes, SendWaits
  <2>2. OneSends'
    BY <1>6, Nats DEF Loaded, SenderTypes, OneSends, SendWaits, InLoop
  <2>. QED
    BY <1>3, <2>1, <2>2 DEF Loaded
<1>. QED
  BY <1>4, <1>5, <1>6

LEMMA LoadedSends ==
  ASSUME Loaded, NEW s \in Senders, SendRest(s) \/ SendPart(s)
  PROVE  Loaded'
<1>1. ASSUME NEW n \in 1 .. buf_size[s], Put(s, n)
      PROVE  PipeTypes' /\ ReaderTypes' /\ InLoop(s)
  BY <1>1, SomeSent, ReaderWaits DEF Loaded, PipeTypes, Put
<1>2. CASE SendRest(s)
  <2>1. InLoop(s) /\ buf_size[s] \in 1 .. buf_size[s]
    BY <1>2, Nats DEF SendRest, Put, Loaded, SenderTypes, OneSends
  <2>2. SenderTypes'
    BY <1>2, <2>1, Nats DEF Loaded, SenderTypes, OneSends, SendRest, Return, InLoop
  <2>3. OneSends'
    BY <1>2, <2>1, Nats DEF Loaded, SenderTypes, OneSends, SendRest, Return, InLoop
  <2>. QED
    BY <1>1, <1>2, <2>1, <2>2, <2>3 DEF Loaded, SendRest
<1>3. CASE SendPart(s)
  <2>1. PICK n \in 1 .. buf_size[s] - 1 :
          /\ Put(s, n)
          /\ len' = [len EXCEPT ![s] = @ + n]
          /\ buf_size' = [buf_size EXCEPT ![s] = @ - n]
          /\ pc' = [pc EXCEPT ![s] = "again"]
          /\ UNCHANGED <<holder, msg, done>>
    BY <1>3 DEF SendPart
  <2>2. InLoop(s) /\ len[s] \in Nat /\ buf_size[s] \in Nat /\ done[s] \in Nat
    BY <2>1, Nats DEF Put, Loaded, SenderTypes
  <2>3. done[s] + len[s] + buf_size[s] = MsgSize
    BY <2>2 DEF Loaded, OneSends
  <2>4. /\ len[s] + n \in 0 .. MsgSize /\ buf_size[s] - n \in 1 .. MsgSize
        /\ done[s] + (len[s] + n) + (buf_size[s] - n) = MsgSize
        /\ n \in 1 .. buf_size[s]
    BY <2>2, <2>3, Nats
  <2>5. SenderTypes'
    BY <2>1, <2>4 DEF Loaded, SenderTypes
  <2>6. OneSends'
    <3>1. \A t \in Senders : InLoop(t)' <=> InLoop(t)
      BY <2>1, <2>2 DEF Loaded, SenderTypes, InLoop
    <3>2. /\ len'[s] = len[s] + n /\ buf_size'[s] = buf_size[s] - n
          /\ \A t \in Senders \ {s} : len'[t] = len[t] /\ buf_size'[t] = buf_size[t] /\ pc'[t] = pc[t]
      BY <2>1 DEF Loaded, SenderTypes
    <3>. QED
      BY <2>1, <2>2, <2>4, <3>1, <3>2 DEF Loaded, OneSends, InLoop
  <2>. QED
    BY <1>1, <2>1, <2>4, <2>5, <2>6 DEF Loaded
<1>. QED
  BY <1>2, <1>3

LEMMA LoadedReturns ==
  ASSUME Loaded, NEW s \in Senders, SendTimesOut(s) \/ SendFails(s)
  PROVE  Loaded'
<1>1. InLoop(s) /\ ReturnPart(s, len[s])
  BY DEF SendTimesOut, SendFails, InLoop
<1>2. done[s] + len[s] \in 0 .. MsgSize /\ done[s] + len[s] < MsgSize /\ msg[s] <= MaxMsgs
  BY <1>1, Nats DEF Loaded, SenderTypes, OneSends, InLoop
<1>3. PipeTypes' /\ ReaderTypes'
  BY <1>1, ReaderWaits DEF Loaded, PipeTypes, ReturnPart
<1>4. SenderTypes'
  BY <1>1, <1>2, Nats DEF Loaded, SenderTypes, ReturnPart, Return
<1>5. OneSends'
  BY <1>1, <1>2, Nats DEF Loaded, SenderTypes, OneSends, ReturnPart, Return, InLoop
<1>. QED
  BY <1>3, <1>4, <1>5 DEF Loaded

\* The bytes that the reader gets.
LEMMA SomeGot ==
  ASSUME Loaded, NEW n \in 1 .. need, Get(n)
  PROVE  /\ n \in 1 .. Len(pipe) /\ n <= MsgSize - Len(frame) /\ ~closed
         /\ frame' \in Seq(Bytes) /\ Len(frame') = Len(frame) + n
         /\ received' \in Seq(Bytes)
         /\ pipe' \in Seq(Bytes) /\ Len(pipe') = Len(pipe) - n
         /\ frame' \o pipe' = frame \o pipe /\ received' \o pipe' = received \o pipe
<1>1. /\ pipe \in Seq(Bytes) /\ frame \in Seq(Bytes) /\ received \in Seq(Bytes)
      /\ Len(pipe) \in Nat /\ Len(frame) \in Nat
      /\ n \in 1 .. Len(pipe) /\ n \in 0 .. Len(pipe) /\ n <= MsgSize - Len(frame)
  BY Nats DEF Loaded, SenderTypes, PipeTypes, ReaderTypes, Get
<1>2. ~closed
  <2>1. Len(<<>>) = 0
    OBVIOUS
  <2>. QED
    BY <1>1, <2>1 DEF Loaded, SenderTypes, PipeTypes, ReaderTypes
<1>3. /\ SubSeq(pipe, 1, n) \in Seq(Bytes) /\ Len(SubSeq(pipe, 1, n)) = n
      /\ pipe' \in Seq(Bytes) /\ Len(pipe') = Len(pipe) - n
  BY <1>1, CutItems DEF Get
<1>4. frame' \in Seq(Bytes) /\ Len(frame') = Len(frame) + n /\ received' \in Seq(Bytes)
  BY <1>1, <1>3, ConcatItems DEF Get
<1>5. frame' \o pipe' = frame \o pipe /\ received' \o pipe' = received \o pipe
  BY <1>1, Moved DEF Get
<1>. QED
  BY <1>1, <1>2, <1>3, <1>4, <1>5

LEMMA LoadedGets ==
  ASSUME Loaded, RecvSome \/ RecvOnce
  PROVE  Loaded'
<1>1. PICK n \in 1 .. need : Get(n) /\ reading' \in {"idle", IF n = need THEN "idle" ELSE "again"}
  BY DEF RecvSome, RecvOnce
<1>2. SenderTypes' /\ OneSends'
  BY <1>1 DEF Loaded, SenderTypes, OneSends, Get, sender, InLoop
<1>3. need \in Nat /\ need' = need - n /\ need = MsgSize - Len(frame) /\ Len(frame) \in Nat /\ Len(pipe) \in Nat
  BY <1>1, Nats DEF Loaded, ReaderTypes, PipeTypes, Get
<1>4. PipeTypes'
  <2>1. /\ pipe' \in Seq(Bytes) /\ Len(pipe') = Len(pipe) - n /\ n > 0 /\ ~closed
    BY <1>1, <1>3, SomeGot
  <2>2. /\ closed' = closed /\ closed \in BOOLEAN /\ mixed' = mixed /\ mixed \in BOOLEAN
        /\ Len(pipe) <= Capacity
    BY <1>1 DEF Get, Loaded, PipeTypes
  <2>3. Len(pipe') <= Capacity
    BY <1>3, <2>1, <2>2, Nats
  <2>. QED
    BY <2>1, <2>2, <2>3 DEF PipeTypes
<1>5. need' \in 0 .. MsgSize /\ need' = MsgSize - Len(frame') /\ Len(frame') <= MsgSize
  <2>1. Len(frame') = Len(frame) + n
    BY <1>1, SomeGot
  <2>. QED
    BY <1>1, <1>3, <2>1, Nats
<1>6. reading' \in {"idle", "first", "again"} /\ (reading' # "idle" => need' > 0)
  BY <1>1, <1>3
<1>7. once' \in BOOLEAN
  BY DEF RecvSome, RecvOnce, Loaded, ReaderTypes
<1>8. ReaderTypes'
  BY <1>1, <1>5, <1>6, <1>7, SomeGot DEF ReaderTypes
<1>. QED
  BY <1>2, <1>4, <1>8 DEF Loaded

LEMMA LoadedRest ==
  ASSUME Loaded, RecvBegins \/ RecvWaits \/ RecvTimesOut \/ PeerCloses \/ UNCHANGED vars
  PROVE  Loaded'
<1>1. SenderTypes' /\ OneSends'
  BY DEF Loaded, SenderTypes, OneSends, RecvBegins, RecvWaits, RecvTimesOut, PeerCloses, vars, sender, InLoop
<1>2. CASE RecvBegins
  <2>1. frame' \in Seq(Bytes) /\ Len(frame') \in Nat /\ Len(frame') < MsgSize
    BY <1>2, Nats DEF Loaded, ReaderTypes, RecvBegins
  <2>2. need' = MsgSize - Len(frame') /\ need' \in 1 .. MsgSize
    BY <1>2, <2>1, Nats DEF RecvBegins
  <2>3. ReaderTypes'
    BY <1>2, <2>1, <2>2 DEF Loaded, ReaderTypes, RecvBegins
  <2>4. PipeTypes'
    BY <1>2 DEF Loaded, PipeTypes, RecvBegins
  <2>. QED
    BY <1>1, <2>3, <2>4 DEF Loaded
<1>3. CASE RecvWaits
  BY <1>1, <1>3 DEF Loaded, ReaderTypes, PipeTypes, RecvWaits
<1>4. CASE RecvTimesOut
  BY <1>1, <1>4 DEF Loaded, ReaderTypes, PipeTypes, RecvTimesOut
<1>5. CASE PeerCloses
  <2>1. <<>> \in Seq(Bytes) /\ Len(<<>>) = 0
    OBVIOUS
  <2>2. PipeTypes' /\ UNCHANGED reader
    BY <1>5, <2>1, Nats DEF Loaded, PipeTypes, PeerCloses
  <2>. QED
    BY <1>1, <2>2, ReaderWaits DEF Loaded
<1>6. CASE UNCHANGED vars
  BY <1>1, <1>6, ReaderWaits DEF Loaded, PipeTypes, vars
<1>. QED
  BY <1>2, <1>3, <1>4, <1>5, <1>6

-------------------------------------------------------------------------------
(* Messages over a TCP connection: the stream *)

\* The pipe's bytes follow those before it: bytes put into it come last.
LEMMA PutLast ==
  ASSUME NEW q \in Seq(Bytes), Loaded, NEW s \in Senders, NEW n \in 1 .. buf_size[s], Put(s, n)
  PROVE  /\ q \o pipe' = (q \o pipe) \o Block(s, n)
         /\ q \o pipe \in Seq(Bytes)
         /\ Len(q \o pipe') = Len(q \o pipe) + n
         /\ \A i \in 1 .. Len(q \o pipe) : (q \o pipe')[i] = (q \o pipe)[i]
         /\ \A i \in 1 .. n : (q \o pipe')[Len(q \o pipe) + i] = <<s, msg[s], done[s] + len[s] + i>>
         /\ \A i \in 1 .. Len(q \o pipe') :
              i \in 1 .. Len(q \o pipe) \/ \E k \in 1 .. n : i = Len(q \o pipe) + k
<1>1. InLoop(s) /\ pipe' = pipe \o Block(s, n) /\ pipe \in Seq(Bytes)
  BY SomeSent DEF Loaded, PipeTypes
<1>2. /\ Block(s, n) \in Seq(Bytes) /\ Len(Block(s, n)) = n /\ n \in Nat
      /\ \A i \in 1 .. n : Block(s, n)[i] = <<s, msg[s], done[s] + len[s] + i>>
  BY <1>1, BlockItems
<1>3. q \o pipe' = (q \o pipe) \o Block(s, n)
  <2>1. \A t, u \in Seq(Bytes) : (q \o t) \o u = q \o (t \o u)
    BY ConcatAssociative
  <2>. QED
    BY <1>1, <1>2, <2>1
<1>. DEFINE r == q \o pipe
<1>4. r \in Seq(Bytes) /\ Len(r) \in Nat
  BY <1>1, ConcatItems
<1>. HIDE DEF r
<1>5. /\ Len(r \o Block(s, n)) = Len(r) + n
      /\ \A i \in 1 .. Len(r) : (r \o Block(s, n))[i] = r[i]
      /\ \A i \in 1 .. n : (r \o Block(s, n))[Len(r) + i] = Block(s, n)[i]
  <2>1. \A t \in Seq(Bytes) : /\ Len(r \o t) = Len(r) + Len(t)
                              /\ \A i \in 1 .. Len(r) : (r \o t)[i] = r[i]
                              /\ \A i \in 1 .. Len(t) : (r \o t)[Len(r) + i] = t[i]
    BY <1>4, ConcatItems
  <2>. QED
    BY <1>2, <2>1
<1>6. ASSUME NEW i \in 1 .. Len(r) + n
      PROVE  i \in 1 .. Len(r) \/ \E k \in 1 .. n : i = Len(r) + k
  <2>1. CASE ~(i <= Len(r))
    <3>1. i - Len(r) \in 1 .. n /\ i = Len(r) + (i - Len(r))
      BY <1>2, <1>4, <2>1
    <3>. QED
      BY <3>1
  <2>. QED
    BY <1>4, <2>1
<1>. QED
  BY <1>2, <1>3, <1>4, <1>5, <1>6 DEF r

LEMMA ByteIs == \A b \in Bytes : /\ b = <<b[1], b[2], b[3]>> /\ b[1] \in Senders
                                 /\ b[2] \in Nat /\ b[3] \in 1 .. MsgSize /\ b[3] \in Nat
BY Nats DEF Bytes

LEMMA SendersNats ==
  ASSUME Loaded, NEW s \in Senders
  PROVE  /\ len[s] \in Nat /\ done[s] \in Nat /\ msg[s] \in Nat /\ buf_size[s] \in Nat
         /\ Handed(s) \in Nat /\ Handed(s) < MsgSize
         /\ ~InLoop(s) => len[s] = 0
<1>1. len[s] \in Nat /\ done[s] \in Nat /\ msg[s] \in Nat /\ buf_size[s] \in Nat
  BY Nats DEF Loaded, SenderTypes
<1>. QED
  BY <1>1, Nats DEF Loaded, OneSends, Handed

\* What is in a stream, once and in each thread's order.
Once(q, given) ==
  /\ ToSet(q) = given
  /\ \A i, j \in 1 .. Len(q) : i < j /\ q[i][1] = q[j][1] => Before(q[i], q[j])


\* r is q and behind it the n bytes of a message of thread s that follow its
\* first h; both are the bytes given so far and these.
Appends(q, r, given, both, s, m, h, n) ==
  /\ Len(r) = Len(q) + n
  /\ \A i \in 1 .. Len(q) : r[i] = q[i]
  /\ \A i \in 1 .. n : r[Len(q) + i] = <<s, m, h + i>>
  /\ \A b \in given : b[1] = s => \/ b[2] < m
                                  \/ /\ b[2] = m
                                     /\ b[3] <= h
  /\ \A b \in Bytes : b \in both <=> \/ b \in given
                                     \/ /\ b[1] = s /\ b[2] = m
                                        /\ h < b[3] /\ b[3] <= h + n

LEMMA OncePut ==
  ASSUME NEW q \in Seq(Bytes), NEW r \in Seq(Bytes), NEW given \in SUBSET Bytes,
         NEW both \in SUBSET Bytes, NEW s \in Senders, NEW m \in Nat, NEW h \in Nat, NEW n \in Nat,
         Appends(q, r, given, both, s, m, h, n), Once(q, given)
  PROVE  Once(r, both)
<1>. USE DEF Appends
<1>. DEFINE new == {b \in Bytes : b[1] = s /\ b[2] = m /\ h < b[3] /\ b[3] <= h + n}
<1>0. both = given \cup new
  OBVIOUS
<1>1. /\ Len(q) \in Nat /\ ToSet(q) = {q[i] : i \in 1 .. Len(q)} /\ ToSet(r) = {r[i] : i \in 1 .. Len(r)}
      /\ \A i \in 1 .. Len(r) : r[i] \in Bytes
  BY SMTT(20) DEF ToSet
<1>2. ASSUME NEW i \in 1 .. Len(r)
      PROVE  i \in 1 .. Len(q) \/ \E k \in 1 .. n : i = Len(q) + k
  <2>1. CASE ~(i <= Len(q))
    <3>1. i - Len(q) \in 1 .. n /\ i = Len(q) + (i - Len(q))
      BY <1>1, <2>1
    <3>. QED
      BY <3>1
  <2>. QED
    BY <1>1, <2>1
<1>3. \A k \in 1 .. n : Len(q) + k \in 1 .. Len(r)
  BY <1>1
<1>4. \A k \in 1 .. n : /\ r[Len(q) + k][1] = s /\ r[Len(q) + k][2] = m /\ r[Len(q) + k][3] = h + k
  <2>. TAKE k \in 1 .. n
  <2>1. r[Len(q) + k] = <<s, m, h + k>>
    OBVIOUS
  <2>. HIDE DEF Appends
  <2>. QED
    BY ONLY <2>1
<1>5. ASSUME NEW i \in 1 .. Len(r) PROVE r[i] \in given \cup new
  <2>1. CASE i \in 1 .. Len(q)
    BY <1>1, <2>1 DEF Once
  <2>2. CASE \E k \in 1 .. n : i = Len(q) + k
    <3>1. PICK k \in 1 .. n : i = Len(q) + k
      BY <2>2
    <3>2. r[i][1] = s /\ r[i][2] = m /\ r[i][3] = h + k
      BY <1>4, <3>1
    <3>3. r[i] \in Bytes /\ h < h + k /\ h + k <= h + n
      BY <1>1
    <3>. QED
      BY <3>2, <3>3
  <2>. QED
    BY <1>2, <2>1, <2>2
<1>6. ASSUME NEW b \in given PROVE b \in ToSet(r)
  <2>1. PICK i \in 1 .. Len(q) : q[i] = b
    BY <1>1 DEF Once
  <2>2. i \in 1 .. Len(r) /\ r[i] = b
    BY <1>1, <2>1
  <2>. QED
    BY <1>1, <2>2
<1>7. ASSUME NEW b \in new PROVE b \in ToSet(r)
  <2>1. b = <<s, m, b[3]>> /\ b[3] \in Nat /\ h < b[3] /\ b[3] <= h + n
    BY ByteIs
  <2>2. b[3] - h \in 1 .. n /\ h + (b[3] - h) = b[3]
    BY <2>1
  <2>3. r[Len(q) + (b[3] - h)] = <<s, m, h + (b[3] - h)>> /\ Len(q) + (b[3] - h) \in 1 .. Len(r)
    BY <1>3, <2>2
  <2>4. r[Len(q) + (b[3] - h)] = b
    BY <2>1, <2>2, <2>3
  <2>. QED
    BY <1>1, <2>3, <2>4
<1>8. ASSUME NEW i \in 1 .. Len(r), NEW j \in 1 .. Len(r), i < j, r[i][1] = r[j][1]
      PROVE  Before(r[i], r[j])
  <2>1. CASE j \in 1 .. Len(q)
    <3>1. i \in 1 .. Len(q)
      BY <1>1, <1>8, <2>1
    <3>. QED
      BY <1>8, <2>1, <3>1 DEF Once
  <2>2. CASE \E k \in 1 .. n : j = Len(q) + k
    <3>1. PICK k \in 1 .. n : j = Len(q) + k
      BY <2>2
    <3>2. r[j][2] = m /\ r[j][3] = h + k /\ r[j][1] = s
      BY <1>4, <3>1
    <3>3. CASE i \in 1 .. Len(q)
      <4>1. r[i] \in given /\ r[i][1] = s
        BY <1>1, <1>8, <3>2, <3>3 DEF Once
      <4>2. r[i][2] \in Nat /\ r[i][3] \in Nat
        BY <1>1, ByteIs
      <4>. QED
        BY <3>2, <4>1, <4>2 DEF Before
    <3>4. CASE \E l \in 1 .. n : i = Len(q) + l
      <4>1. PICK l \in 1 .. n : i = Len(q) + l
        BY <3>4
      <4>2. r[i][2] = m /\ r[i][3] = h + l /\ l < k
        BY <1>1, <1>4, <1>8, <3>1, <4>1
      <4>. QED
        BY <3>2, <4>2 DEF Before
    <3>. QED
      BY <1>2, <3>3, <3>4
  <2>. QED
    BY <1>2, <2>1, <2>2
<1>9. ToSet(r) = given \cup new
  BY <1>1, <1>5, <1>6, <1>7
<1>. QED
  BY <1>0, <1>8, <1>9 DEF Once

LEMMA ExactPut ==
  ASSUME Loaded, StreamIsExact, NEW s \in Senders, NEW n \in 1 .. buf_size[s], Put(s, n),
         \A b \in Bytes : IsHanded(b)' <=> \/ IsHanded(b)
                                           \/ /\ b[1] = s /\ b[2] = msg[s]
                                              /\ Handed(s) < b[3] /\ b[3] <= Handed(s) + n
  PROVE  StreamIsExact'
<1>. DEFINE given == {b \in Bytes : IsHanded(b)}
            both == {b \in Bytes : IsHanded(b)'}
<1>1. ~closed /\ received \in Seq(Bytes) /\ received' = received /\ InLoop(s) /\ pipe' \in Seq(Bytes)
  BY SomeSent DEF Loaded, ReaderTypes, Put, reader
<1>2. /\ Stream \in Seq(Bytes) /\ Len(Stream') = Len(Stream) + n
      /\ \A i \in 1 .. Len(Stream) : Stream'[i] = Stream[i]
      /\ \A i \in 1 .. n : Stream'[Len(Stream) + i] = <<s, msg[s], Handed(s) + i>>
  BY <1>1, PutLast DEF Stream, Handed
<1>3. Stream' \in Seq(Bytes)
  BY <1>1, ConcatItems DEF Stream
<1>4. Handed(s) \in Nat /\ msg[s] \in Nat /\ n \in Nat
  BY <1>1, SendersNats, BlockItems
<1>5. Once(Stream, given)
  BY <1>1 DEF StreamIsExact, Once
<1>6. \A b \in given : b[1] = s => \/ b[2] < msg[s]
                                   \/ /\ b[2] = msg[s]
                                      /\ b[3] <= Handed(s)
  BY DEF IsHanded
<1>7. /\ given \in SUBSET Bytes /\ both \in SUBSET Bytes
      /\ Appends(Stream, Stream', given, both, s, msg[s], Handed(s), n)
  BY <1>2, <1>6 DEF Appends
<1>. HIDE DEF given, both
<1>8. Once(Stream', both)
  BY <1>2, <1>3, <1>4, <1>5, <1>7, OncePut
<1>. QED
  BY <1>8 DEF StreamIsExact, Once, both

\* Steps that put nothing into the stream and report nothing new.
LEMMA ExactKept ==
  ASSUME StreamIsExact, UNCHANGED msg, closed' \/ (~closed /\ Stream' = Stream),
         \A s \in Senders : Handed(s)' = Handed(s)
  PROVE  StreamIsExact'
<1>1. \A b \in Bytes : IsHanded(b)' <=> IsHanded(b)
  BY ByteIs DEF IsHanded
<1>2. CASE closed'
  BY <1>2 DEF StreamIsExact
<1>3. CASE ~closed /\ Stream' = Stream
  <2>1. /\ ToSet(Stream) = {b \in Bytes : IsHanded(b)}
        /\ \A i, j \in 1 .. Len(Stream) :
             i < j /\ Stream[i][1] = Stream[j][1] => Before(Stream[i], Stream[j])
    BY <1>3 DEF StreamIsExact
  <2>2. {b \in Bytes : IsHanded(b)} = {b \in Bytes : IsHanded(b)'}
    BY <1>1
  <2>. QED
    BY <1>3, <2>1, <2>2 DEF StreamIsExact
<1>. QED
  BY <1>2, <1>3

LEMMA ExactSends ==
  ASSUME Loaded, StreamIsExact, NEW s \in Senders, SendRest(s) \/ SendPart(s)
  PROVE  StreamIsExact'
<1>1. CASE SendRest(s)
  <2>1. Put(s, buf_size[s]) /\ InLoop(s)
    BY <1>1 DEF SendRest, Put
  <2>2. /\ buf_size[s] \in 1 .. buf_size[s]
        /\ Handed(s) + buf_size[s] = MsgSize /\ Handed(s) \in Nat /\ buf_size[s] \in Nat /\ msg[s] \in Nat
    BY <2>1, SendersNats, Nats DEF Loaded, OneSends, Handed
  <2>3. /\ msg'[s] = msg[s] + 1 /\ Handed(s)' = 0
        /\ \A t \in Senders \ {s} : msg'[t] = msg[t] /\ Handed(t)' = Handed(t)
    BY <1>1 DEF SendRest, Return, Loaded, SenderTypes, Handed
  <2>4. ASSUME NEW b \in Bytes
        PROVE  IsHanded(b)' <=> \/ IsHanded(b)
                                \/ /\ b[1] = s /\ b[2] = msg[s]
                                   /\ Handed(s) < b[3] /\ b[3] <= Handed(s) + buf_size[s]
    <3>1. b[1] \in Senders /\ b[2] \in Nat /\ b[3] \in 1 .. MsgSize /\ b[3] \in Nat
      BY ByteIs
    <3>2. CASE b[1] = s
      <4>1. IsHanded(b)' <=> b[2] <= msg[s]
        BY <2>2, <2>3, <3>1, <3>2 DEF IsHanded
      <4>. QED
        BY <2>2, <3>1, <3>2, <4>1, Nats DEF IsHanded
    <3>3. CASE b[1] # s
      BY <2>3, <3>1, <3>3 DEF IsHanded
    <3>. QED
      BY <3>2, <3>3
  <2>. QED
    BY <2>1, <2>2, <2>4, ExactPut
<1>2. CASE SendPart(s)
  <2>1. PICK n \in 1 .. buf_size[s] - 1 :
          Put(s, n) /\ len' = [len EXCEPT ![s] = @ + n] /\ UNCHANGED <<msg, done>>
    BY <1>2 DEF SendPart
  <2>2. /\ n \in 1 .. buf_size[s] /\ n \in Nat
        /\ Handed(s) \in Nat /\ msg[s] \in Nat /\ len[s] \in Nat /\ done[s] \in Nat
    BY SendersNats
  <2>3. /\ Handed(s)' = Handed(s) + n
        /\ \A t \in Senders \ {s} : Handed(t)' = Handed(t)
    BY <2>1, <2>2 DEF Loaded, SenderTypes, Handed
  <2>4. ASSUME NEW b \in Bytes
        PROVE  IsHanded(b)' <=> \/ IsHanded(b)
                                \/ /\ b[1] = s /\ b[2] = msg[s]
                                   /\ Handed(s) < b[3] /\ b[3] <= Handed(s) + n
    <3>1. b[1] \in Senders /\ b[2] \in Nat /\ b[3] \in Nat
      BY ByteIs
    <3>2. CASE b[1] = s
      BY <2>1, <2>2, <2>3, <3>1, <3>2 DEF IsHanded
    <3>3. CASE b[1] # s
      BY <2>1, <2>3, <3>1, <3>3 DEF IsHanded
    <3>. QED
      BY <3>2, <3>3
  <2>. QED
    BY <2>1, <2>2, <2>4, ExactPut
<1>. QED
  BY <1>1, <1>2

\* What a call has reported it has sent: the sum stays.
LEMMA ExactReturns ==
  ASSUME Loaded, StreamIsExact, NEW s \in Senders,
         CallSend(s) \/ Lock(s) \/ SendWaits(s) \/ SendTimesOut(s) \/ SendFails(s)
  PROVE  StreamIsExact'
<1>1. UNCHANGED <<msg, pipe, closed, received>>
  BY DEF CallSend, Lock, BeginSend, SendWaits, SendTimesOut, SendFails, ReturnPart, reader
<1>2. CASE CallSend(s) \/ SendWaits(s)
  <2>1. UNCHANGED <<len, done>>
    BY <1>2 DEF CallSend, SendWaits
  <2>2. Stream' = Stream /\ closed \in BOOLEAN
    BY <1>1 DEF Stream, Loaded, PipeTypes
  <2>3. \A t \in Senders : Handed(t)' = Handed(t)
    BY <2>1 DEF Handed
  <2>. QED
    BY <1>1, <2>2, <2>3, ExactKept
<1>3. CASE Lock(s)
  <2>1. len[s] = 0
    BY <1>3 DEF Lock, InLoop, Loaded, OneSends
  <2>2. \A t \in Senders : Handed(t)' = Handed(t)
    BY <1>3, <2>1 DEF Lock, BeginSend, Handed, Loaded, SenderTypes
  <2>3. Stream' = Stream /\ closed \in BOOLEAN
    BY <1>1 DEF Stream, Loaded, PipeTypes
  <2>. QED
    BY <1>1, <2>2, <2>3, ExactKept
<1>4. CASE SendTimesOut(s) \/ SendFails(s)
  <2>1. ReturnPart(s, len[s])
    BY <1>4 DEF SendTimesOut, SendFails
  <2>2. /\ done'[s] = done[s] + len[s] /\ len'[s] = 0
        /\ \A t \in Senders \ {s} : done'[t] = done[t] /\ len'[t] = len[t]
    BY <2>1 DEF ReturnPart, Return, Loaded, SenderTypes
  <2>3. \A t \in Senders : Handed(t)' = Handed(t)
    BY <2>2, SendersNats DEF Handed
  <2>4. Stream' = Stream /\ closed \in BOOLEAN
    BY <1>1 DEF Stream, Loaded, PipeTypes
  <2>. QED
    BY <1>1, <2>3, <2>4, ExactKept
<1>. QED
  BY <1>2, <1>3, <1>4

LEMMA ExactReads ==
  ASSUME Loaded, StreamIsExact,
         RecvBegins \/ recv_n \/ PeerCloses \/ UNCHANGED vars
  PROVE  StreamIsExact'
<1>1. UNCHANGED <<msg, len, done>>
  BY DEF RecvBegins, recv_n, RecvSome, RecvOnce, RecvWaits, RecvTimesOut, Get, PeerCloses, vars, sender
<1>2. \A t \in Senders : Handed(t)' = Handed(t)
  BY <1>1 DEF Handed
<1>3. CASE RecvSome \/ RecvOnce
  <2>1. PICK n \in 1 .. need : Get(n)
    BY <1>3 DEF RecvSome, RecvOnce
  <2>2. Stream' = Stream /\ ~closed
    BY <2>1, SomeGot DEF Stream
  <2>. QED
    BY <1>1, <1>2, <2>2, ExactKept
<1>4. CASE RecvBegins \/ RecvWaits \/ RecvTimesOut \/ UNCHANGED vars
  <2>1. UNCHANGED <<pipe, closed, received>> /\ closed \in BOOLEAN
    BY <1>4 DEF RecvBegins, RecvWaits, RecvTimesOut, vars, reader, Loaded, PipeTypes
  <2>2. Stream' = Stream
    BY <2>1 DEF Stream
  <2>. QED
    BY <1>1, <1>2, <2>1, <2>2, ExactKept
<1>5. CASE PeerCloses
  <2>1. closed'
    BY <1>5 DEF PeerCloses
  <2>. QED
    BY <1>1, <1>2, <2>1, ExactKept
<1>. QED
  BY <1>3, <1>4, <1>5 DEF recv_n

LEMMA ExactInit == Init => StreamIsExact
<1>. SUFFICES ASSUME Init PROVE StreamIsExact
  OBVIOUS
<1>1. received = <<>> /\ pipe = <<>> /\ \A s \in Senders : msg[s] = 1 /\ done[s] = 0 /\ len[s] = 0
  BY DEF Init
<1>2. Stream = <<>> /\ Len(Stream) = 0 /\ ToSet(Stream) = {}
  <2>1. <<>> \o <<>> = <<>>
    OBVIOUS
  <2>2. Len(<<>>) = 0 /\ 1 .. 0 = {}
    OBVIOUS
  <2>. QED
    BY <1>1, <2>1, <2>2 DEF Stream, ToSet
<1>3. ASSUME NEW b \in Bytes PROVE ~IsHanded(b)
  <2>1. b[1] \in Senders /\ b[2] \in 1 .. MaxMsgs /\ b[3] \in 1 .. MsgSize
    BY DEF Bytes
  <2>. QED
    BY <1>1, <2>1, Nats DEF IsHanded, Handed
<1>. QED
  BY <1>2, <1>3 DEF StreamIsExact

-------------------------------------------------------------------------------
(* Messages over a TCP connection: the frames *)

\* A sequence of whole messages, of which the last one may be unfinished: the
\* byte d places behind the k-th of a message is its (k + d)-th, and the one behind its
\* last is the first of the next.
Messages(q) ==
  /\ Len(q) > 0 => q[1][3] = 1
  /\ \A i, j \in 1 .. Len(q) :
       i < j => /\ j - i <= MsgSize - q[i][3] => q[j] = <<q[i][1], q[i][2], q[i][3] + (j - i)>>
                /\ j - i = MsgSize - q[i][3] + 1 => q[j][3] = 1

\* A thread amid its message has sent the last bytes, and an unfinished message
\* at the end has a thread that is amid it.
EndsAt(q) ==
  /\ \A t \in Senders : Handed(t) > 0 => Len(q) > 0 /\ q[Len(q)] = <<t, msg[t], Handed(t)>>
  /\ Len(q) > 0 => (q[Len(q)][3] < MsgSize => Handed(q[Len(q)][1]) > 0)

\* Without calls amid another thread's message the bytes that are in the
\* frame and on the way are whole messages.
Framed ==
  ~mixed => /\ \A s \in holder : \A t \in Senders \ {s} : done[t] = 0
            /\ ~closed => Messages(frame \o pipe) /\ EndsAt(frame \o pipe)

TransferInv == Loaded /\ StreamIsExact /\ Framed /\ FramesAreMessages

\* r continues q with n bytes of a message, or begins it behind a whole one.
Continues(q, r, s, m, h, n) ==
  /\ Len(r) = Len(q) + n
  /\ \A i \in 1 .. Len(q) : r[i] = q[i]
  /\ \A i \in 1 .. n : r[Len(q) + i] = <<s, m, h + i>>
  /\ h + n <= MsgSize
  /\ h > 0 => Len(q) > 0 /\ q[Len(q)] = <<s, m, h>>
  /\ h = 0 /\ Len(q) > 0 => q[Len(q)][3] = MsgSize

LEMMA MessagesPut ==
  ASSUME NEW q \in Seq(Bytes), NEW r \in Seq(Bytes), NEW s \in Senders,
         NEW m \in Nat, NEW h \in Nat, NEW n \in Nat, n > 0,
         Continues(q, r, s, m, h, n), Messages(q)
  PROVE  Messages(r)
<1>. DEFINE L == Len(q)
<1>1. L \in Nat /\ Len(r) = L + n /\ h + n <= MsgSize /\ MsgSize \in Nat
  BY Nats DEF Continues
<1>2. \A i \in 1 .. L : r[i] = q[i] /\ q[i][3] \in Nat
  BY ByteIs DEF Continues
<1>3. \A b \in 1 .. n : r[L + b] = <<s, m, h + b>> /\ r[L + b][1] = s /\ r[L + b][2] = m /\ r[L + b][3] = h + b
  BY DEF Continues
<1>4. /\ h > 0 => L > 0 /\ q[L] = <<s, m, h>> /\ q[L][1] = s /\ q[L][2] = m /\ q[L][3] = h
      /\ h = 0 /\ L > 0 => q[L][3] = MsgSize
  BY DEF Continues
<1>5. /\ L > 0 => q[1][3] = 1
      /\ \A i, j \in 1 .. L :
           i < j => /\ j - i <= MsgSize - q[i][3] => q[j] = <<q[i][1], q[i][2], q[i][3] + (j - i)>>
                    /\ j - i = MsgSize - q[i][3] + 1 => q[j][3] = 1
  BY DEF Messages
<1>. HIDE DEF L
<1>6. ASSUME NEW i \in 1 .. Len(r)
      PROVE  i \in 1 .. L \/ \E b \in 1 .. n : i = L + b
  <2>1. CASE ~(i <= L)
    <3>1. i - L \in 1 .. n /\ i = L + (i - L)
      BY <1>1, <2>1
    <3>. QED
      BY <3>1
  <2>. QED
    BY <1>1, <2>1
<1>7. Len(r) > 0 => r[1][3] = 1
  <2>1. CASE L > 0
    BY <1>1, <1>2, <1>5, <2>1
  <2>2. CASE L = 0
    <3>1. h = 0 /\ r[L + 1][3] = h + 1 /\ L + 1 = 1
      BY <1>1, <1>3, <1>4, <2>2
    <3>. QED
      BY <3>1
  <2>. QED
    BY <1>1, <2>1, <2>2
<1>8. ASSUME NEW i \in 1 .. Len(r), NEW j \in 1 .. Len(r), i < j
      PROVE  /\ j - i <= MsgSize - r[i][3] => r[j] = <<r[i][1], r[i][2], r[i][3] + (j - i)>>
             /\ j - i = MsgSize - r[i][3] + 1 => r[j][3] = 1
  <2>1. CASE j \in 1 .. L
    <3>1. i \in 1 .. L
      BY <1>1, <1>8, <2>1
    <3>2. r[i] = q[i] /\ r[j] = q[j]
      BY <1>2, <2>1, <3>1
    <3>3. /\ j - i <= MsgSize - q[i][3] => q[j] = <<q[i][1], q[i][2], q[i][3] + (j - i)>>
          /\ j - i = MsgSize - q[i][3] + 1 => q[j][3] = 1
      BY <1>5, <1>8, <2>1, <3>1
    <3>. QED
      BY <3>2, <3>3
  <2>2. CASE \E b \in 1 .. n : j = L + b
    <3>1. PICK b \in 1 .. n : j = L + b
      BY <2>2
    <3>2. r[j] = <<s, m, h + b>> /\ r[j][3] = h + b
      BY <1>3, <3>1
    <3>3. CASE \E a \in 1 .. n : i = L + a
      <4>1. PICK a \in 1 .. n : i = L + a
        BY <3>3
      <4>2. r[i][1] = s /\ r[i][2] = m /\ r[i][3] = h + a /\ j - i = b - a
        <5>1. r[i][1] = s /\ r[i][2] = m /\ r[i][3] = h + a
          BY <1>3, <4>1
        <5>2. j - i = b - a
          BY <1>1, <3>1, <4>1
        <5>. QED
          BY <5>1, <5>2
      <4>3. h + a + (b - a) = h + b /\ b - a # MsgSize - (h + a) + 1
        BY <1>1, <3>1, <4>1
      <4>. QED
        BY <3>2, <4>2, <4>3
    <3>4. CASE i \in 1 .. L
      <4>. DEFINE k == q[i][3]
                  d == L - i
      <4>1. k \in Nat /\ d \in Nat /\ j - i = d + b /\ r[i] = q[i]
        <5>1. k \in Nat /\ r[i] = q[i]
          BY <1>2, <3>4
        <5>2. d \in Nat /\ j - i = d + b
          BY <1>1, <3>1, <3>4
        <5>. QED
          BY <5>1, <5>2
      <4>2. d <= MsgSize - k => q[L][1] = q[i][1] /\ q[L][2] = q[i][2] /\ q[L][3] = k + d
        <5>1. CASE i < L
          <6>1. L \in 1 .. L
            BY <1>1, <3>4
          <6>2. L - i <= MsgSize - q[i][3] => q[L] = <<q[i][1], q[i][2], q[i][3] + (L - i)>>
            BY <1>5, <3>4, <5>1, <6>1
          <6>. QED
            BY <6>2
        <5>2. CASE i = L
          <6>1. d = 0
            BY <1>1, <5>2
          <6>2. k + d = k
            <7>. HIDE DEF k, d
            <7>. QED
              BY <4>1, <6>1
          <6>. QED
            BY <5>2, <6>2
        <5>. QED
          BY <1>1, <3>4, <5>1, <5>2
      <4>. HIDE DEF k, d
      <4>3. L > 0
        BY <1>1, <3>4
      <4>4. d + b <= MsgSize - k => r[j] = <<r[i][1], r[i][2], k + (d + b)>>
        <5>. SUFFICES ASSUME d + b <= MsgSize - k PROVE r[j] = <<r[i][1], r[i][2], k + (d + b)>>
          OBVIOUS
        <5>0. b \in Nat /\ b > 0 /\ MsgSize \in Nat /\ k \in Nat /\ d \in Nat
          BY <1>1, <4>1
        <5>1. d <= MsgSize - k
          BY <5>0
        <5>2. h > 0
          <6>1. q[L][3] = k + d
            BY <4>2, <5>1
          <6>2. k + d < MsgSize
            BY <5>0
          <6>. QED
            BY <1>4, <4>3, <5>0, <6>1, <6>2
        <5>3. q[i][1] = s /\ q[i][2] = m /\ k + d = h
          BY <1>4, <4>2, <5>1, <5>2
        <5>4. k + (d + b) = h + b
          BY <4>1, <5>3
        <5>. QED
          BY <3>2, <4>1, <5>3, <5>4
      <4>5. d + b = MsgSize - k + 1 => h + b = 1
        <5>. SUFFICES ASSUME d + b = MsgSize - k + 1 PROVE h + b = 1
          OBVIOUS
        <5>0. b \in Nat /\ b > 0 /\ MsgSize \in Nat /\ k \in Nat /\ d \in Nat
          BY <1>1, <4>1
        <5>1. d <= MsgSize - k
          BY <5>0
        <5>2. h = 0
          <6>1. d = MsgSize - k + 1 - b /\ k + d <= MsgSize /\ k + d \in Nat /\ q[L][3] = k + d
            BY <4>2, <5>0, <5>1
          <6>2. h > 0 => h = k + d /\ h + b = MsgSize + 1
            BY <1>1, <1>4, <4>1, <6>1
          <6>. QED
            BY <1>1, <4>1, <6>2
        <5>3. k + d = MsgSize
          BY <1>4, <4>2, <4>3, <5>1, <5>2
        <5>4. b = 1
          BY <5>0, <5>3
        <5>. QED
          BY <5>2, <5>4
      <4>. QED
        BY <3>2, <4>1, <4>4, <4>5 DEF k
    <3>. QED
      BY <1>6, <3>3, <3>4
  <2>. QED
    BY <1>6, <2>1, <2>2
<1>. QED
  BY <1>7, <1>8 DEF Messages

\* A full frame is a whole message: what follows it begins a new one.
LEMMA MessagesCut ==
  ASSUME NEW f \in Seq(Bytes), NEW p \in Seq(Bytes), Len(f) = MsgSize, Messages(f \o p)
  PROVE  Messages(p) /\ (f \o p)[MsgSize][3] = MsgSize
<1>. DEFINE q == f \o p
<1>1. MsgSize \in Nat /\ MsgSize > 0 /\ Len(p) \in Nat
  BY Nats
<1>2. q \in Seq(Bytes) /\ Len(q) = MsgSize + Len(p) /\ \A i \in 1 .. Len(p) : q[MsgSize + i] = p[i]
  <2>1. \A t, u \in Seq(Bytes) : /\ t \o u \in Seq(Bytes) /\ Len(t \o u) = Len(t) + Len(u)
                                 /\ \A i \in 1 .. Len(u) : (t \o u)[Len(t) + i] = u[i]
    BY ConcatItems
  <2>2. /\ q \in Seq(Bytes) /\ Len(q) = Len(f) + Len(p)
        /\ \A i \in 1 .. Len(p) : q[Len(f) + i] = p[i]
    BY <2>1
  <2>. HIDE DEF q
  <2>. QED
    BY <2>2
<1>. HIDE DEF q
<1>3. /\ q[1][3] = 1
      /\ \A i, j \in 1 .. Len(q) :
           i < j => /\ j - i <= MsgSize - q[i][3] => q[j] = <<q[i][1], q[i][2], q[i][3] + (j - i)>>
                    /\ j - i = MsgSize - q[i][3] + 1 => q[j][3] = 1
  <2>1. Messages(q)
    BY DEF q
  <2>. QED
    BY <1>1, <1>2, <2>1 DEF Messages
<1>4. q[MsgSize][3] = MsgSize
  <2>1. CASE MsgSize > 1
    <3>1. 1 \in 1 .. Len(q) /\ MsgSize \in 1 .. Len(q) /\ 1 < MsgSize /\ MsgSize - 1 <= MsgSize - q[1][3]
      BY <1>1, <1>2, <1>3, <2>1
    <3>2. q[MsgSize] = <<q[1][1], q[1][2], q[1][3] + (MsgSize - 1)>>
      BY <1>3, <3>1
    <3>. QED
      BY <1>1, <1>3, <3>2
  <2>. QED
    BY <1>1, <1>3, <2>1
<1>5. Len(p) > 0 => p[1][3] = 1
  <2>. SUFFICES ASSUME Len(p) > 0 PROVE p[1][3] = 1
    OBVIOUS
  <2>1. /\ 1 \in 1 .. Len(q) /\ MsgSize + 1 \in 1 .. Len(q) /\ 1 < MsgSize + 1
        /\ MsgSize + 1 - 1 = MsgSize - q[1][3] + 1
    BY <1>1, <1>2, <1>3
  <2>2. q[MsgSize + 1][3] = 1
    BY <1>3, <2>1
  <2>. QED
    BY <1>1, <1>2, <2>2
<1>6. ASSUME NEW i \in 1 .. Len(p), NEW j \in 1 .. Len(p), i < j
      PROVE  /\ j - i <= MsgSize - p[i][3] => p[j] = <<p[i][1], p[i][2], p[i][3] + (j - i)>>
             /\ j - i = MsgSize - p[i][3] + 1 => p[j][3] = 1
  <2>1. /\ MsgSize + i \in 1 .. Len(q) /\ MsgSize + j \in 1 .. Len(q)
        /\ MsgSize + i < MsgSize + j /\ (MsgSize + j) - (MsgSize + i) = j - i
    BY <1>1, <1>2, <1>6
  <2>2. q[MsgSize + i] = p[i] /\ q[MsgSize + j] = p[j]
    BY <1>2
  <2>3. /\ j - i <= MsgSize - q[MsgSize + i][3]
             => q[MsgSize + j] = <<q[MsgSize + i][1], q[MsgSize + i][2], q[MsgSize + i][3] + (j - i)>>
        /\ j - i = MsgSize - q[MsgSize + i][3] + 1 => q[MsgSize + j][3] = 1
    BY <1>3, <2>1, ZenonT(30)
  <2>. QED
    BY <2>2, <2>3
<1>. QED
  BY <1>4, <1>5, <1>6 DEF Messages, q

\* The bytes of the frame in front of whole messages are one message's.
LEMMA MessagesFrame ==
  ASSUME NEW f \in Seq(Bytes), NEW p \in Seq(Bytes), Len(f) <= MsgSize, Messages(f \o p)
  PROVE  \A i \in 1 .. Len(f) : f[i] = <<f[1][1], f[1][2], i>>
<1>. DEFINE q == f \o p
<1>1. Len(f) \in Nat /\ Len(p) \in Nat /\ MsgSize \in Nat
  BY Nats
<1>2. Len(q) = Len(f) + Len(p) /\ \A i \in 1 .. Len(f) : q[i] = f[i]
  BY <1>1, ConcatItems
<1>. HIDE DEF q
<1>. SUFFICES ASSUME NEW i \in 1 .. Len(f) PROVE f[i] = <<f[1][1], f[1][2], i>>
  OBVIOUS
<1>3. 1 \in 1 .. Len(f) /\ 1 \in 1 .. Len(q) /\ i \in 1 .. Len(q) /\ Len(q) > 0 /\ i <= MsgSize
  BY <1>1, <1>2
<1>4. q[1][3] = 1 /\ q[1] = f[1] /\ q[i] = f[i]
  <2>1. Messages(q)
    BY DEF q
  <2>. QED
    BY <1>2, <1>3, <2>1 DEF Messages
<1>5. CASE i > 1
  <2>1. i - 1 <= MsgSize - q[1][3] => q[i] = <<q[1][1], q[1][2], q[1][3] + (i - 1)>>
    BY <1>3, <1>5 DEF Messages, q
  <2>2. i - 1 <= MsgSize - 1 /\ 1 + (i - 1) = i
    BY <1>1, <1>3
  <2>. QED
    BY <1>4, <2>1, <2>2
<1>6. CASE i = 1
  <2>1. f[1] \in Bytes
    BY <1>1, <1>3
  <2>. QED
    BY <1>4, <1>6, <2>1, ByteIs
<1>. QED
  BY <1>5, <1>6

\* The holder is the only one with bytes handed over, as long as no call began amid
\* another thread's message.
LEMMA OthersAreDone ==
  ASSUME Loaded, Framed, ~mixed, NEW s \in Senders, InLoop(s), NEW t \in Senders, t # s
  PROVE  done[t] = 0 /\ len[t] = 0 /\ Handed(t) = 0 /\ ~InLoop(t)
<1>1. s \in holder /\ t \notin holder
  BY DEF Loaded, OneSends
<1>2. done[t] = 0 /\ len[t] = 0 /\ ~InLoop(t)
  BY <1>1 DEF Loaded, OneSends, Framed
<1>. QED
  BY <1>2 DEF Handed

LEMMA FramedSends ==
  ASSUME Loaded, Framed, NEW s \in Senders, SendRest(s) \/ SendPart(s)
  PROVE  Framed'
<1>1. PICK n \in 1 .. buf_size[s] :
        /\ Put(s, n)
        /\ \/ n = buf_size[s] /\ SendRest(s)
           \/ /\ len' = [len EXCEPT ![s] = @ + n]
              /\ UNCHANGED <<holder, msg, done>>
  <2>1. CASE SendRest(s)
    <3>1. Put(s, buf_size[s]) /\ InLoop(s)
      BY <2>1 DEF SendRest, Put
    <3>2. buf_size[s] \in 1 .. buf_size[s]
      BY <3>1, SendersNats DEF Loaded, OneSends
    <3>. QED
      BY <2>1, <3>1, <3>2
  <2>2. CASE SendPart(s)
    <3>1. PICK n \in 1 .. buf_size[s] - 1 :
            Put(s, n) /\ len' = [len EXCEPT ![s] = @ + n] /\ UNCHANGED <<holder, msg, done>>
      BY <2>2 DEF SendPart
    <3>2. n \in 1 .. buf_size[s]
      BY SendersNats
    <3>. QED
      BY <3>1, <3>2
  <2>. QED
    BY <2>1, <2>2
<1>2. InLoop(s) /\ ~closed /\ UNCHANGED <<mixed, frame, closed>>
  BY <1>1 DEF Put, reader
<1>. SUFFICES ASSUME ~mixed
              PROVE  /\ \A u \in holder' : \A t \in Senders \ {u} : done'[t] = 0
                     /\ Messages((frame \o pipe)')
                     /\ EndsAt(frame \o pipe)'
  BY <1>2 DEF Framed
<1>12. /\ frame \in Seq(Bytes) /\ pipe \in Seq(Bytes) /\ pipe' \in Seq(Bytes)
       /\ frame \o pipe \in Seq(Bytes) /\ frame \o pipe' \in Seq(Bytes)
  <2>1. frame \in Seq(Bytes) /\ pipe \in Seq(Bytes) /\ pipe' \in Seq(Bytes)
    BY <1>1, SomeSent DEF Loaded, ReaderTypes, PipeTypes
  <2>. QED
    BY <2>1, ConcatItems
<1>13. PICK q \in Seq(Bytes) : q = frame \o pipe
  BY <1>12
<1>14. PICK r \in Seq(Bytes) : r = frame \o pipe'
  BY <1>12
<1>3. /\ Messages(q) /\ EndsAt(q)
      /\ Len(q) \in Nat /\ s \in holder /\ \A t \in Senders \ {s} : done[t] = 0
  <2>1. Messages(frame \o pipe) /\ EndsAt(frame \o pipe) /\ s \in holder
    BY <1>2 DEF Framed, Loaded, OneSends
  <2>2. Messages(q) /\ EndsAt(q)
    BY <1>13, <2>1
  <2>3. \A t \in Senders \ {s} : done[t] = 0
    BY <2>1 DEF Framed
  <2>. QED
    BY <2>1, <2>2, <2>3
<1>4. /\ n \in Nat /\ n > 0 /\ Handed(s) \in Nat /\ Handed(s) < MsgSize /\ msg[s] \in Nat
      /\ Handed(s) + n <= MsgSize /\ MsgSize \in Nat
      /\ n = buf_size[s] => Handed(s) + n = MsgSize
  BY <1>2, BlockItems, SendersNats, Nats DEF Handed, Loaded, OneSends
<1>5. \A t \in Senders \ {s} : done[t] = 0 /\ len[t] = 0 /\ Handed(t) = 0
  BY <1>2, OthersAreDone
<1>6. /\ Len(r) = Len(q) + n
      /\ \A i \in 1 .. Len(q) : r[i] = q[i]
      /\ \A i \in 1 .. n : r[Len(q) + i] = <<s, msg[s], Handed(s) + i>>
  <2>1. frame \in Seq(Bytes)
    BY DEF Loaded, ReaderTypes
  <2>2. /\ Len(frame \o pipe') = Len(frame \o pipe) + n
        /\ \A i \in 1 .. Len(frame \o pipe) : (frame \o pipe')[i] = (frame \o pipe)[i]
        /\ \A i \in 1 .. n : (frame \o pipe')[Len(frame \o pipe) + i] = <<s, msg[s], done[s] + len[s] + i>>
    BY <1>1, <2>1, PutLast, ZenonT(30)
  <2>. QED
    BY <1>13, <1>14, <2>2 DEF Handed
<1>7. Continues(q, r, s, msg[s], Handed(s), n)
  <2>1. Handed(s) > 0 => Len(q) > 0 /\ q[Len(q)] = <<s, msg[s], Handed(s)>>
    BY <1>3 DEF EndsAt
  <2>2. ASSUME Handed(s) = 0, Len(q) > 0 PROVE q[Len(q)][3] = MsgSize
    <3>1. q[Len(q)] \in Bytes
      BY <1>3, <2>2
    <3>2. q[Len(q)][1] \in Senders /\ q[Len(q)][3] \in 1 .. MsgSize
      BY <3>1, ByteIs
    <3>3. Handed(q[Len(q)][1]) = 0
      BY <1>5, <2>2, <3>2
    <3>4. ~(q[Len(q)][3] < MsgSize)
      BY <1>3, <2>2, <3>3 DEF EndsAt
    <3>. QED
      BY <1>4, <3>2, <3>4
  <2>. QED
    BY <1>4, <1>6, <2>1, <2>2 DEF Continues
<1>8. Messages(r)
  BY <1>3, <1>4, <1>7, MessagesPut
<1>9. Len(r) > 0 /\ r[Len(r)] = <<s, msg[s], Handed(s) + n>>
  <2>1. n \in 1 .. n
    BY <1>4
  <2>. QED
    BY <1>3, <1>4, <1>6, <2>1
<1>10. CASE n = buf_size[s] /\ SendRest(s)
  <2>1. holder' = holder \ {s} /\ \A t \in Senders : Handed(t)' = 0
    BY <1>5, <1>10 DEF SendRest, Return, Handed, Loaded, SenderTypes
  <2>2. holder' = {}
    BY <1>3, <2>1 DEF Loaded, OneSends
  <2>3. r[Len(r)][3] = MsgSize
    BY <1>4, <1>9, <1>10
  <2>4. EndsAt(r)'
    BY <1>4, <2>1, <2>3 DEF EndsAt
  <2>. QED
    BY <1>2, <1>8, <1>14, <2>2, <2>4 DEF EndsAt
<1>11. CASE len' = [len EXCEPT ![s] = @ + n] /\ UNCHANGED <<holder, msg, done>>
  <2>1. /\ Handed(s)' = Handed(s) + n /\ \A t \in Senders \ {s} : Handed(t)' = 0
    <3>1. len'[s] = len[s] + n /\ \A t \in Senders \ {s} : len'[t] = len[t]
      BY <1>11 DEF Loaded, SenderTypes
    <3>. QED
      BY <1>4, <1>5, <1>11, <3>1, SendersNats DEF Handed
  <2>2. \A u \in holder' : \A t \in Senders \ {u} : done'[t] = 0
    BY <1>3, <1>11 DEF Loaded, OneSends
  <2>3. r[Len(r)][1] = s
    BY <1>9
  <2>4. EndsAt(r)'
    <3>1. \A t \in Senders : Handed(t)' > 0 => Len(r) > 0 /\ r[Len(r)] = <<t, msg'[t], Handed(t)'>>
      BY <1>4, <1>9, <1>11, <2>1
    <3>2. Handed(r[Len(r)][1])' > 0
      BY <1>4, <2>1, <2>3
    <3>. QED
      BY <3>1, <3>2 DEF EndsAt
  <2>. QED
    BY <1>2, <1>8, <1>14, <2>2, <2>4 DEF EndsAt
<1>. QED
  BY <1>1, <1>10, <1>11

\* What has been mixed remains so.
LEMMA StaysMixed ==
  ASSUME NEW s \in Senders, CallSend(s) \/ Lock(s) \/ send_n(s)
  PROVE  mixed => mixed'
<1>1. CASE Lock(s)
  <2>1. mixed' = (mixed \/ \E t \in Senders \ {s} : InMessage(t))
    BY <1>1 DEF Lock, BeginSend
  <2>. QED
    BY <2>1, Zenon
<1>2. CASE CallSend(s) \/ send_n(s)
  <2>1. mixed' = mixed
    BY <1>2 DEF CallSend, send_n, SendRest, SendPart, SendWaits, SendTimesOut, SendFails, ReturnPart, Put
  <2>. QED
    BY <2>1
<1>. QED
  BY <1>1, <1>2

\* Steps of the senders that put nothing into the pipe.
LEMMA FramedReturns ==
  ASSUME Loaded, Framed, NEW s \in Senders,
         CallSend(s) \/ Lock(s) \/ SendWaits(s) \/ SendTimesOut(s) \/ SendFails(s)
  PROVE  Framed'
<1>1. UNCHANGED <<msg, pipe, closed, frame>> /\ (mixed => mixed')
  <2>1. UNCHANGED <<msg, pipe, closed, frame>>
    BY DEF CallSend, Lock, BeginSend, SendWaits, SendTimesOut, SendFails, ReturnPart, reader
  <2>. QED
    BY <2>1, StaysMixed DEF send_n
<1>2. \A t \in Senders : Handed(t)' = Handed(t)
  <2>1. CASE CallSend(s) \/ SendWaits(s)
    BY <2>1 DEF CallSend, SendWaits, Handed
  <2>2. CASE Lock(s)
    BY <2>2 DEF Lock, BeginSend, Handed, Loaded, OneSends, SenderTypes, InLoop
  <2>3. CASE SendTimesOut(s) \/ SendFails(s)
    <3>1. /\ done'[s] = done[s] + len[s] /\ len'[s] = 0
          /\ \A t \in Senders \ {s} : done'[t] = done[t] /\ len'[t] = len[t]
      BY <2>3 DEF SendTimesOut, SendFails, ReturnPart, Return, Loaded, SenderTypes
    <3>. QED
      BY <3>1, SendersNats DEF Handed
  <2>. QED
    BY <2>1, <2>2, <2>3
<1>3. ~mixed' => \A u \in holder' : \A t \in Senders \ {u} : done'[t] = 0
  <2>1. CASE CallSend(s) \/ SendWaits(s)
    BY <2>1 DEF CallSend, SendWaits, Framed
  <2>2. CASE Lock(s)
    <3>1. /\ holder' = {s} /\ done' = done /\ mixed' = (mixed \/ \E t \in Senders \ {s} : InMessage(t))
      BY <2>2 DEF Lock, BeginSend
    <3>2. \A t \in Senders : done[t] \in Nat
      BY SendersNats
    <3>3. ~mixed' => \A t \in Senders \ {s} : ~(done[t] > 0)
      BY <3>1, Zenon DEF InMessage
    <3>. QED
      BY <3>1, <3>2, <3>3
  <2>3. CASE SendTimesOut(s) \/ SendFails(s)
    <3>1. holder' = holder \ {s} /\ InLoop(s)
      BY <2>3 DEF SendTimesOut, SendFails, ReturnPart, Return, InLoop
    <3>2. holder' = {}
      BY <3>1 DEF Loaded, OneSends
    <3>. QED
      BY <3>2
  <2>. QED
    BY <2>1, <2>2, <2>3
<1>4. PICK q : q = frame \o pipe /\ q = (frame \o pipe)'
  BY <1>1
<1>5. EndsAt(q) /\ (Len(q) > 0 => q[Len(q)][1] \in Senders) => EndsAt(q)'
  BY <1>1, <1>2 DEF EndsAt
<1>6. Len(q) > 0 => q[Len(q)][1] \in Senders
  <2>1. frame \o pipe \in Seq(Bytes)
    BY ConcatItems DEF Loaded, ReaderTypes, PipeTypes
  <2>2. q \in Seq(Bytes)
    BY <1>4, <2>1
  <2>3. Len(q) > 0 => q[Len(q)] \in Bytes
    BY <2>2
  <2>. QED
    BY <2>3, ByteIs
<1>. QED
  BY <1>1, <1>3, <1>4, <1>5, <1>6 DEF Framed, EndsAt

LEMMA FramedReads ==
  ASSUME Loaded, Framed, RecvBegins \/ recv_n \/ PeerCloses \/ UNCHANGED vars
  PROVE  Framed'
<1>1. UNCHANGED <<sender, mixed>>
  BY DEF RecvBegins, recv_n, RecvSome, RecvOnce, RecvWaits, RecvTimesOut, Get, PeerCloses, vars
<1>2. ~mixed' => \A u \in holder' : \A t \in Senders \ {u} : done'[t] = 0
  BY <1>1 DEF sender, Framed
<1>3. \A q : EndsAt(q) => EndsAt(q)'
  BY <1>1 DEF sender, EndsAt, Handed
<1>4. ASSUME ~closed, (frame \o pipe)' = frame \o pipe PROVE Framed'
  <2>1. PICK q : q = frame \o pipe /\ q = (frame \o pipe)'
    BY <1>4
  <2>2. ~mixed => Messages(q) /\ EndsAt(q)
    BY <1>4, <2>1 DEF Framed
  <2>3. ~mixed' => Messages(q) /\ EndsAt(q)'
    BY <1>1, <1>3, <2>2
  <2>. QED
    BY <1>2, <2>1, <2>3 DEF Framed, EndsAt
<1>5. CASE RecvSome \/ RecvOnce
  <2>1. PICK n \in 1 .. need : Get(n)
    BY <1>5 DEF RecvSome, RecvOnce
  <2>2. ~closed /\ (frame \o pipe)' = frame \o pipe
    BY <2>1, SomeGot
  <2>. QED
    BY <1>4, <2>2
<1>6. CASE RecvWaits \/ RecvTimesOut \/ UNCHANGED vars
  <2>1. UNCHANGED <<pipe, closed, frame>>
    BY <1>6 DEF RecvWaits, RecvTimesOut, vars, reader
  <2>2. CASE closed
    BY <1>2, <2>1, <2>2 DEF Framed
  <2>3. CASE ~closed
    BY <1>4, <2>1, <2>3
  <2>. QED
    BY <2>2, <2>3
<1>7. CASE PeerCloses
  BY <1>2, <1>7 DEF Framed, PeerCloses
<1>8. CASE RecvBegins
  <2>1. ~closed /\ UNCHANGED <<pipe, closed>>
    BY <1>8 DEF RecvBegins
  <2>2. CASE Len(frame) # MsgSize
    BY <1>4, <1>8, <2>1, <2>2 DEF RecvBegins
  <2>3. CASE Len(frame) = MsgSize
    <3>. SUFFICES ASSUME ~mixed PROVE Messages((frame \o pipe)') /\ EndsAt(frame \o pipe)'
      BY <1>1, <1>2, <2>1 DEF Framed
    <3>1. /\ frame \in Seq(Bytes) /\ pipe \in Seq(Bytes)
          /\ Len(frame) \in Nat /\ Len(pipe) \in Nat
      BY DEF Loaded, ReaderTypes, PipeTypes
    <3>2. Messages(frame \o pipe) /\ EndsAt(frame \o pipe)
      BY <2>1 DEF Framed
    <3>3. Messages(pipe) /\ (frame \o pipe)[MsgSize][3] = MsgSize
      BY <2>3, <3>1, <3>2, MessagesCut
    <3>4. (frame \o pipe)' = pipe
      <4>1. frame' = <<>>
        BY <1>8, <2>3 DEF RecvBegins
      <4>2. <<>> \o pipe = pipe
        BY <3>1, ConcatEmptySeq
      <4>. QED
        BY <2>1, <4>1, <4>2
    <3>5. PICK q \in Seq(Bytes) : q = frame \o pipe
      BY <3>1, ConcatItems
    <3>6. /\ Len(q) = MsgSize + Len(pipe)
          /\ \A i \in 1 .. Len(pipe) : q[MsgSize + i] = pipe[i]
      <4>1. /\ Len(frame \o pipe) = Len(frame) + Len(pipe)
            /\ \A i \in 1 .. Len(pipe) : (frame \o pipe)[Len(frame) + i] = pipe[i]
        BY <3>1, ConcatItems
      <4>. QED
        BY <2>3, <3>5, <4>1
    <3>7. EndsAt(q) /\ q[MsgSize][3] = MsgSize
      BY <3>2, <3>3, <3>5
    <3>8. EndsAt(pipe)
      <4>1. CASE Len(pipe) > 0
        <5>1. Len(q) > 0 /\ q[Len(q)] = pipe[Len(pipe)]
          BY <3>1, <3>6, <4>1, Nats
        <5>. QED
          BY <3>7, <4>1, <5>1 DEF EndsAt
      <4>2. CASE Len(pipe) = 0
        <5>1. Len(q) = MsgSize
          BY <3>6, <4>2, Nats
        <5>2. ASSUME NEW t \in Senders, Handed(t) > 0 PROVE FALSE
          <6>1. q[MsgSize] = <<t, msg[t], Handed(t)>>
            BY <3>7, <5>1, <5>2 DEF EndsAt
          <6>2. Handed(t) = MsgSize
            BY <3>7, <6>1
          <6>. QED
            BY <6>2, SendersNats
        <5>. QED
          BY <4>2, <5>2 DEF EndsAt
      <4>. QED
        BY <3>1, <4>1, <4>2
    <3>9. PICK p : p = pipe
      OBVIOUS
    <3>10. EndsAt(p)'
      BY <1>3, <3>8, <3>9
    <3>. QED
      BY <3>3, <3>4, <3>9, <3>10 DEF EndsAt
  <2>. QED
    BY <2>2, <2>3
<1>. QED
  BY <1>5, <1>6, <1>7, <1>8 DEF recv_n

LEMMA FramesKept ==
  ASSUME Loaded, FramesAreMessages, [Next]_vars, Loaded', Framed'
  PROVE  FramesAreMessages'
<1>1. CASE ~closed'
  <2>1. ~mixed' => Messages((frame \o pipe)')
    BY <1>1 DEF Framed
  <2>2. frame' \in Seq(Bytes) /\ pipe' \in Seq(Bytes) /\ Len(frame') <= MsgSize
    BY DEF Loaded, ReaderTypes, PipeTypes
  <2>3. ~mixed' => Messages(frame' \o pipe')
    BY <2>1
  <2>. QED
    BY <2>2, <2>3, MessagesFrame DEF FramesAreMessages
<1>2. CASE UNCHANGED frame /\ (mixed => mixed')
  BY <1>2 DEF FramesAreMessages
<1>3. CASE \E s \in Senders : CallSend(s) \/ Lock(s) \/ send_n(s)
  <2>1. UNCHANGED frame /\ (mixed => mixed')
    <3>1. UNCHANGED frame
      BY <1>3 DEF CallSend, Lock, BeginSend, send_n, SendRest, SendPart, SendWaits, SendTimesOut,
                  SendFails, ReturnPart, Put, reader
    <3>. QED
      BY <1>3, <3>1, StaysMixed
  <2>. QED
    BY <1>2, <2>1
<1>4. CASE RecvSome \/ RecvOnce
  <2>1. PICK n \in 1 .. need : Get(n)
    BY <1>4 DEF RecvSome, RecvOnce
  <2>2. ~closed'
    BY <2>1, SomeGot DEF Get
  <2>. QED
    BY <1>1, <2>2
<1>5. CASE RecvBegins
  BY <1>1, <1>5 DEF RecvBegins
<1>6. CASE RecvWaits \/ RecvTimesOut \/ PeerCloses \/ UNCHANGED vars
  <2>1. UNCHANGED <<frame, mixed>>
    BY <1>6 DEF RecvWaits, RecvTimesOut, PeerCloses, vars, reader
  <2>. QED
    BY <1>2, <2>1
<1>. QED
  BY <1>3, <1>4, <1>5, <1>6 DEF Next, recv_n

LEMMA TransferInit == Init => TransferInv
<1>. SUFFICES ASSUME Init PROVE TransferInv
  OBVIOUS
<1>1. /\ holder = {} /\ frame = <<>> /\ pipe = <<>>
      /\ \A s \in Senders : done[s] = 0 /\ len[s] = 0
  BY DEF Init
<1>2. <<>> \o <<>> = <<>> /\ Len(<<>>) = 0
  OBVIOUS
<1>3. Messages(<<>>)
  BY <1>2 DEF Messages
<1>4. EndsAt(<<>>)
  <2>1. \A t \in Senders : Handed(t) = 0
    BY <1>1 DEF Handed
  <2>. QED
    BY <1>2, <2>1 DEF EndsAt
<1>5. Framed
  <2>1. frame \o pipe = <<>>
    BY <1>1, <1>2
  <2>. QED
    BY <1>1, <1>3, <1>4, <2>1 DEF Framed
<1>6. FramesAreMessages
  <2>1. Len(frame) = 0
    BY <1>1, <1>2
  <2>. QED
    BY <2>1 DEF FramesAreMessages
<1>. QED
  BY <1>5, <1>6, LoadedInit, ExactInit DEF TransferInv

LEMMA TransferStep == TransferInv /\ [Next]_vars => TransferInv'
<1>. SUFFICES ASSUME Loaded, StreamIsExact, Framed, FramesAreMessages, [Next]_vars
              PROVE  TransferInv'
  BY DEF TransferInv
<1>1. Loaded' /\ StreamIsExact' /\ Framed'
  <2>1. ASSUME NEW s \in Senders, CallSend(s) \/ Lock(s) \/ SendWaits(s)
        PROVE  Loaded' /\ StreamIsExact' /\ Framed'
    BY <2>1, LoadedCalls, ExactReturns, FramedReturns
  <2>2. ASSUME NEW s \in Senders, SendRest(s) \/ SendPart(s)
        PROVE  Loaded' /\ StreamIsExact' /\ Framed'
    BY <2>2, LoadedSends, ExactSends, FramedSends
  <2>3. ASSUME NEW s \in Senders, SendTimesOut(s) \/ SendFails(s)
        PROVE  Loaded' /\ StreamIsExact' /\ Framed'
    BY <2>3, LoadedReturns, ExactReturns, FramedReturns
  <2>4. CASE RecvBegins \/ recv_n \/ PeerCloses \/ UNCHANGED vars
    BY <2>4, LoadedGets, LoadedRest, ExactReads, FramedReads DEF recv_n
  <2>. QED
    BY <2>1, <2>2, <2>3, <2>4 DEF Next, send_n
<1>. QED
  BY <1>1, FramesKept DEF TransferInv

LEMMA TransferInvariant == Spec => []TransferInv
BY TransferInit, TransferStep, PTL DEF Spec

THEOREM TransferTypeCorrect == Spec => []TypeOK
<1>1. TransferInv => TypeOK
  BY DEF TransferInv, Loaded, SenderTypes, PipeTypes, ReaderTypes, TypeOK
<1>. QED
  BY <1>1, TransferInvariant, PTL

THEOREM BytesComeOnceAndInOrder == Spec => []StreamIsExact
<1>1. TransferInv => StreamIsExact
  BY DEF TransferInv
<1>. QED
  BY <1>1, TransferInvariant, PTL

THEOREM FramesAreWhole == Spec => []FramesAreMessages
<1>1. TransferInv => FramesAreMessages
  BY DEF TransferInv
<1>. QED
  BY <1>1, TransferInvariant, PTL
===============================================================================
