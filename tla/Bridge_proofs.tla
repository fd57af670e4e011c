--------------------------- MODULE Bridge_proofs ---------------------------
(***************************************************************************)
(* Theorems of Bridge, for any set of clients, any backlog, any socket     *)
(* buffers and any number of lines and commands: type correctness, and     *)
(* that no line reaches a client twice.                                    *)
(***************************************************************************)
EXTENDS Bridge, SequenceTheorems, TLAPS

(* A line occurs once; the greeting and replies are not lines. *)
Once(s) == \A i, j \in 1 .. Len(s) : i # j /\ s[i] > HELLO => s[i] # s[j]

(* What a client has been sent and what its greeting still owes it. *)
Owed(c) == IF greeted = c THEN greeting ELSE <<>>
Due(c) == Received(c) \o Owed(c)

(* A connection the acceptor has not come to. *)
Fresh(c) == client[c] = "away" \/ Contains(listening, c)

Distinct(s) == \A i, j \in 1 .. Len(s) : s[i] = s[j] => i = j

(* The lists name nobody twice. *)
ListsDistinct ==
    Distinct(listening) /\ Distinct(registered) /\ Distinct(recipients)

(* Whoever is in the queue of connections has connected, and nobody has    *)
(* been sent anything before being accepted.                               *)
NewcomersUntouched ==
    \A c \in Clients :
        /\ client[c] = "away" => ~Contains(listening, c)
        /\ Fresh(c) => /\ heard[c] = <<>> /\ wire[c] = <<>>
                       /\ ~Contains(registered, c) /\ ~Contains(recipients, c)
                       /\ greeted # c /\ reader[c] = "none"

(* The backlog holds the last lines, in order. *)
BacklogIsLast ==
    \A i \in 1 .. Len(backlog) : backlog[i] = published - Len(backlog) + i

(* Whoever is still to be sent the last line has not got it, and will not  *)
(* get it with a greeting.                                                 *)
LinesOnce ==
    \A c \in Clients :
        /\ Once(Due(c))
        /\ Contains(recipients, c) => ~Contains(Due(c), published)

BridgeInv ==
    /\ TypeOK /\ ListsDistinct /\ NewcomersUntouched
    /\ BacklogIsLast /\ LinesOnce

-----------------------------------------------------------------------------
(* Sequences *)

LEMMA OncePrefix ==
  ASSUME NEW s \in Seq(Int), NEW t \in Seq(Int), Once(s \o t)
  PROVE  Once(s)
<1>1. /\ Len(s) \in Nat /\ Len(t) \in Nat /\ Len(s \o t) = Len(s) + Len(t)
      /\ \A i \in 1 .. Len(s) : (s \o t)[i] = s[i]
  BY ConcatProperties, LenProperties
<1>2. \A i \in 1 .. Len(s) : i \in 1 .. Len(s \o t)
  BY <1>1
<1> QED
  BY <1>1, <1>2, Zenon DEF Once

(* A line put between two sequences: where the other lines come from. *)
Put(s, x, t) == (s \o <<x>>) \o t
Origin(s, i) == IF i <= Len(s) THEN i ELSE i - 1

LEMMA Inserted ==
  ASSUME NEW s \in Seq(Int), NEW t \in Seq(Int), NEW x \in Int
  PROVE  /\ Len(s) + 1 \in 1 .. Len(Put(s, x, t))
         /\ Put(s, x, t)[Len(s) + 1] = x
         /\ \A i \in 1 .. Len(Put(s, x, t)) \ {Len(s) + 1} :
              /\ Origin(s, i) \in 1 .. Len(s \o t)
              /\ Put(s, x, t)[i] = (s \o t)[Origin(s, i)]
         /\ \A i, j \in 1 .. Len(Put(s, x, t)) \ {Len(s) + 1} :
              i # j => Origin(s, i) # Origin(s, j)
<1> DEFINE u == s \o t
           v == Put(s, x, t)
           at == Len(s) + 1
<1> DEFINE r == s \o <<x>>
<1>1. <<x>> \in Seq(Int) /\ Len(<<x>>) = 1 /\ <<x>>[1] = x
  OBVIOUS
<1>2. /\ r \in Seq(Int) /\ Len(r) = Len(s) + 1 /\ Len(s) \in Nat
      /\ \A i \in 1 .. Len(r) : r[i] = IF i <= Len(s) THEN s[i] ELSE x
  BY <1>1, ConcatProperties, LenProperties
<1> HIDE DEF r
<1>3. /\ Len(r \o t) = Len(r) + Len(t) /\ Len(t) \in Nat
      /\ \A i \in 1 .. Len(r) + Len(t) :
           (r \o t)[i] = IF i <= Len(r) THEN r[i] ELSE t[i - Len(r)]
  BY <1>2, ConcatProperties, LenProperties
<1>4. /\ Len(s \o t) = Len(s) + Len(t)
      /\ \A i \in 1 .. Len(s) + Len(t) :
           (s \o t)[i] = IF i <= Len(s) THEN s[i] ELSE t[i - Len(s)]
  BY ConcatProperties
<1>5. /\ Len(u) = Len(s) + Len(t) /\ Len(v) = Len(u) + 1
      /\ v = r \o t /\ u = s \o t
  BY <1>2, <1>3, <1>4 DEF r, Put
<1> HIDE DEF u, v
<1>6. at \in 1 .. Len(v) /\ v[at] = x
  BY <1>2, <1>3, <1>5
<1>7. ASSUME NEW i \in 1 .. Len(v) \ {at}
      PROVE  Origin(s, i) \in 1 .. Len(u) /\ v[i] = u[Origin(s, i)]
  <2>1. CASE i <= Len(s)
    BY <1>2, <1>3, <1>4, <1>5, <2>1 DEF Origin
  <2>2. CASE ~(i <= Len(s))
    <3>1. i - 1 \in Len(s) + 1 .. Len(u) /\ i - Len(r) = (i - 1) - Len(s)
      BY <1>2, <1>3, <1>5, <2>2
    <3>2. v[i] = t[i - Len(r)] /\ u[i - 1] = t[(i - 1) - Len(s)]
      BY <1>2, <1>3, <1>4, <1>5, <2>2, <3>1, SMTT(40)
    <3> QED
      BY <1>2, <2>2, <3>1, <3>2 DEF Origin
  <2> QED
    BY <2>1, <2>2
<1>8. ASSUME NEW i \in 1 .. Len(v) \ {at}, NEW j \in 1 .. Len(v) \ {at}, i # j
      PROVE  Origin(s, i) # Origin(s, j)
  BY <1>2, <1>8 DEF Origin
<1> QED
  BY <1>6, <1>7, <1>8 DEF u, v

(* It leaves every line where it is, and every line unique if it is none   *)
(* of those that are there.                                                *)
LEMMA OnceInserted ==
  ASSUME NEW s \in Seq(Int), NEW t \in Seq(Int), NEW x \in Int, Once(s \o t),
         x <= HELLO \/ ~Contains(s \o t, x)
  PROVE  Once(Put(s, x, t))
<1> DEFINE u == s \o t
           v == Put(s, x, t)
           at == Len(s) + 1
<1>0. u = s \o t /\ v = Put(s, x, t) /\ at = Len(s) + 1
  OBVIOUS
<1>1. /\ at \in 1 .. Len(v) /\ v[at] = x
      /\ \A i \in 1 .. Len(v) \ {at} : Origin(s, i) \in 1 .. Len(u) /\ v[i] = u[Origin(s, i)]
      /\ \A i, j \in 1 .. Len(v) \ {at} : i # j => Origin(s, i) # Origin(s, j)
  BY Inserted
<1> HIDE DEF u, v, at
<1>2. \A i, j \in 1 .. Len(u) : i # j /\ u[i] > HELLO => u[i] # u[j]
  BY <1>0 DEF Once
<1>3. x <= HELLO \/ \A i \in 1 .. Len(u) : u[i] # x
  BY <1>0 DEF Contains
<1>4. ASSUME NEW i \in 1 .. Len(v), NEW j \in 1 .. Len(v), i # j, v[i] > HELLO
      PROVE  v[i] # v[j]
  <2>0. ASSUME x > HELLO, NEW k \in 1 .. Len(v), k # at PROVE v[k] # x
    <3>1. \A n \in 1 .. Len(u) : u[n] # x
      BY <1>3, <2>0 DEF HELLO
    <3>2. Origin(s, k) \in 1 .. Len(u) /\ v[k] = u[Origin(s, k)]
      BY <1>1, <2>0
    <3> QED
      BY <3>1, <3>2, Zenon
  <2>1. CASE i = at
    <3>1. x > HELLO /\ v[i] = x /\ j # at
      BY <1>1, <1>4, <2>1
    <3> QED
      BY <2>0, <3>1
  <2>2. CASE j = at
    <3>1. v[j] = x /\ i # at
      BY <1>1, <1>4, <2>2
    <3>2. v[i] = x => x > HELLO
      BY <1>4
    <3> QED
      BY <2>0, <3>1, <3>2
  <2>3. CASE i # at /\ j # at
    BY <1>1, <1>2, <1>4, <2>3
  <2> QED
    BY <2>1, <2>2, <2>3
<1>5. Once(v)
  BY <1>4 DEF Once
<1> QED
  BY <1>0, <1>5

LEMMA ContainsInserted ==
  ASSUME NEW s \in Seq(Int), NEW t \in Seq(Int), NEW x \in Int, NEW y \in Int,
         Contains(Put(s, x, t), y)
  PROVE  y = x \/ Contains(s \o t, y)
<1> DEFINE u == s \o t
           v == Put(s, x, t)
           at == Len(s) + 1
<1>0. u = s \o t /\ v = Put(s, x, t) /\ at = Len(s) + 1
  OBVIOUS
<1>1. /\ at \in 1 .. Len(v) /\ v[at] = x
      /\ \A i \in 1 .. Len(v) \ {at} : Origin(s, i) \in 1 .. Len(u) /\ v[i] = u[Origin(s, i)]
  BY Inserted
<1> HIDE DEF u, v, at
<1>2. \E i \in 1 .. Len(v) : v[i] = y
  BY <1>0 DEF Contains
<1>3. y = x \/ \E j \in 1 .. Len(u) : u[j] = y
  BY <1>1, <1>2
<1> QED
  BY <1>0, <1>3 DEF Contains

(* Reading moves a line from the wire to what has been heard. *)
LEMMA MovedLine ==
  ASSUME NEW s \in Seq(Int), NEW t \in Seq(Int), t # <<>>
  PROVE  Append(s, Head(t)) \o Tail(t) = s \o t
<1>1. /\ Head(t) \in Int /\ Tail(t) \in Seq(Int) /\ Len(Tail(t)) = Len(t) - 1
      /\ Head(t) = t[1] /\ Len(t) \in Nat \ {0}
      /\ \A i \in 1 .. Len(Tail(t)) : Tail(t)[i] = t[i + 1]
  BY HeadTailProperties, EmptySeq
<1> DEFINE r == Append(s, Head(t))
<1>2. /\ r \in Seq(Int) /\ Len(r) = Len(s) + 1 /\ Len(s) \in Nat
      /\ \A i \in 1 .. Len(s) : r[i] = s[i]
      /\ r[Len(s) + 1] = t[1]
  BY <1>1, AppendProperties, LenProperties
<1> HIDE DEF r
<1>3. /\ r \o Tail(t) \in Seq(Int) /\ Len(r \o Tail(t)) = Len(r) + Len(Tail(t))
      /\ \A i \in 1 .. Len(r) + Len(Tail(t)) :
           (r \o Tail(t))[i] = IF i <= Len(r) THEN r[i] ELSE Tail(t)[i - Len(r)]
  BY <1>1, <1>2, ConcatProperties, Zenon
<1>4. /\ s \o t \in Seq(Int) /\ Len(s \o t) = Len(s) + Len(t)
      /\ \A i \in 1 .. Len(s) + Len(t) :
           (s \o t)[i] = IF i <= Len(s) THEN s[i] ELSE t[i - Len(s)]
  BY ConcatProperties
<1>5. ASSUME NEW i \in 1 .. Len(s) + Len(t)
      PROVE  (r \o Tail(t))[i] = (s \o t)[i]
  <2> DEFINE q == r \o Tail(t)
             o == s \o t
  <2>0. /\ Len(s) \in Nat /\ Len(t) \in Nat /\ i \in Nat
        /\ Len(r) = Len(s) + 1 /\ Len(Tail(t)) = Len(t) - 1
    BY <1>1, <1>2, LenProperties
  <2>1. /\ q[i] = IF i <= Len(r) THEN r[i] ELSE Tail(t)[i - Len(r)]
        /\ o[i] = IF i <= Len(s) THEN s[i] ELSE t[i - Len(s)]
    <3>1. i \in 1 .. Len(r) + Len(Tail(t))
      BY <2>0
    <3> QED
      BY <1>3, <1>4, <3>1
  <2> HIDE DEF q, o
  <2>2. CASE i <= Len(s)
    <3>1. i <= Len(r) /\ r[i] = s[i]
      BY <1>2, <2>0, <2>2
    <3> QED
      BY <2>1, <2>2, <3>1 DEF q, o
  <2>3. CASE i = Len(s) + 1
    <3>1. i <= Len(r) /\ ~(i <= Len(s)) /\ i - Len(s) = 1 /\ r[i] = t[1]
      BY <1>2, <2>0, <2>3
    <3> QED
      BY <2>1, <3>1 DEF q, o
  <2>4. CASE i > Len(s) + 1
    <3>1. /\ ~(i <= Len(r)) /\ ~(i <= Len(s))
          /\ i - Len(r) \in 1 .. Len(Tail(t)) /\ (i - Len(r)) + 1 = i - Len(s)
      BY <2>0, <2>4
    <3>2. Tail(t)[i - Len(r)] = t[(i - Len(r)) + 1]
      BY <1>1, <3>1
    <3> QED
      BY <2>1, <3>1, <3>2 DEF q, o
  <2>5. i <= Len(s) \/ i = Len(s) + 1 \/ i > Len(s) + 1
    BY <2>0
  <2> QED
    BY <2>2, <2>3, <2>4, <2>5, Zenon
<1>6. r \o Tail(t) = s \o t
  <2> DEFINE q == r \o Tail(t)
             o == s \o t
  <2>1. q \in Seq(Int) /\ o \in Seq(Int) /\ Len(q) = Len(o)
        /\ \A i \in 1 .. Len(q) : q[i] = o[i]
    BY <1>2, <1>3, <1>4, <1>5, <1>1, SMTT(30)
  <2> HIDE DEF q, o
  <2>2. q = o
    BY <2>1, SeqEqual, Zenon
  <2> QED
    BY <2>2 DEF q, o
<1> QED
  BY <1>6 DEF r

(* A payload is cut into what is written and what is left. *)
LEMMA CutPayload ==
  ASSUME NEW s \in Seq(Int), NEW p \in Seq(Int), NEW n \in 0 .. Len(p)
  PROVE  (s \o SubSeq(p, 1, n)) \o SubSeq(p, n + 1, Len(p)) = s \o p
<1> DEFINE h == SubSeq(p, 1, n)
           r == SubSeq(p, n + 1, Len(p))
<1>1. Len(p) \in Nat /\ 1 \in 1 .. Len(p) + 1 /\ n \in 1 - 1 .. Len(p) /\ Len(p) \in n .. Len(p)
  BY LenProperties
<1>2. h \in Seq(Int) /\ r \in Seq(Int)
  BY <1>1, SubSeqProperties, LenProperties
<1>3. h \o r = SubSeq(p, 1, Len(p))
  BY <1>1, ConcatAdjacentSubSeq, Zenon
<1>4. h \o r = p
  BY <1>3, SubSeqFull, Zenon
<1> HIDE DEF h, r
<1>5. (s \o h) \o r = s \o (h \o r)
  BY <1>2, ConcatAssociative, SMTT(30)
<1> QED
  BY <1>4, <1>5, Zenon DEF h, r

(* Taking the first occurrence out of a list. *)
LEMMA RemovedOnce ==
  ASSUME NEW S, NEW s \in Seq(S), NEW e \in S, Distinct(s)
  PROVE  /\ RemoveFirst(s, e) \in Seq(S) /\ Distinct(RemoveFirst(s, e))
         /\ \A x : Contains(RemoveFirst(s, e), x) => Contains(s, x)
<1> DEFINE r == RemoveFirst(s, e)
           k == SelectInSeq(s, LAMBDA v : v = e)
<1>1. Len(s) \in Nat
  BY LenProperties
<1>2. CASE ~ \E i \in 1 .. Len(s) : s[i] = e
  <2>1. r = s
    BY <1>2 DEF RemoveFirst
  <2> QED
    BY <2>1
<1>3. CASE \E i \in 1 .. Len(s) : s[i] = e
  <2> DEFINE I == {i \in 1 .. Len(s) : s[i] = e}
  <2>1. PICK i \in 1 .. Len(s) : s[i] = e
    BY <1>3
  <2>2. I = {i}
    BY <2>1 DEF Distinct
  <2>3. k = Min(I)
    BY <2>2 DEF SelectInSeq
  <2>4. Min(I) = i
    BY <2>2 DEF Min
  <2>5. r = SubSeq(s, 1, i - 1) \o SubSeq(s, i + 1, Len(s))
    BY <1>3, <2>3, <2>4 DEF RemoveFirst, RemoveAt
  <2> DEFINE from(j) == IF j < i THEN j ELSE j + 1
  <2>6. /\ SubSeq(s, 1, i - 1) \in Seq(S) /\ Len(SubSeq(s, 1, i - 1)) = i - 1
        /\ \A j \in 1 .. i - 1 : SubSeq(s, 1, i - 1)[j] = s[j]
    BY <1>1, SubSeqProperties, ElementOfSeq
  <2>7. /\ SubSeq(s, i + 1, Len(s)) \in Seq(S)
        /\ Len(SubSeq(s, i + 1, Len(s))) = Len(s) - i
        /\ \A j \in 1 .. Len(s) - i : SubSeq(s, i + 1, Len(s))[j] = s[i + j]
    BY <1>1, SubSeqProperties, ElementOfSeq
  <2>8. /\ r \in Seq(S) /\ Len(r) = Len(s) - 1
        /\ \A j \in 1 .. Len(s) - 1 : r[j] = s[from(j)]
    <3> DEFINE h == SubSeq(s, 1, i - 1)
               t == SubSeq(s, i + 1, Len(s))
    <3>1. /\ h \o t \in Seq(S) /\ Len(h \o t) = Len(h) + Len(t)
          /\ \A j \in 1 .. Len(h) + Len(t) :
               (h \o t)[j] = IF j <= Len(h) THEN h[j] ELSE t[j - Len(h)]
      BY <2>6, <2>7, ConcatProperties, Zenon
    <3>2. r = h \o t /\ Len(h) = i - 1 /\ Len(t) = Len(s) - i
      BY <2>5, <2>6, <2>7
    <3>3. /\ \A j \in 1 .. i - 1 : h[j] = s[j]
          /\ \A j \in 1 .. Len(s) - i : t[j] = s[i + j]
      BY <2>6, <2>7
    <3> HIDE DEF r, h, t
    <3>4. r \in Seq(S) /\ Len(r) = Len(s) - 1
      <4>1. r \in Seq(S) /\ Len(r) = Len(h) + Len(t)
        BY <3>1, <3>2, Zenon
      <4> QED
        BY <1>1, <3>2, <4>1
    <3>5. ASSUME NEW j \in 1 .. Len(s) - 1 PROVE r[j] = s[from(j)]
      <4>1. CASE j < i
        BY <1>1, <3>1, <3>2, <3>3, <4>1
      <4>2. CASE ~(j < i)
        <5>1. j - (i - 1) \in 1 .. Len(s) - i /\ i + (j - (i - 1)) = j + 1
          BY <1>1, <4>2
        <5>2. r[j] = t[j - (i - 1)]
          BY <1>1, <3>1, <3>2, <4>2
        <5> QED
          BY <3>3, <4>2, <5>1, <5>2
      <4> QED
        BY <4>1, <4>2
    <3> QED
      BY <3>4, <3>5
  <2>9. /\ \A j \in 1 .. Len(r) : from(j) \in 1 .. Len(s) /\ r[j] = s[from(j)]
        /\ \A j, m \in 1 .. Len(r) : from(j) = from(m) => j = m
    BY <1>1, <2>8
  <2> HIDE DEF r, from
  <2>10. Distinct(r) /\ \A x : Contains(r, x) => Contains(s, x)
    BY <2>9 DEF Distinct, Contains
  <2> QED
    BY <2>8, <2>10 DEF r
<1> QED
  BY <1>2, <1>3

(* Losing what lies in between. *)
LEMMA OnceWithout ==
  ASSUME NEW s \in Seq(Int), NEW t \in Seq(Int), NEW u \in Seq(Int),
         Once((s \o t) \o u)
  PROVE  /\ Once(s \o u)
         /\ \A x : Contains(s \o u, x) => Contains((s \o t) \o u, x)
<1> DEFINE a == s \o t
           b == a \o u
           d == s \o u
           from(i) == IF i <= Len(s) THEN i ELSE i + Len(t)
<1>1. /\ a \in Seq(Int) /\ Len(a) = Len(s) + Len(t)
      /\ Len(s) \in Nat /\ Len(t) \in Nat /\ Len(u) \in Nat
      /\ \A i \in 1 .. Len(s) + Len(t) :
           a[i] = IF i <= Len(s) THEN s[i] ELSE t[i - Len(s)]
  BY ConcatProperties, LenProperties
<1>2. /\ Len(d) = Len(s) + Len(u)
      /\ \A i \in 1 .. Len(s) + Len(u) :
           d[i] = IF i <= Len(s) THEN s[i] ELSE u[i - Len(s)]
  BY ConcatProperties
<1>0. b = a \o u /\ a = s \o t /\ d = s \o u
  OBVIOUS
<1> HIDE DEF a, d
<1>3. /\ Len(b) = Len(a) + Len(u)
      /\ \A i \in 1 .. Len(a) + Len(u) :
           b[i] = IF i <= Len(a) THEN a[i] ELSE u[i - Len(a)]
  <2>1. a \in Seq(Int)
    BY <1>1
  <2> QED
    BY <2>1, ConcatProperties, Zenon
<1> HIDE DEF b
<1>4. ASSUME NEW i \in 1 .. Len(d)
      PROVE  from(i) \in 1 .. Len(b) /\ d[i] = b[from(i)]
  <2>1. CASE i <= Len(s)
    <3>1. i \in 1 .. Len(a) /\ i \in 1 .. Len(b) /\ i \in 1 .. Len(s) + Len(t)
      BY <1>1, <1>2, <1>3, <2>1
    <3>2. d[i] = s[i] /\ a[i] = s[i] /\ b[i] = a[i]
      BY <1>1, <1>2, <1>3, <2>1, <3>1
    <3> QED
      BY <2>1, <3>1, <3>2
  <2>2. CASE ~(i <= Len(s))
    <3>1. /\ i + Len(t) \in 1 .. Len(b) /\ ~(i + Len(t) <= Len(a))
          /\ (i + Len(t)) - Len(a) = i - Len(s)
      BY <1>1, <1>2, <1>3, <2>2
    <3>2. d[i] = u[i - Len(s)] /\ b[i + Len(t)] = u[(i + Len(t)) - Len(a)]
      BY <1>1, <1>2, <1>3, <2>2, <3>1
    <3> QED
      BY <2>2, <3>1, <3>2
  <2> QED
    BY <2>1, <2>2
<1>5. \A i, j \in 1 .. Len(d) : i # j => from(i) # from(j)
  BY <1>1, <1>2
<1> HIDE DEF from
<1>6. \A i, j \in 1 .. Len(b) : i # j /\ b[i] > HELLO => b[i] # b[j]
  BY <1>0 DEF Once
<1>7. \A i, j \in 1 .. Len(d) : i # j /\ d[i] > HELLO => d[i] # d[j]
  BY <1>4, <1>5, <1>6
<1>8. \A x : Contains(d, x) => Contains(b, x)
  BY <1>4 DEF Contains
<1> QED
  BY <1>0, <1>7, <1>8 DEF Once

(* A list's head and tail, and one more at its end. *)
LEMMA DistinctTail ==
  ASSUME NEW S, NEW s \in Seq(S), s # <<>>, Distinct(s)
  PROVE  /\ Head(s) \in S /\ Tail(s) \in Seq(S) /\ Distinct(Tail(s))
         /\ Contains(s, Head(s)) /\ ~Contains(Tail(s), Head(s))
         /\ \A x : Contains(Tail(s), x) => Contains(s, x)
<1>1. /\ Head(s) \in S /\ Tail(s) \in Seq(S) /\ Len(Tail(s)) = Len(s) - 1
      /\ Len(s) \in Nat \ {0} /\ Head(s) = s[1]
      /\ \A i \in 1 .. Len(Tail(s)) : Tail(s)[i] = s[i + 1]
  BY HeadTailProperties, EmptySeq
<1> DEFINE r == Tail(s)
<1> HIDE DEF r
<1>2. \A i \in 1 .. Len(r) : i + 1 \in 1 .. Len(s) /\ r[i] = s[i + 1]
  BY <1>1 DEF r
<1>3. Distinct(r) /\ (\A x : Contains(r, x) => Contains(s, x))
  BY <1>1, <1>2 DEF Distinct, Contains, r
<1>4. Contains(s, s[1]) /\ ~Contains(r, s[1])
  BY <1>1, <1>2 DEF Distinct, Contains, r
<1> QED
  BY <1>1, <1>3, <1>4 DEF r

LEMMA DistinctAppend ==
  ASSUME NEW S, NEW s \in Seq(S), NEW e \in S, Distinct(s), ~Contains(s, e)
  PROVE  /\ Append(s, e) \in Seq(S) /\ Distinct(Append(s, e))
         /\ \A x : Contains(Append(s, e), x) => Contains(s, x) \/ x = e
         /\ Contains(Append(s, e), e)
         /\ \A x : Contains(s, x) => Contains(Append(s, e), x)
<1>1. /\ Append(s, e) \in Seq(S) /\ Len(Append(s, e)) = Len(s) + 1 /\ Len(s) \in Nat
      /\ \A i \in 1 .. Len(s) : Append(s, e)[i] = s[i]
      /\ Append(s, e)[Len(s) + 1] = e
  BY AppendProperties, LenProperties
<1> QED
  BY <1>1 DEF Distinct, Contains

(* More may occur in a sequence than does. *)
LEMMA SeqGrows ==
  ASSUME NEW S, NEW T, S \subseteq T
  PROVE  Seq(S) \subseteq Seq(T)
  BY SeqMonotonic

-----------------------------------------------------------------------------
(* The state *)

LEMMA Lines ==
  ASSUME TypeOK, NEW c \in Clients
  PROVE  /\ published \in Nat
         /\ heard[c] \in Seq(Int) /\ wire[c] \in Seq(Int)
         /\ Received(c) \in Seq(Int) /\ greeting \in Seq(Int)
         /\ Owed(c) \in Seq(Int) /\ Due(c) \in Seq(Int)
         /\ \A x \in Int : Contains(Due(c), x) => x \in REPLY .. published
<1> DEFINE L == REPLY .. published
           G == HELLO .. published
<1>1. published \in Nat /\ L \subseteq Int /\ G \subseteq L
  BY BridgeAssumption DEF TypeOK, HELLO, REPLY
<1>2. heard[c] \in Seq(L) /\ wire[c] \in Seq(L) /\ greeting \in Seq(G)
  BY DEF TypeOK
<1> HIDE DEF L, G
<1>3. greeting \in Seq(L) /\ <<>> \in Seq(L)
  <2>1. Seq(G) \subseteq Seq(L)
    BY <1>1, SeqGrows
  <2> QED
    BY <1>2, <2>1
<1>4. Received(c) \in Seq(L)
  BY <1>2, ConcatProperties DEF Received
<1>5. Owed(c) \in Seq(L)
  BY <1>3 DEF Owed
<1>6. Due(c) \in Seq(L)
  BY <1>4, <1>5, ConcatProperties DEF Due
<1>7. \A x : Contains(Due(c), x) => x \in L
  BY <1>6, ElementOfSeq DEF Contains
<1>8. Seq(L) \subseteq Seq(Int)
  BY <1>1, SeqGrows
<1> QED
  BY <1>1, <1>2, <1>3, <1>4, <1>5, <1>6, <1>7, <1>8 DEF L

(* What one write of a payload does: nothing to a client that is gone;     *)
(* else its beginning is on the wire, which has room for it.               *)
LEMMA Written ==
  ASSUME TypeOK, NEW c \in Clients, NEW p \in Seq(REPLY .. published),
         p # <<>>, Writes(c, p)
  PROVE  /\ wire' \in [Clients -> Seq(REPLY .. published)]
         /\ \A d \in Clients : Len(wire'[d]) <= Capacity
         /\ \A d \in Clients \ {c} : wire'[d] = wire[d]
         /\ Gone(c) => wire' = wire
         /\ ~Gone(c) => /\ Fits(c, p) \in 1 .. Len(p)
                        /\ wire'[c] = wire[c] \o SubSeq(p, 1, Fits(c, p))
<1> DEFINE L == REPLY .. published
           n == Fits(c, p)
           h == SubSeq(p, 1, n)
<1>1. /\ wire \in [Clients -> Seq(L)] /\ wire[c] \in Seq(L) /\ p \in Seq(L)
      /\ \A d \in Clients : Len(wire[d]) <= Capacity
  BY DEF TypeOK
<1> HIDE DEF L
<1>2. CASE Gone(c)
  <2>1. wire' = wire
    BY <1>2 DEF Writes
  <2> QED
    BY <1>1, <1>2, <2>1 DEF L
<1>3. CASE ~Gone(c)
  <2>1. Room(c) > 0 /\ wire' = [wire EXCEPT ![c] = wire[c] \o h]
    BY <1>3 DEF Writes
  <2>2. Len(p) \in Nat \ {0} /\ Len(wire[c]) \in Nat /\ Capacity \in Nat
    BY <1>1, LenProperties, EmptySeq, BridgeAssumption
  <2>3. n \in 1 .. Len(p) /\ n <= Capacity - Len(wire[c])
    <3> DEFINE room == Room(c)
               len == Len(p)
    <3>1. room \in Nat \ {0} /\ room = Capacity - Len(wire[c]) /\ len \in Nat \ {0}
      BY <2>1, <2>2 DEF Room
    <3>2. n = IF len <= room THEN len ELSE room
      BY DEF Fits
    <3> HIDE DEF n, room, len
    <3>3. n \in 1 .. len /\ n <= room
      BY <3>1, <3>2
    <3> QED
      BY <3>1, <3>3 DEF len
  <2> HIDE DEF n
  <2>4. \A i \in 1 .. n : p[i] \in L
    <3>1. \A i \in 1 .. Len(p) : p[i] \in L
      BY <1>1, ElementOfSeq
    <3> QED
      BY <2>2, <2>3, <3>1
  <2>5. h \in Seq(L) /\ Len(h) = n
    BY <2>2, <2>3, <2>4, SubSeqProperties
  <2> HIDE DEF h
  <2>6. wire[c] \o h \in Seq(L) /\ Len(wire[c] \o h) = Len(wire[c]) + n
    BY <1>1, <2>5, ConcatProperties
  <2>7. Len(wire[c] \o h) <= Capacity
    BY <2>2, <2>3, <2>6
  <2> QED
    BY <1>1, <1>3, <2>1, <2>3, <2>6, <2>7 DEF L, h, n
<1> QED
  BY <1>2, <1>3

(* One line is written whole, between what was sent and what is owed. *)
LEMMA LineWritten ==
  ASSUME TypeOK, NEW c \in Clients, NEW x \in REPLY .. published,
         Writes(c, <<x>>), ~Gone(c), heard' = heard, greeted' = greeted,
         greeting' = greeting
  PROVE  Due(c)' = Put(Received(c), x, Owed(c))
<1>1. <<x>> \in Seq(REPLY .. published) /\ <<x>> # <<>> /\ Len(<<x>>) = 1
  OBVIOUS
<1>2. Fits(c, <<x>>) \in 1 .. Len(<<x>>)
      /\ wire'[c] = wire[c] \o SubSeq(<<x>>, 1, Fits(c, <<x>>))
  BY <1>1, Written
<1>3. Fits(c, <<x>>) = Len(<<x>>)
  BY <1>1, <1>2
<1>4. SubSeq(<<x>>, 1, Len(<<x>>)) = <<x>>
  BY <1>1, SubSeqFull
<1>5. wire'[c] = wire[c] \o <<x>>
  BY <1>2, <1>3, <1>4
<1>6. x \in Int /\ <<x>> \in Seq(Int)
  BY Lines DEF TypeOK, REPLY
<1>7. heard[c] \o (wire[c] \o <<x>>) = (heard[c] \o wire[c]) \o <<x>>
  <2> DEFINE s == heard[c]
             t == wire[c]
             u == <<x>>
  <2>1. s \in Seq(Int) /\ t \in Seq(Int) /\ u \in Seq(Int)
    BY <1>6, Lines
  <2> HIDE DEF s, t, u
  <2>2. (s \o t) \o u = s \o (t \o u)
    BY <2>1, ConcatAssociative, SMTT(30)
  <2> QED
    BY <2>2 DEF s, t, u
<1> QED
  BY <1>5, <1>7 DEF Due, Received, Owed, Put

(* A growing count of lines only widens the types of the sequences. *)
LEMMA TypesWiden ==
  ASSUME TypeOK, published' \in 0 .. MaxLines, published <= published'
  PROVE  /\ Seq(1 .. published) \subseteq Seq(1 .. published')
         /\ Seq(HELLO .. published) \subseteq Seq(HELLO .. published')
         /\ Seq(REPLY .. published) \subseteq Seq(REPLY .. published')
<1>1. /\ 1 .. published \subseteq 1 .. published'
      /\ HELLO .. published \subseteq HELLO .. published'
      /\ REPLY .. published \subseteq REPLY .. published'
  BY BridgeAssumption, SMTT(30) DEF TypeOK, HELLO, REPLY
<1> QED
  BY <1>1, SeqGrows

(* What deque(maxlen) makes of the backlog when a line is appended. *)
LEMMA BacklogAppended ==
  ASSUME TypeOK, BacklogIsLast, published' = published + 1,
         backlog' = Kept(Append(backlog, published'))
  PROVE  /\ backlog' \in Seq(1 .. published') /\ Len(backlog') <= BacklogMax
         /\ BacklogIsLast'
<1> DEFINE n == published
           N == 1 .. published'
           b == backlog
           a == Append(b, published')
           l == Len(b)
<1>1. n \in Nat /\ published' = n + 1 /\ published' \in N /\ 1 .. n \subseteq N
  BY BridgeAssumption DEF TypeOK
<1>2. b \in Seq(1 .. n) /\ l <= BacklogMax /\ BacklogMax \in Nat \ {0}
  BY BridgeAssumption DEF TypeOK
<1>3. \A i \in 1 .. l : b[i] = n - l + i
  BY DEF BacklogIsLast
<1> HIDE DEF n, b, N
<1>4. b \in Seq(N) /\ l \in Nat
  BY <1>1, <1>2, SeqGrows, LenProperties
<1>5. /\ a \in Seq(N) /\ Len(a) = l + 1
      /\ \A i \in 1 .. l : a[i] = b[i]
      /\ a[l + 1] = n + 1
  BY <1>1, <1>4, AppendProperties
<1> HIDE DEF a, l
<1>6. \A i \in 1 .. l + 1 : a[i] = n - l + i
  BY <1>1, <1>3, <1>4, <1>5
<1>7. CASE ~(Len(a) > BacklogMax)
  <2>1. backlog' = a
    BY <1>7 DEF Kept, a, b
  <2>2. Len(a) <= BacklogMax
    BY <1>2, <1>4, <1>5, <1>7
  <2>3. ASSUME NEW i \in 1 .. Len(a) PROVE a[i] = published' - Len(a) + i
    <3>1. a[i] = n - l + i
      BY <1>5, <1>6
    <3> QED
      BY <1>1, <1>4, <1>5, <3>1
  <2> QED
    BY <1>5, <2>1, <2>2, <2>3 DEF BacklogIsLast, N
<1>8. CASE Len(a) > BacklogMax
  <2>1. backlog' = Tail(a)
    BY <1>8 DEF Kept, a, b
  <2> DEFINE t == Tail(a)
  <2>2. a # <<>>
    BY <1>4, <1>5
  <2>3. /\ t \in Seq(N) /\ Len(t) = l
        /\ \A i \in 1 .. l : t[i] = a[i + 1]
    BY <1>4, <1>5, <2>2, HeadTailProperties
  <2> HIDE DEF t
  <2>4. \A i \in 1 .. l : t[i] = (n + 1) - l + i
    <3> TAKE i \in 1 .. l
    <3>1. i + 1 \in 1 .. l + 1 /\ t[i] = a[i + 1]
      BY <1>4, <2>3
    <3>2. a[i + 1] = n - l + (i + 1)
      BY <1>6, <3>1
    <3> QED
      BY <1>1, <1>4, <3>1, <3>2
  <2>5. backlog' = t
    BY <2>1 DEF t
  <2> QED
    BY <1>1, <1>2, <2>3, <2>4, <2>5 DEF BacklogIsLast, N
<1> QED
  BY <1>7, <1>8

-----------------------------------------------------------------------------
(* The steps *)

LEMMA PublishStep == BridgeInv /\ Publish => BridgeInv'
<1> SUFFICES ASSUME BridgeInv, Publish PROVE BridgeInv'
  OBVIOUS
<1> USE DEF BridgeInv
<1>1. /\ published' = published + 1 /\ published \in Nat
      /\ published' \in 0 .. MaxLines /\ published <= published'
  BY BridgeAssumption DEF Publish, TypeOK
<1>2. /\ backlog' \in Seq(1 .. published') /\ Len(backlog') <= BacklogMax
      /\ BacklogIsLast'
  BY BacklogAppended DEF Publish
<1>3. TypeOK'
  <2>1. /\ greeting \in Seq(HELLO .. published')
        /\ wire \in [Clients -> Seq(REPLY .. published')]
        /\ heard \in [Clients -> Seq(REPLY .. published')]
    BY <1>1, TypesWiden DEF TypeOK
  <2> QED
    BY <1>1, <1>2, <2>1 DEF Publish, TypeOK
<1>4. ListsDistinct' /\ NewcomersUntouched'
  BY DEF Publish, ListsDistinct, NewcomersUntouched, Fresh
<1>5. ASSUME NEW c \in Clients
      PROVE  Once(Due(c))' /\ ~Contains(Due(c), published)'
  <2>1. Due(c)' = Due(c)
    BY DEF Publish, Due, Owed, Received
  <2>2. ~Contains(Due(c), published + 1)
    BY <1>1, Lines DEF REPLY
  <2> QED
    BY <1>1, <2>1, <2>2 DEF LinesOnce
<1> QED
  BY <1>2, <1>3, <1>4, <1>5 DEF LinesOnce

(* Steps that leave the lines and their recipients alone. *)
LEMMA LinesKept ==
  ASSUME LinesOnce, UNCHANGED <<published, recipients>>,
         \A c \in Clients : Due(c)' = Due(c)
  PROVE  LinesOnce'
  BY DEF LinesOnce

(* A reset takes the end of what is under way, and leaves the rest as it   *)
(* was.                                                                    *)
LEMMA LinesReset ==
  ASSUME TypeOK, LinesOnce, NEW c \in Clients, Reset(c) \/ wire' = wire,
         UNCHANGED <<heard, greeted, greeting, published, recipients>>
  PROVE  /\ wire' \in [Clients -> Seq(REPLY .. published)]
         /\ \A d \in Clients : Len(wire'[d]) <= Capacity
         /\ \A d \in Clients \ {c} : wire'[d] = wire[d]
         /\ LinesOnce'
<1>1. CASE wire' = wire
  <2>1. \A d \in Clients : Due(d)' = Due(d)
    BY <1>1 DEF Due, Owed, Received
  <2> QED
    BY <1>1, <2>1, LinesKept DEF TypeOK
<1>2. CASE Reset(c)
  <2> DEFINE L == REPLY .. published
             w == wire[c]
  <2>1. PICK n \in 0 .. Len(w) : wire' = [wire EXCEPT ![c] = SubSeq(w, 1, n)]
    BY <1>2 DEF Reset
  <2> DEFINE k == SubSeq(w, 1, n)
             t == SubSeq(w, n + 1, Len(w))
             s == heard[c]
             u == Owed(c)
  <2>2. /\ wire \in [Clients -> Seq(L)] /\ w \in Seq(L) /\ w \in Seq(Int)
        /\ Len(w) \in Nat /\ n \in Nat /\ n <= Len(w) /\ Len(w) <= Capacity
        /\ s \in Seq(Int) /\ u \in Seq(Int) /\ Capacity \in Nat
    <3>1. /\ wire \in [Clients -> Seq(L)] /\ w \in Seq(L) /\ Len(w) <= Capacity
          /\ Capacity \in Nat
      BY BridgeAssumption DEF TypeOK
    <3>2. w \in Seq(Int) /\ s \in Seq(Int) /\ u \in Seq(Int)
      BY Lines
    <3> HIDE DEF w, L, s, u
    <3>3. Len(w) \in Nat
      BY <3>1, LenProperties
    <3>4. n \in Nat /\ n <= Len(w)
      BY <3>3
    <3> QED
      BY <3>1, <3>2, <3>3, <3>4
  <2>3. /\ \A i \in 1 .. n : w[i] \in L /\ w[i] \in Int
        /\ \A i \in n + 1 .. Len(w) : w[i] \in Int
    <3> HIDE DEF w, L
    <3>1. \A i \in 1 .. Len(w) : w[i] \in L /\ w[i] \in Int
      BY <2>2, ElementOfSeq
    <3> QED
      BY <2>2, <3>1
  <2>4. k \in Seq(L) /\ k \in Seq(Int) /\ Len(k) = n /\ t \in Seq(Int)
    <3> HIDE DEF w, L
    <3> QED
      BY <2>2, <2>3, SubSeqProperties
  <2>5. /\ wire' \in [Clients -> Seq(L)]
        /\ \A d \in Clients : Len(wire'[d]) <= Capacity
        /\ \A d \in Clients \ {c} : wire'[d] = wire[d]
        /\ wire'[c] = k
    <3> HIDE DEF k, w, L
    <3>1. wire' = [wire EXCEPT ![c] = k] /\ Len(k) <= Capacity
      BY <2>1, <2>2, <2>4 DEF k
    <3> QED
      BY <2>2, <2>4, <3>1 DEF TypeOK
  <2>6. (s \o k) \o t = s \o w
    <3> HIDE DEF s, w
    <3> QED
      BY <2>1, <2>2, CutPayload
  <2>7. Due(c) = ((s \o k) \o t) \o u /\ Due(c)' = (s \o k) \o u
    BY <2>5, <2>6 DEF Due, Owed, Received
  <2>8. Once(((s \o k) \o t) \o u)
    BY <2>7 DEF LinesOnce
  <2>9. s \o k \in Seq(Int)
    <3> HIDE DEF s, k
    <3> QED
      BY <2>2, <2>4, ConcatProperties
  <2>10. /\ Once(Due(c)')
         /\ \A x : Contains(Due(c)', x) => Contains(Due(c), x)
    <3> DEFINE v == s \o k
    <3> HIDE DEF s, k, t, u
    <3>1. v \in Seq(Int) /\ t \in Seq(Int) /\ u \in Seq(Int) /\ Once((v \o t) \o u)
      BY <2>2, <2>4, <2>8, <2>9
    <3> HIDE DEF v
    <3>2. /\ Once(v \o u)
          /\ \A x : Contains(v \o u, x) => Contains((v \o t) \o u, x)
      BY <3>1, OnceWithout
    <3> QED
      BY <2>7, <3>2 DEF v
  <2>11. ASSUME NEW d \in Clients, d # c PROVE Due(d)' = Due(d)
    BY <2>5, <2>11 DEF Due, Owed, Received
  <2>12. LinesOnce'
    BY <2>10, <2>11 DEF LinesOnce
  <2> QED
    BY <2>5, <2>12
<1> QED
  BY <1>1, <1>2

LEMMA CommandTaken ==
  ASSUME TypeOK, NEW c \in Clients, commands[c] # <<>>,
         commands' = [commands EXCEPT ![c] = Tail(commands[c])]
  PROVE  commands' \in [Clients -> Seq(Kinds)]
<1>1. Tail(commands[c]) \in Seq(Kinds)
  BY HeadTailProperties DEF TypeOK
<1> QED
  BY <1>1 DEF TypeOK

LEMMA SendLineStep == BridgeInv /\ SendLine => BridgeInv'
<1> SUFFICES ASSUME BridgeInv, SendLine PROVE BridgeInv'
  OBVIOUS
<1> USE DEF BridgeInv
<1>0. PICK c : c = Head(recipients)
  OBVIOUS
<1>1. /\ c \in Clients /\ recipients' = Tail(recipients) /\ recipients' \in Seq(Clients)
      /\ Distinct(recipients')
      /\ Contains(recipients, c) /\ ~Contains(recipients', c)
      /\ \A x : Contains(recipients', x) => Contains(recipients, x)
  BY <1>0, DistinctTail DEF SendLine, TypeOK, ListsDistinct
<1>2. published \in Nat /\ published \in REPLY .. published
  BY BridgeAssumption DEF TypeOK, REPLY
<1>3. Writes(c, <<published>>) \/ wire' = wire
  BY <1>0 DEF SendLine
<1>4. /\ wire' \in [Clients -> Seq(REPLY .. published)]
      /\ \A d \in Clients : Len(wire'[d]) <= Capacity
      /\ \A d \in Clients \ {c} : wire'[d] = wire[d]
      /\ Gone(c) => wire' = wire
  <2>1. <<published>> \in Seq(REPLY .. published) /\ <<published>> # <<>>
    BY <1>2
  <2>2. CASE Writes(c, <<published>>)
    BY <1>1, <2>1, <2>2, Written
  <2>3. CASE wire' = wire
    BY <2>3 DEF TypeOK
  <2> QED
    BY <1>3, <2>2, <2>3
<1>5. TypeOK'
  BY <1>1, <1>4 DEF SendLine, TypeOK
<1>6. ListsDistinct' /\ BacklogIsLast'
  BY <1>1 DEF SendLine, ListsDistinct, BacklogIsLast
<1>7. NewcomersUntouched'
  BY <1>1, <1>4 DEF SendLine, NewcomersUntouched, Fresh
<1>8. ASSUME NEW d \in Clients, d # c \/ wire' = wire
      PROVE  /\ Once(Due(d)')
             /\ Contains(recipients', d) => ~Contains(Due(d)', published')
  <2>1. Due(d)' = Due(d)
    BY <1>1, <1>4, <1>8 DEF SendLine, Due, Owed, Received
  <2> QED
    BY <1>1, <2>1 DEF SendLine, LinesOnce
<1>9. CASE ~Gone(c) /\ Writes(c, <<published>>)
  <2>1. Due(c)' = Put(Received(c), published, Owed(c))
    BY <1>1, <1>2, <1>9, LineWritten DEF SendLine
  <2>2. ~Contains(Due(c), published) /\ Once(Due(c))
    BY <1>1 DEF LinesOnce
  <2>3. Received(c) \in Seq(Int) /\ Owed(c) \in Seq(Int) /\ published \in Int
    BY <1>1, <1>2, Lines
  <2>4. Once(Put(Received(c), published, Owed(c)))
    BY <2>2, <2>3, OnceInserted DEF Due
  <2> QED
    BY <1>1, <1>8, <2>1, <2>4, <1>5, <1>6, <1>7 DEF LinesOnce
<1> QED
  BY <1>1, <1>3, <1>4, <1>5, <1>6, <1>7, <1>8, <1>9 DEF LinesOnce

LEMMA AcceptStep == BridgeInv /\ Accept => BridgeInv'
<1> SUFFICES ASSUME BridgeInv, Accept PROVE BridgeInv'
  OBVIOUS
<1> USE DEF BridgeInv
<1>0. PICK c : c = Head(listening)
  OBVIOUS
<1>1. /\ c \in Clients /\ listening' = Tail(listening) /\ listening' \in Seq(Clients)
      /\ Distinct(listening')
      /\ Contains(listening, c) /\ ~Contains(listening', c)
      /\ \A x : Contains(listening', x) => Contains(listening, x)
  BY <1>0, DistinctTail DEF Accept, TypeOK, ListsDistinct
<1>2. /\ heard[c] = <<>> /\ wire[c] = <<>> /\ client[c] # "away"
      /\ ~Contains(registered, c) /\ ~Contains(recipients, c)
  BY <1>1 DEF NewcomersUntouched, Fresh
<1>3. /\ greeted = None /\ greeted' = c /\ registered' = Append(registered, c)
      /\ first' = [first EXCEPT ![c] = published - Len(backlog) + 1]
      /\ greeting' = <<HELLO>> \o backlog
  BY <1>0 DEF Accept, Greeting
<1>4. /\ registered' \in Seq(Clients) /\ Distinct(registered')
      /\ \A x : Contains(registered', x) => Contains(registered, x) \/ x = c
  BY <1>1, <1>2, <1>3, DistinctAppend DEF TypeOK, ListsDistinct
<1>5. /\ Len(backlog) \in Nat /\ published \in Nat /\ published <= MaxLines
      /\ MaxLines \in Nat
      /\ \A i \in 1 .. Len(backlog) : backlog[i] \in 1 .. published
      /\ \A i \in 1 .. Len(backlog) : backlog[i] = published - Len(backlog) + i
  <2>1. /\ backlog \in Seq(1 .. published) /\ published \in 0 .. MaxLines
        /\ MaxLines \in Nat
    BY BridgeAssumption DEF TypeOK
  <2>2. Len(backlog) \in Nat /\ \A i \in 1 .. Len(backlog) : backlog[i] \in 1 .. published
    BY <2>1, LenProperties, ElementOfSeq
  <2> QED
    BY <2>1, <2>2 DEF BacklogIsLast
<1>6. published - Len(backlog) + 1 \in 1 .. MaxLines + 1
  <2>1. CASE Len(backlog) = 0
    BY <1>5, <2>1
  <2>2. CASE Len(backlog) # 0
    <3>1. 1 \in 1 .. Len(backlog)
      BY <1>5, <2>2
    <3> QED
      BY <1>5, <3>1
  <2> QED
    BY <2>1, <2>2
<1> DEFINE h == <<HELLO>>
           b == backlog
           g == h \o b
<1>7. /\ g \in Seq(HELLO .. published) /\ Len(g) = Len(b) + 1
      /\ \A i \in 1 .. Len(b) + 1 : g[i] = IF i <= 1 THEN HELLO ELSE b[i - 1]
  <2>1. 1 .. published \subseteq HELLO .. published /\ HELLO \in HELLO .. published
    BY <1>5 DEF HELLO
  <2>2. b \in Seq(HELLO .. published)
    BY <2>1, SeqGrows DEF TypeOK
  <2>3. /\ h \in Seq(HELLO .. published) /\ Len(h) = 1 /\ h[1] = HELLO
        /\ \A i \in 1 .. 1 : h[i] = HELLO
    BY <2>1
  <2> HIDE DEF h, b
  <2>4. /\ g \in Seq(HELLO .. published) /\ Len(g) = Len(h) + Len(b)
        /\ \A i \in 1 .. Len(h) + Len(b) :
             g[i] = IF i <= Len(h) THEN h[i] ELSE b[i - Len(h)]
    BY <2>2, <2>3, ConcatProperties
  <2>5. Len(b) \in Nat
    BY <1>5 DEF b
  <2> HIDE DEF g
  <2> QED
    BY <2>3, <2>4, <2>5
<1>8. Once(g)
  <2> HIDE DEF g
  <2>1. \A i \in 1 .. Len(b) + 1 \ {1} : i - 1 \in 1 .. Len(b) /\ g[i] = b[i - 1]
    BY <1>5, <1>7
  <2>2. ASSUME NEW i \in 1 .. Len(b) + 1, NEW j \in 1 .. Len(b) + 1,
               i # j, g[i] > HELLO, g[i] = g[j]
        PROVE  FALSE
    <3>1. CASE i = 1
      BY <1>5, <1>7, <2>2, <3>1 DEF HELLO
    <3>2. CASE i # 1 /\ j = 1
      BY <1>5, <1>7, <2>2, <3>2 DEF HELLO
    <3>3. CASE i # 1 /\ j # 1
      <4>1. b[i - 1] = b[j - 1]
        BY <2>1, <2>2, <3>3
      <4>2. /\ b[i - 1] = published - Len(b) + (i - 1)
            /\ b[j - 1] = published - Len(b) + (j - 1)
        <5>1. i - 1 \in 1 .. Len(backlog) /\ j - 1 \in 1 .. Len(backlog)
          BY <2>1, <3>3
        <5> QED
          BY <1>5, <5>1
      <4>3. i \in Int /\ j \in Int /\ Len(b) \in Nat /\ published \in Nat
        BY <1>5
      <4>4. i = j
        <5> DEFINE k == published - Len(b)
        <5>1. k \in Int
          BY <4>3
        <5> HIDE DEF k
        <5>2. k + (i - 1) = k + (j - 1)
          BY <4>1, <4>2 DEF k
        <5> QED
          BY <4>3, <5>1, <5>2
      <4> QED
        BY <2>2, <4>4
    <3> QED
      BY <3>1, <3>2, <3>3
  <2> QED
    BY <1>7, <2>2 DEF Once
<1>9. TypeOK'
  <2>1. UNCHANGED <<backlog, published, recipients, reader, client, wire, commands,
                    heard, asked>>
    BY Zenon DEF Accept
  <2> QED
    BY <1>1, <1>3, <1>4, <1>6, <1>7, <2>1, SMTT(60) DEF TypeOK
<1>10. ListsDistinct' /\ BacklogIsLast'
  BY <1>1, <1>4 DEF Accept, ListsDistinct, BacklogIsLast
<1>11. NewcomersUntouched'
  BY <1>1, <1>2, <1>3, <1>4 DEF Accept, NewcomersUntouched, Fresh
<1>12. Due(c)' = g
  <2>1. Due(c)' = (<<>> \o <<>>) \o g
    BY <1>1, <1>2, <1>3 DEF Accept, Due, Owed, Received
  <2>2. <<>> \o <<>> = <<>> /\ <<>> \o g = g
    BY <1>7, ConcatEmptySeq, EmptySeq
  <2> QED
    BY <2>1, <2>2
<1>13. ASSUME NEW d \in Clients, d # c PROVE Due(d)' = Due(d)
  BY <1>3, <1>13, BridgeAssumption DEF Accept, Due, Owed, Received
<1>14. ASSUME NEW d \in Clients
       PROVE  /\ Once(Due(d)')
              /\ Contains(recipients', d) => ~Contains(Due(d)', published')
  BY <1>2, <1>8, <1>12, <1>13 DEF Accept, LinesOnce
<1> QED
  BY <1>9, <1>10, <1>11, <1>14 DEF LinesOnce

LEMMA GreetStep == BridgeInv /\ Greet => BridgeInv'
<1> SUFFICES ASSUME BridgeInv, Greet PROVE BridgeInv'
  OBVIOUS
<1> USE DEF BridgeInv
<1>0. PICK c \in Clients : c = greeted
  BY DEF Greet, TypeOK
<1>1. greeting \in Seq(HELLO .. published) /\ greeting # <<>>
      /\ greeting \in Seq(REPLY .. published) /\ greeting \in Seq(Int)
  <2>1. HELLO .. published \subseteq REPLY .. published
    BY DEF TypeOK, HELLO, REPLY
  <2> QED
    BY <1>0, <2>1, SeqGrows, Lines DEF Greet, TypeOK
<1>2. Writes(c, greeting) /\ greeting' = Unwritten(c, greeting)
  BY <1>0 DEF Greet
<1> DEFINE n == Fits(c, greeting)
           h == SubSeq(greeting, 1, n)
           r == SubSeq(greeting, n + 1, Len(greeting))
<1>3. /\ wire' \in [Clients -> Seq(REPLY .. published)]
      /\ \A d \in Clients : Len(wire'[d]) <= Capacity
      /\ \A d \in Clients \ {c} : wire'[d] = wire[d]
      /\ Gone(c) => wire' = wire
      /\ ~Gone(c) => n \in 1 .. Len(greeting) /\ wire'[c] = wire[c] \o h
  BY <1>1, <1>2, Written
<1>4. greeting' = IF Gone(c) THEN <<>> ELSE r
  BY <1>2 DEF Unwritten
<1> HIDE DEF n
<1>5. greeting' \in Seq(HELLO .. published)
  <2>1. CASE Gone(c)
    BY <1>4, <2>1
  <2>2. CASE ~Gone(c)
    <3>1. n \in 1 .. Len(greeting) /\ Len(greeting) \in Nat
      BY <1>1, <1>3, <2>2, LenProperties
    <3>2. \A i \in 1 .. Len(greeting) : greeting[i] \in HELLO .. published
      BY <1>1, ElementOfSeq
    <3>3. \A i \in n + 1 .. Len(greeting) : greeting[i] \in HELLO .. published
      BY <3>1, <3>2
    <3>4. r \in Seq(HELLO .. published)
      BY <3>1, <3>3, SubSeqProperties
    <3> QED
      BY <1>4, <2>2, <3>4
  <2> QED
    BY <2>1, <2>2
<1>6. TypeOK'
  BY <1>3, <1>5 DEF Greet, TypeOK
<1>7. ListsDistinct' /\ BacklogIsLast'
  BY DEF Greet, ListsDistinct, BacklogIsLast
<1>8. NewcomersUntouched'
  BY <1>0, <1>3 DEF Greet, NewcomersUntouched, Fresh
<1>9. ASSUME NEW d \in Clients, d # c PROVE Due(d)' = Due(d)
  BY <1>0, <1>3, <1>9 DEF Greet, Due, Owed, Received
<1>10. Due(c) = (heard[c] \o wire[c]) \o greeting
  BY <1>0 DEF Due, Owed, Received
<1>11. /\ Once(Due(c)')
       /\ Contains(recipients', c) => ~Contains(Due(c)', published')
  <2>1. CASE ~Gone(c)
    <3> DEFINE u == heard[c]
               w == wire[c]
               g == greeting
    <3>1. Due(c)' = (u \o (w \o h)) \o r
      BY <1>0, <1>3, <1>4, <2>1 DEF Greet, Due, Owed, Received
    <3>2. u \in Seq(Int) /\ w \in Seq(Int) /\ g \in Seq(Int) /\ u \o w \in Seq(Int)
      BY Lines DEF Received
    <3>3. n \in 0 .. Len(g)
      BY <1>1, <1>3, <2>1, LenProperties
    <3>4. ((u \o w) \o h) \o r = (u \o w) \o g
      <4> HIDE DEF u, w
      <4> QED
        BY <3>2, <3>3, CutPayload
    <3>5. h \in Seq(Int)
      <4>1. Len(g) \in Nat /\ \A i \in 1 .. Len(g) : g[i] \in Int
        BY <3>2, LenProperties, ElementOfSeq
      <4>2. \A i \in 1 .. n : g[i] \in Int
        BY <3>3, <4>1
      <4> QED
        BY <3>3, <4>1, <4>2, SubSeqProperties
    <3> HIDE DEF u, w, h, r
    <3>6. (u \o w) \o h = u \o (w \o h)
      <4>1. u \in Seq(Int) /\ w \in Seq(Int) /\ h \in Seq(Int)
        BY <3>2, <3>5
      <4> QED
        BY <4>1, ConcatAssociative, SMTT(30)
    <3>7. Due(c)' = Due(c)
      BY <1>10, <3>1, <3>4, <3>6 DEF u, w
    <3> QED
      BY <3>7 DEF Greet, LinesOnce
  <2>2. CASE Gone(c)
    <3>1. Due(c)' = (heard[c] \o wire[c]) \o <<>>
      BY <1>0, <1>3, <1>4, <2>2 DEF Greet, Due, Owed, Received
    <3> DEFINE u == heard[c] \o wire[c]
    <3>2. u \in Seq(Int) /\ Once(u \o greeting)
      BY <1>10, Lines DEF Received, LinesOnce
    <3>3. /\ Once(u \o <<>>)
          /\ \A x : Contains(u \o <<>>, x) => Contains(u \o greeting, x)
      <4> HIDE DEF u
      <4>1. u \o <<>> = u /\ <<>> \in Seq(Int)
        BY <3>2, ConcatEmptySeq
      <4>2. (u \o greeting) \o <<>> = u \o greeting
        BY <1>1, <3>2, ConcatProperties, ConcatEmptySeq
      <4>3. Once((u \o greeting) \o <<>>)
        BY <3>2, <4>2
      <4> QED
        BY <1>1, <3>2, <4>1, <4>2, <4>3, OnceWithout
    <3> QED
      BY <1>10, <3>1, <3>3 DEF Greet, LinesOnce
  <2> QED
    BY <2>1, <2>2
<1>12. ASSUME NEW d \in Clients
       PROVE  /\ Once(Due(d)')
              /\ Contains(recipients', d) => ~Contains(Due(d)', published')
  BY <1>9, <1>11 DEF Greet, LinesOnce
<1> QED
  BY <1>6, <1>7, <1>8, <1>12 DEF LinesOnce

LEMMA StartReaderStep == BridgeInv /\ StartReader => BridgeInv'
<1> SUFFICES ASSUME BridgeInv, StartReader PROVE BridgeInv'
  OBVIOUS
<1> USE DEF BridgeInv
<1>1. TypeOK' /\ ListsDistinct' /\ BacklogIsLast'
  BY DEF StartReader, TypeOK, ListsDistinct, BacklogIsLast
<1>2. NewcomersUntouched'
  BY BridgeAssumption DEF StartReader, NewcomersUntouched, Fresh, TypeOK
<1>3. \A c \in Clients : Due(c)' = Due(c)
  BY BridgeAssumption DEF StartReader, Due, Owed, Received
<1> QED
  BY <1>1, <1>2, <1>3, LinesKept DEF StartReader

LEMMA TakeCommandStep ==
  ASSUME NEW c \in Clients PROVE BridgeInv /\ TakeCommand(c) => BridgeInv'
<1> SUFFICES ASSUME BridgeInv, TakeCommand(c) PROVE BridgeInv'
  OBVIOUS
<1> USE DEF BridgeInv
<1>0. commands' \in [Clients -> Seq(Kinds)]
  <2>1. commands[c] # <<>> /\ commands' = [commands EXCEPT ![c] = Tail(commands[c])]
    BY DEF TakeCommand
  <2> QED
    BY <2>1, CommandTaken
<1>1. TypeOK' /\ ListsDistinct' /\ BacklogIsLast'
  BY <1>0 DEF TakeCommand, TypeOK, ListsDistinct, BacklogIsLast
<1>2. NewcomersUntouched'
  BY DEF TakeCommand, NewcomersUntouched, Fresh, TypeOK
<1>3. \A d \in Clients : Due(d)' = Due(d)
  BY DEF TakeCommand, Due, Owed, Received
<1> QED
  BY <1>1, <1>2, <1>3, LinesKept DEF TakeCommand

LEMMA SendReplyStep ==
  ASSUME NEW c \in Clients PROVE BridgeInv /\ SendReply(c) => BridgeInv'
<1> SUFFICES ASSUME BridgeInv, SendReply(c) PROVE BridgeInv'
  OBVIOUS
<1> USE DEF BridgeInv
<1>1. published \in Nat /\ REPLY \in REPLY .. published /\ REPLY # published
      /\ REPLY <= HELLO /\ REPLY \in Int /\ published \in Int
  BY BridgeAssumption DEF TypeOK, REPLY, HELLO
<1>2. Writes(c, <<REPLY>>)
  BY DEF SendReply
<1>3. /\ wire' \in [Clients -> Seq(REPLY .. published)]
      /\ \A d \in Clients : Len(wire'[d]) <= Capacity
      /\ \A d \in Clients \ {c} : wire'[d] = wire[d]
      /\ Gone(c) => wire' = wire
  <2>1. <<REPLY>> \in Seq(REPLY .. published) /\ <<REPLY>> # <<>>
    BY <1>1
  <2> QED
    BY <1>2, <2>1, Written
<1>4. TypeOK'
  BY <1>3 DEF SendReply, TypeOK
<1>5. ListsDistinct' /\ BacklogIsLast'
  BY DEF SendReply, ListsDistinct, BacklogIsLast
<1>6. NewcomersUntouched'
  BY <1>3 DEF SendReply, NewcomersUntouched, Fresh, TypeOK
<1>7. ASSUME NEW d \in Clients, d # c \/ Gone(c)
      PROVE  /\ Once(Due(d)')
             /\ Contains(recipients', d) => ~Contains(Due(d)', published')
  <2>1. Due(d)' = Due(d)
    BY <1>3, <1>7 DEF SendReply, Due, Owed, Received
  <2> QED
    BY <2>1 DEF SendReply, LinesOnce
<1>8. ASSUME ~Gone(c)
      PROVE  /\ Once(Due(c)')
             /\ Contains(recipients', c) => ~Contains(Due(c)', published')
  <2>1. Due(c)' = Put(Received(c), REPLY, Owed(c))
    BY <1>1, <1>2, <1>8, LineWritten DEF SendReply
  <2>2. /\ Once(Due(c))
        /\ Contains(recipients, c) => ~Contains(Due(c), published)
    BY DEF LinesOnce
  <2>3. Received(c) \in Seq(Int) /\ Owed(c) \in Seq(Int)
    BY Lines
  <2>4. Once(Put(Received(c), REPLY, Owed(c)))
    BY <1>1, <2>2, <2>3, OnceInserted DEF Due
  <2>5. Contains(Put(Received(c), REPLY, Owed(c)), published) => Contains(Due(c), published)
    BY <1>1, <2>3, ContainsInserted DEF Due
  <2> QED
    BY <2>1, <2>2, <2>4, <2>5 DEF SendReply
<1> QED
  BY <1>4, <1>5, <1>6, <1>7, <1>8 DEF LinesOnce

LEMMA EndReaderStep ==
  ASSUME NEW c \in Clients PROVE BridgeInv /\ EndReader(c) => BridgeInv'
<1> SUFFICES ASSUME BridgeInv, EndReader(c) PROVE BridgeInv'
  OBVIOUS
<1> USE DEF BridgeInv
<1>0. commands' \in [Clients -> Seq(Kinds)]
  <2>1. CASE UNCHANGED commands
    BY <2>1 DEF TypeOK
  <2>2. CASE commands[c] # <<>> /\ commands' = [commands EXCEPT ![c] = Tail(commands[c])]
    BY <2>2, CommandTaken
  <2> QED
    BY <2>1, <2>2 DEF EndReader
<1>1. /\ registered' \in Seq(Clients) /\ Distinct(registered')
      /\ \A x : Contains(registered', x) => Contains(registered, x)
  BY RemovedOnce DEF EndReader, TypeOK, ListsDistinct
<1>2. TypeOK' /\ ListsDistinct' /\ BacklogIsLast'
  BY <1>0, <1>1 DEF EndReader, TypeOK, ListsDistinct, BacklogIsLast
<1>3. NewcomersUntouched'
  BY <1>1 DEF EndReader, NewcomersUntouched, Fresh, TypeOK
<1>4. \A d \in Clients : Due(d)' = Due(d)
  BY DEF EndReader, Due, Owed, Received
<1> QED
  BY <1>2, <1>3, <1>4, LinesKept DEF EndReader

LEMMA CloseSocketStep ==
  ASSUME NEW c \in Clients PROVE BridgeInv /\ CloseSocket(c) => BridgeInv'
<1> SUFFICES ASSUME BridgeInv, CloseSocket(c) PROVE BridgeInv'
  OBVIOUS
<1> USE DEF BridgeInv
<1>1. /\ UNCHANGED <<heard, greeted, greeting, published, recipients>>
      /\ Reset(c) \/ wire' = wire
  BY DEF CloseSocket
<1>2. /\ wire' \in [Clients -> Seq(REPLY .. published)]
      /\ \A d \in Clients : Len(wire'[d]) <= Capacity
      /\ \A d \in Clients \ {c} : wire'[d] = wire[d]
      /\ LinesOnce'
  BY <1>1, LinesReset
<1>3. TypeOK'
  BY <1>2 DEF CloseSocket, TypeOK
<1>4. ListsDistinct' /\ BacklogIsLast'
  BY DEF CloseSocket, ListsDistinct, BacklogIsLast
<1>5. NewcomersUntouched'
  BY <1>2 DEF CloseSocket, NewcomersUntouched, Fresh, TypeOK
<1> QED
  BY <1>2, <1>3, <1>4, <1>5

LEMMA ConnectStep ==
  ASSUME NEW c \in Clients PROVE BridgeInv /\ Connect(c) => BridgeInv'
<1> SUFFICES ASSUME BridgeInv, Connect(c) PROVE BridgeInv'
  OBVIOUS
<1> USE DEF BridgeInv
<1>1. listening' = Append(listening, c) /\ ~Contains(listening, c)
  BY DEF Connect, NewcomersUntouched
<1>2. /\ listening' \in Seq(Clients) /\ Distinct(listening')
      /\ \A x : Contains(listening', x) => Contains(listening, x) \/ x = c
  BY <1>1, DistinctAppend DEF TypeOK, ListsDistinct
<1>3. TypeOK' /\ ListsDistinct' /\ BacklogIsLast'
  BY <1>2 DEF Connect, serverVars, TypeOK, ListsDistinct, BacklogIsLast
<1>4. NewcomersUntouched'
  BY <1>2 DEF Connect, serverVars, NewcomersUntouched, Fresh, TypeOK
<1>5. \A d \in Clients : Due(d)' = Due(d)
  BY DEF Connect, serverVars, Due, Owed, Received
<1> QED
  BY <1>3, <1>4, <1>5, LinesKept DEF Connect, serverVars

LEMMA AskStep ==
  ASSUME NEW c \in Clients PROVE BridgeInv /\ Ask(c) => BridgeInv'
<1> SUFFICES ASSUME BridgeInv, Ask(c) PROVE BridgeInv'
  OBVIOUS
<1> USE DEF BridgeInv
<1>1. PICK kind \in Kinds :
        /\ asked' = [asked EXCEPT ![c] = Append(asked[c], kind)]
        /\ \/ ~Shut(c) /\ wire' = wire
              /\ commands' = [commands EXCEPT ![c] = Append(commands[c], kind)]
           \/ Shut(c) /\ Reset(c) /\ UNCHANGED commands
  BY DEF Ask
<1>2. /\ asked' \in [Clients -> Seq(Kinds)] /\ commands' \in [Clients -> Seq(Kinds)]
      /\ \A d \in Clients : Len(asked'[d]) <= MaxCommands[d]
  <2>1. /\ Append(asked[c], kind) \in Seq(Kinds)
        /\ Append(commands[c], kind) \in Seq(Kinds)
        /\ Len(Append(asked[c], kind)) = Len(asked[c]) + 1 /\ Len(asked[c]) \in Nat
    BY AppendProperties, LenProperties DEF TypeOK
  <2>2. Len(asked[c]) < MaxCommands[c] /\ MaxCommands[c] \in Nat
    BY BridgeAssumption DEF Ask
  <2>3. Len(Append(asked[c], kind)) <= MaxCommands[c]
    BY <2>1, <2>2
  <2> QED
    BY <1>1, <2>1, <2>3 DEF TypeOK
<1>3. /\ UNCHANGED <<heard, greeted, greeting, published, recipients>>
      /\ Reset(c) \/ wire' = wire
  BY <1>1 DEF Ask, serverVars
<1>4. /\ wire' \in [Clients -> Seq(REPLY .. published)]
      /\ \A d \in Clients : Len(wire'[d]) <= Capacity
      /\ \A d \in Clients \ {c} : wire'[d] = wire[d]
      /\ LinesOnce'
  BY <1>3, LinesReset
<1>5. wire' # wire => reader[c] # "none"
  BY <1>1 DEF Shut
<1>6. TypeOK'
  BY <1>2, <1>4 DEF Ask, serverVars, TypeOK
<1>7. ListsDistinct' /\ BacklogIsLast'
  BY DEF Ask, serverVars, ListsDistinct, BacklogIsLast
<1>8. NewcomersUntouched'
  BY <1>4, <1>5 DEF Ask, serverVars, NewcomersUntouched, Fresh
<1> QED
  BY <1>4, <1>6, <1>7, <1>8

LEMMA ReadStep ==
  ASSUME NEW c \in Clients PROVE BridgeInv /\ Read(c) => BridgeInv'
<1> SUFFICES ASSUME BridgeInv, Read(c) PROVE BridgeInv'
  OBVIOUS
<1> USE DEF BridgeInv
<1> DEFINE L == REPLY .. published
           w == wire[c]
<1>1. w \in Seq(L) /\ w # <<>> /\ heard[c] \in Seq(L) /\ Len(w) <= Capacity
      /\ wire' = [wire EXCEPT ![c] = Tail(w)]
      /\ heard' = [heard EXCEPT ![c] = Append(heard[c], Head(w))]
  BY DEF Read, TypeOK
<1>2. /\ Head(w) \in L /\ Tail(w) \in Seq(L) /\ Len(Tail(w)) <= Capacity
  <2> HIDE DEF w, L
  <2>1. /\ Head(w) \in L /\ Tail(w) \in Seq(L)
        /\ Len(Tail(w)) = Len(w) - 1 /\ Len(w) \in Nat
    BY <1>1, HeadTailProperties, LenProperties
  <2> QED
    BY <1>1, <2>1, BridgeAssumption
<1>3. Append(heard[c], Head(w)) \in Seq(L)
  <2> HIDE DEF w, L
  <2> QED
    BY <1>1, <1>2, AppendProperties
<1>4. TypeOK'
  BY <1>1, <1>2, <1>3 DEF Read, serverVars, TypeOK
<1>5. ListsDistinct' /\ BacklogIsLast'
  BY DEF Read, serverVars, ListsDistinct, BacklogIsLast
<1>6. NewcomersUntouched'
  BY <1>1 DEF Read, serverVars, NewcomersUntouched, Fresh
<1>7. Append(heard[c], Head(w)) \o Tail(w) = heard[c] \o w
  <2>1. heard[c] \in Seq(Int) /\ w \in Seq(Int)
    BY Lines
  <2> HIDE DEF w
  <2> QED
    BY <1>1, <2>1, MovedLine
<1>8. ASSUME NEW d \in Clients PROVE Received(d)' = Received(d)
  <2>1. CASE d = c
    BY <1>1, <1>7, <2>1 DEF TypeOK, Received
  <2>2. CASE d # c
    BY <1>1, <2>2 DEF TypeOK, Received
  <2> QED
    BY <2>1, <2>2
<1>9. \A d \in Clients : Due(d)' = Due(d)
  BY <1>8 DEF Read, serverVars, Due, Owed
<1> QED
  BY <1>4, <1>5, <1>6, <1>9, LinesKept DEF Read, serverVars

LEMMA CloseStep ==
  ASSUME NEW c \in Clients PROVE BridgeInv /\ Close(c) => BridgeInv'
<1> SUFFICES ASSUME BridgeInv, Close(c) PROVE BridgeInv'
  OBVIOUS
<1> USE DEF BridgeInv
<1>1. /\ client' = [client EXCEPT ![c] = "closed"]
      /\ wire' = [wire EXCEPT ![c] = <<>>] /\ heard' = heard
      /\ UNCHANGED serverVars
  BY DEF Close
<1>2. PICK left \in {<<>>, commands[c]} : commands' = [commands EXCEPT ![c] = left]
  BY DEF Close
<1>3. left \in Seq(Kinds)
  BY EmptySeq DEF TypeOK
<1>4. /\ <<>> \in Seq(REPLY .. published) /\ Len(<<>>) = 0 /\ 0 <= Capacity
  BY BridgeAssumption
<1>5. TypeOK'
  <2>1. /\ wire' \in [Clients -> Seq(REPLY .. published)]
        /\ \A d \in Clients : Len(wire'[d]) <= Capacity
    BY <1>1, <1>4 DEF TypeOK
  <2>2. /\ client' \in [Clients -> {"away", "connected", "closed"}]
        /\ commands' \in [Clients -> Seq(Kinds)]
    BY <1>1, <1>2, <1>3 DEF TypeOK
  <2> QED
    BY <1>1, <2>1, <2>2 DEF Close, serverVars, TypeOK
<1>6. ListsDistinct' /\ BacklogIsLast'
  BY <1>1, <1>2, <1>3 DEF Close, serverVars, ListsDistinct,
                          BacklogIsLast, TypeOK
<1>7. NewcomersUntouched'
  BY <1>1, SMTT(30) DEF Close, serverVars, NewcomersUntouched, Fresh, TypeOK
<1>8. ASSUME NEW d \in Clients, d # c PROVE Due(d)' = Due(d)
  BY <1>1, <1>8 DEF Close, serverVars, Due, Owed, Received, TypeOK
<1>9. /\ Once(Due(c)')
      /\ \A x : Contains(Due(c)', x) => Contains(Due(c), x)
  <2> DEFINE s == heard[c]
             t == wire[c]
             u == Owed(c)
  <2>1. Due(c) = (s \o t) \o u /\ Once((s \o t) \o u)
    BY DEF Due, Received, LinesOnce
  <2>2. s \in Seq(Int) /\ t \in Seq(Int) /\ u \in Seq(Int)
    BY Lines
  <2>3. Due(c)' = (s \o <<>>) \o u
    BY <1>1 DEF Due, Received, Owed, serverVars, TypeOK
  <2> HIDE DEF s, t, u
  <2>4. s \o <<>> = s
    BY <2>2, ConcatEmptySeq
  <2>5. /\ Once(s \o u)
        /\ \A x : Contains(s \o u, x) => Contains((s \o t) \o u, x)
    BY <2>1, <2>2, OnceWithout
  <2> QED
    BY <2>1, <2>3, <2>4, <2>5
<1>10. ASSUME NEW d \in Clients
       PROVE  /\ Once(Due(d)')
              /\ Contains(recipients', d) => ~Contains(Due(d)', published')
  BY <1>1, <1>8, <1>9 DEF serverVars, LinesOnce
<1> QED
  BY <1>5, <1>6, <1>7, <1>10 DEF LinesOnce

-----------------------------------------------------------------------------

LEMMA InitInv == Init => BridgeInv
<1> SUFFICES ASSUME Init PROVE BridgeInv
  OBVIOUS
<1>1. TypeOK
  BY BridgeAssumption DEF Init, TypeOK
<1>2. ListsDistinct /\ NewcomersUntouched /\ BacklogIsLast
  BY BridgeAssumption DEF Init, ListsDistinct, Distinct,
       NewcomersUntouched, Fresh, Contains, BacklogIsLast
<1>3. LinesOnce
  <2> SUFFICES ASSUME NEW c \in Clients
               PROVE  Once(Due(c)) /\ ~Contains(recipients, c)
    BY DEF LinesOnce
  <2>1. Due(c) = <<>>
    BY BridgeAssumption, ConcatEmptySeq, EmptySeq DEF Init, Due, Owed, Received
  <2> QED
    BY <2>1 DEF Init, Once, Contains
<1> QED
  BY <1>1, <1>2, <1>3 DEF BridgeInv

(* The types, the lists without repetition, the untouched newcomers, the   *)
(* backlog of the last lines and the once sent lines are kept by every     *)
(* step of every thread and client.                                        *)
THEOREM Invariant == Spec => []BridgeInv
<1>1. BridgeInv /\ [Next]_vars => BridgeInv'
  <2> SUFFICES ASSUME BridgeInv, [Next]_vars PROVE BridgeInv'
    OBVIOUS
  <2>1. CASE Publish
    BY <2>1, PublishStep
  <2>2. CASE SendLine
    BY <2>2, SendLineStep
  <2>3. CASE Acceptor
    BY <2>3, AcceptStep, GreetStep, StartReaderStep DEF Acceptor
  <2>4. ASSUME NEW c \in Clients,
               Reader(c) \/ Connect(c) \/ Ask(c) \/ Read(c) \/ Close(c)
        PROVE  BridgeInv'
    BY <2>4, TakeCommandStep, SendReplyStep, EndReaderStep, CloseSocketStep, ConnectStep,
       AskStep, ReadStep, CloseStep DEF Reader
  <2>5. CASE UNCHANGED vars
    BY <2>5 DEF vars, serverVars, BridgeInv, TypeOK, ListsDistinct,
         NewcomersUntouched, Fresh, BacklogIsLast, LinesOnce, Due, Owed, Received
  <2> QED
    BY <2>1, <2>2, <2>3, <2>4, <2>5 DEF Next
<1> QED
  BY InitInv, <1>1, PTL DEF Spec

(* Every variable has its type: no line is numbered beyond those published,*)
(* and neither a socket nor the backlog holds more than it may.            *)
THEOREM TypeCorrect == Spec => []TypeOK
<1>1. BridgeInv => TypeOK
  BY DEF BridgeInv
<1> QED
  BY Invariant, <1>1, PTL

(* No published line is among what a client has read and what is on its    *)
(* way to it twice, whatever the threads' order: backlog and later lines   *)
(* do not overlap.                                                         *)
THEOREM NoLineTwiceTheorem == Spec => []NoLineTwice
<1>1. BridgeInv => NoLineTwice
  <2> SUFFICES ASSUME BridgeInv, NEW c \in Clients PROVE
                 \A i, j \in DOMAIN Received(c) :
                   i # j /\ Received(c)[i] > HELLO => Received(c)[i] # Received(c)[j]
    BY DEF NoLineTwice
  <2>1. /\ Received(c) \in Seq(Int) /\ Owed(c) \in Seq(Int)
        /\ Once(Received(c) \o Owed(c))
    BY Lines DEF BridgeInv, LinesOnce, Due
  <2>2. Once(Received(c))
    BY <2>1, OncePrefix
  <2>3. DOMAIN Received(c) = 1 .. Len(Received(c))
    BY <2>1, LenProperties
  <2> QED
    BY <2>2, <2>3 DEF Once
<1> QED
  BY Invariant, <1>1, PTL
=============================================================================
