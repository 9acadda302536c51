----------------------------- MODULE HostLemmas -----------------------------
(***************************************************************************)
(* What the proofs about the two handlers of Bluetooth events, CteConn and *)
(* LocatorHost, have in common: the queue of events, the lists of aoa_db.c *)
(* and the database as the events under way will make it.                  *)
(***************************************************************************)
EXTENDS AoaDb, FiniteSetTheorems, SequenceTheorems, TLAPS

-----------------------------------------------------------------------------
(* Queues.                                                                 *)

In(e, s) == \E i \in DOMAIN s : s[i] = e

(* What an element put at the end, or one taken from the front, changes.   *)
LEMMA AppendedQueue ==
  ASSUME NEW S, NEW s \in Seq(S), NEW e \in S
  PROVE  /\ Append(s, e) \in Seq(S)
         /\ \A x : In(x, Append(s, e)) <=> In(x, s) \/ x = e
<1>1. /\ Append(s, e) \in Seq(S)
      /\ Len(Append(s, e)) = Len(s) + 1
      /\ \A i \in 1 .. Len(s) : Append(s, e)[i] = s[i]
      /\ Append(s, e)[Len(s) + 1] = e
  BY AppendProperties
<1>2. /\ Len(s) \in Nat /\ DOMAIN s = 1 .. Len(s)
      /\ DOMAIN Append(s, e) = 1 .. Len(Append(s, e))
  BY <1>1, LenProperties
<1>3. QED
  BY <1>1, <1>2 DEF In

LEMMA TakenQueue ==
  ASSUME NEW S, NEW s \in Seq(S), s # <<>>
  PROVE  /\ Tail(s) \in Seq(S)
         /\ Head(s) \in S
         /\ \A x : In(x, s) <=> x = Head(s) \/ In(x, Tail(s))
<1>1. /\ Tail(s) \in Seq(S) /\ Head(s) \in S
      /\ Len(Tail(s)) = Len(s) - 1
      /\ \A i \in 1 .. Len(Tail(s)) : Tail(s)[i] = s[i + 1]
  BY HeadTailProperties
<1>2. /\ Len(s) \in Nat \ {0} /\ DOMAIN s = 1 .. Len(s)
      /\ DOMAIN Tail(s) = 1 .. Len(Tail(s))
      /\ Head(s) = s[1]
  BY <1>1, LenProperties, EmptySeq
<1>3. ASSUME NEW x, In(x, s) PROVE x = Head(s) \/ In(x, Tail(s))
  <2>1. PICK i \in 1 .. Len(s) : s[i] = x
    BY <1>2, <1>3 DEF In
  <2>2. CASE i = 1
    BY <1>2, <2>1, <2>2
  <2>3. CASE i # 1
    <3>1. i - 1 \in 1 .. Len(Tail(s)) /\ Tail(s)[i - 1] = x
      BY <1>1, <1>2, <2>1, <2>3
    <3>2. QED
      BY <1>2, <3>1 DEF In
  <2>4. QED
    BY <2>2, <2>3
<1>4. ASSUME NEW x, x = Head(s) \/ In(x, Tail(s)) PROVE In(x, s)
  <2>1. CASE x = Head(s)
    BY <1>2, <2>1 DEF In
  <2>2. CASE In(x, Tail(s))
    <3>1. PICK i \in 1 .. Len(Tail(s)) : Tail(s)[i] = x
      BY <1>2, <2>2 DEF In
    <3>2. i + 1 \in 1 .. Len(s) /\ s[i + 1] = x
      BY <1>1, <1>2, <3>1
    <3>3. QED
      BY <1>2, <3>2 DEF In
  <2>3. QED
    BY <1>4, <2>1, <2>2
<1>5. QED
  BY <1>1, <1>3, <1>4

(* Every non-empty set of naturals has a least element.                    *)
LEMMA LeastNat ==
  ASSUME NEW T, T \subseteq Nat, T # {}
  PROVE  \E v \in T : \A w \in T : v <= w
<1> DEFINE R == OpToRel(<, Nat)
<1>1. IsWellFoundedOn(R, Nat)
  BY NatLessThanWellFounded
<1> HIDE DEF R
<1>2. PICK v \in T : \A w \in T : ~(<<w, v>> \in R)
  BY <1>1, WFMin
<1>3. \A w \in T : ~(w < v)
  <2>1. SUFFICES ASSUME NEW w \in T, w < v PROVE FALSE
    OBVIOUS
  <2>2. <<w, v>> \in Nat \X Nat
    OBVIOUS
  <2>3. <<w, v>> \in R
    BY <2>1, <2>2 DEF R, OpToRel
  <2>4. QED
    BY <1>2, <2>3
<1>4. QED
  BY <1>3

(* What is known of an element put at the end, position by position.       *)
LEMMA AppendPositions ==
  ASSUME NEW S, NEW s \in Seq(S), NEW e \in S
  PROVE  /\ Append(s, e) \in Seq(S)
         /\ Len(s) \in Nat /\ DOMAIN s = 1 .. Len(s)
         /\ DOMAIN Append(s, e) = 1 .. Len(s) + 1
         /\ \A i \in 1 .. Len(s) : Append(s, e)[i] = s[i]
         /\ Append(s, e)[Len(s) + 1] = e
<1>1. /\ Append(s, e) \in Seq(S)
      /\ Len(Append(s, e)) = Len(s) + 1
      /\ \A i \in 1 .. Len(s) : Append(s, e)[i] = s[i]
      /\ Append(s, e)[Len(s) + 1] = e
  BY AppendProperties
<1>2. QED
  BY <1>1, LenProperties

(* And of what remains when the first has been taken.                      *)
LEMMA TailPositions ==
  ASSUME NEW S, NEW s \in Seq(S), s # <<>>
  PROVE  /\ Tail(s) \in Seq(S) /\ Head(s) \in S
         /\ Len(s) \in Nat \ {0} /\ DOMAIN s = 1 .. Len(s)
         /\ DOMAIN Tail(s) = 1 .. Len(s) - 1
         /\ Len(Tail(s)) = Len(s) - 1
         /\ \A i \in 1 .. Len(s) - 1 : Tail(s)[i] = s[i + 1]
         /\ Head(s) = s[1]
<1>1. /\ Tail(s) \in Seq(S) /\ Head(s) \in S
      /\ Len(Tail(s)) = Len(s) - 1
      /\ \A i \in 1 .. Len(Tail(s)) : Tail(s)[i] = s[i + 1]
  BY HeadTailProperties
<1>2. QED
  BY <1>1, LenProperties, EmptySeq

(* Two elements put at the end are put there one after the other.          *)
LEMMA JoinedIsAppended ==
  ASSUME NEW S, NEW s \in Seq(S), NEW e \in S, NEW f \in S
  PROVE  s \o <<e>> = Append(s, e) /\ s \o <<e, f>> = Append(Append(s, e), f)
<1>1. <<e>> \in Seq(S) /\ Len(<<e>>) = 1 /\ <<e>>[1] = e
  OBVIOUS
<1>2. <<e, f>> \in Seq(S) /\ Len(<<e, f>>) = 2 /\ <<e, f>>[1] = e /\ <<e, f>>[2] = f
  OBVIOUS
<1>3. s \o <<e>> = Append(s, e)
  <2>1. /\ s \o <<e>> \in Seq(S) /\ Len(s \o <<e>>) = Len(s) + 1
        /\ \A i \in 1 .. Len(s) + 1 :
             (s \o <<e>>)[i] = IF i <= Len(s) THEN s[i] ELSE <<e>>[i - Len(s)]
    BY <1>1, ConcatProperties
  <2>2. /\ Append(s, e) \in Seq(S) /\ Len(Append(s, e)) = Len(s) + 1
        /\ \A i \in 1 .. Len(s) : Append(s, e)[i] = s[i]
        /\ Append(s, e)[Len(s) + 1] = e
    BY AppendProperties
  <2>3. Len(s) \in Nat
    BY LenProperties
  <2>4. \A i \in 1 .. Len(s) + 1 : (s \o <<e>>)[i] = Append(s, e)[i]
    BY <1>1, <2>1, <2>2, <2>3
  <2>5. QED
    BY <2>1, <2>2, <2>4, SeqEqual
<1>4. s \o <<e, f>> = Append(Append(s, e), f)
  <2> DEFINE t == Append(s, e)
             n == Len(s)
             a == s \o <<e, f>>
             b == Append(t, f)
  <2>1. /\ t \in Seq(S) /\ Len(t) = n + 1
        /\ \A i \in 1 .. n : t[i] = s[i]
        /\ t[n + 1] = e
    BY AppendProperties
  <2>2. n \in Nat
    BY LenProperties
  <2>3. /\ a \in Seq(S) /\ Len(a) = n + 2
        /\ \A i \in 1 .. n + 2 : a[i] = IF i <= n THEN s[i] ELSE <<e, f>>[i - n]
    BY <1>2, ConcatProperties
  <2> HIDE DEF t, n, a
  <2>4. /\ b \in Seq(S) /\ Len(b) = n + 2
        /\ \A i \in 1 .. n + 1 : b[i] = t[i]
        /\ b[n + 2] = f
    <3>1. /\ b \in Seq(S) /\ Len(b) = Len(t) + 1
          /\ \A i \in 1 .. Len(t) : b[i] = t[i]
          /\ b[Len(t) + 1] = f
      BY <2>1, AppendProperties
    <3> HIDE DEF b
    <3>2. Len(t) = n + 1 /\ (n + 1) + 1 = n + 2
      BY <2>1, <2>2
    <3>3. QED
      BY <3>1, <3>2
  <2> HIDE DEF b
  <2>5. \A i \in 1 .. n : a[i] = b[i]
    <3>1. \A i \in 1 .. n : i \in 1 .. n + 1 /\ i \in 1 .. n + 2 /\ i <= n
      BY <2>2
    <3>2. QED
      BY <2>1, <2>3, <2>4, <3>1
  <2>6. a[n + 1] = b[n + 1]
    <3>1. n + 1 \in 1 .. n + 1 /\ n + 1 \in 1 .. n + 2 /\ ~(n + 1 <= n) /\ (n + 1) - n = 1
      BY <2>2
    <3>2. a[n + 1] = <<e, f>>[1]
      BY <2>3, <3>1
    <3>3. QED
      BY <1>2, <2>1, <2>4, <3>1, <3>2
  <2>7. a[n + 2] = b[n + 2]
    <3>1. n + 2 \in 1 .. n + 2 /\ ~(n + 2 <= n) /\ (n + 2) - n = 2
      BY <2>2
    <3>2. a[n + 2] = <<e, f>>[2]
      BY <2>3, <3>1
    <3>3. QED
      BY <1>2, <2>4, <3>2
  <2>8. \A i \in 1 .. n + 2 : i \in 1 .. n \/ i = n + 1 \/ i = n + 2
    BY <2>2
  <2>9. \A i \in 1 .. Len(a) : a[i] = b[i]
    BY <2>3, <2>5, <2>6, <2>7, <2>8
  <2>10. a = b
    BY <2>3, <2>4, <2>9, SeqEqual
  <2>11. QED
    BY <2>10 DEF a, b, t
<1>5. QED
  BY <1>3, <1>4

-----------------------------------------------------------------------------
(* Events.                                                                 *)

(* An event of one of the types, about a handle, is under way.             *)
About(q, types, h) == \E i \in DOMAIN q : q[i].type \in types /\ q[i].handle = h

(* There are not two of them.                                              *)
AtMostOne(q, types, h) ==
  \A i, j \in DOMAIN q :
    /\ q[i].type \in types /\ q[i].handle = h
    /\ q[j].type \in types /\ q[j].handle = h
    => i = j

LEMMA AboutAppended ==
  ASSUME NEW S, NEW q \in Seq(S), NEW e \in S, NEW types, NEW h
  PROVE  /\ About(Append(q, e), types, h) <=>
              About(q, types, h) \/ (e.type \in types /\ e.handle = h)
         /\ AtMostOne(q, types, h) /\ (e.type \in types /\ e.handle = h => ~About(q, types, h))
              => AtMostOne(Append(q, e), types, h)
<1> DEFINE r == Append(q, e)
           n == Len(q)
<1>1. /\ n \in Nat /\ DOMAIN q = 1 .. n /\ DOMAIN r = 1 .. n + 1
      /\ \A i \in 1 .. n : r[i] = q[i]
      /\ r[n + 1] = e
  BY AppendPositions
<1> HIDE DEF r, n
<1>2. About(r, types, h) <=> About(q, types, h) \/ (e.type \in types /\ e.handle = h)
  <2>1. About(q, types, h) => About(r, types, h)
    BY <1>1 DEF About
  <2>2. e.type \in types /\ e.handle = h => About(r, types, h)
    BY <1>1 DEF About
  <2>3. About(r, types, h) => About(q, types, h) \/ (e.type \in types /\ e.handle = h)
    BY <1>1 DEF About
  <2>4. QED
    BY <2>1, <2>2, <2>3
<1>3. ASSUME AtMostOne(q, types, h), e.type \in types /\ e.handle = h => ~About(q, types, h)
      PROVE  AtMostOne(r, types, h)
  <2>1. SUFFICES ASSUME NEW i \in 1 .. n + 1, NEW j \in 1 .. n + 1,
                        r[i].type \in types /\ r[i].handle = h,
                        r[j].type \in types /\ r[j].handle = h
                 PROVE  i = j
    BY <1>1 DEF AtMostOne
  <2>2. CASE i \in 1 .. n /\ j \in 1 .. n
    BY <1>1, <1>3, <2>1, <2>2 DEF AtMostOne
  <2>3. CASE i = n + 1 \/ j = n + 1
    BY <1>1, <1>3, <2>1, <2>3 DEF About
  <2>4. QED
    BY <1>1, <2>2, <2>3
<1>4. QED
  BY <1>2, <1>3 DEF r

LEMMA AboutTaken ==
  ASSUME NEW S, NEW q \in Seq(S), q # <<>>, NEW types, NEW h
  PROVE  /\ About(q, types, h) <=>
              (Head(q).type \in types /\ Head(q).handle = h) \/ About(Tail(q), types, h)
         /\ AtMostOne(q, types, h) =>
              /\ AtMostOne(Tail(q), types, h)
              /\ Head(q).type \in types /\ Head(q).handle = h => ~About(Tail(q), types, h)
<1> DEFINE r == Tail(q)
           n == Len(q)
<1>1. /\ n \in Nat \ {0} /\ DOMAIN q = 1 .. n /\ DOMAIN r = 1 .. n - 1
      /\ \A i \in 1 .. n - 1 : r[i] = q[i + 1]
      /\ Head(q) = q[1]
  BY TailPositions
<1> HIDE DEF r, n
<1>2. \A i \in 1 .. n - 1 : i + 1 \in 1 .. n /\ r[i] = q[i + 1] /\ i + 1 # 1
  BY <1>1
<1>3. \A i \in 1 .. n : i = 1 \/ (i - 1 \in 1 .. n - 1 /\ r[i - 1] = q[i])
  BY <1>1
<1>4. 1 \in 1 .. n
  BY <1>1
<1>5. About(r, types, h) => About(q, types, h)
  BY <1>1, <1>2 DEF About
<1>6. Head(q).type \in types /\ Head(q).handle = h => About(q, types, h)
  BY <1>1, <1>4 DEF About
<1>7. About(q, types, h) => (Head(q).type \in types /\ Head(q).handle = h) \/ About(r, types, h)
  BY <1>1, <1>3 DEF About
<1>8. AtMostOne(q, types, h) => AtMostOne(r, types, h)
  <2>1. SUFFICES ASSUME AtMostOne(q, types, h), NEW i \in 1 .. n - 1, NEW j \in 1 .. n - 1,
                        r[i].type \in types /\ r[i].handle = h,
                        r[j].type \in types /\ r[j].handle = h
                 PROVE  i = j
    BY <1>1 DEF AtMostOne
  <2>2. i + 1 = j + 1
    BY <1>1, <1>2, <2>1 DEF AtMostOne
  <2>3. QED
    BY <2>2
<1>9. ASSUME AtMostOne(q, types, h), Head(q).type \in types /\ Head(q).handle = h, About(r, types, h)
      PROVE  FALSE
  <2>1. PICK i \in 1 .. n - 1 : r[i].type \in types /\ r[i].handle = h
    BY <1>1, <1>9 DEF About
  <2>2. i + 1 = 1
    BY <1>1, <1>2, <1>4, <1>9, <2>1 DEF AtMostOne
  <2>3. QED
    BY <2>2
<1>10. QED
  BY <1>5, <1>6, <1>7, <1>8, <1>9 DEF r


-----------------------------------------------------------------------------
(* Numbers.                                                                *)

(* Max of FiniteSetsExt is defined on some numbers up to n.                *)
LEMMA GreatestNat ==
  ASSUME NEW n \in Nat, NEW T, T \subseteq 1 .. n, T # {}
  PROVE  Max(T) \in T /\ \A k \in T : k <= Max(T)
<1> DEFINE U == {i \in 0 .. n : n - i \in T}
<1>1. \A k \in T : n - k \in U
  <2>1. \A k \in T : k \in 1 .. n /\ n - k \in 0 .. n /\ n - (n - k) = k
    OBVIOUS
  <2>2. QED
    BY <2>1
<1>2. U \subseteq Nat /\ U # {} /\ \A i \in U : n - i \in T
  <2>1. U \subseteq Nat /\ \A i \in U : n - i \in T
    OBVIOUS
  <2> HIDE DEF U
  <2>2. QED
    BY <1>1, <2>1
<1> HIDE DEF U
<1>3. PICK i \in U : \A j \in U : i <= j
  BY <1>2, LeastNat
<1>4. n - i \in T /\ \A k \in T : k <= n - i
  BY <1>1, <1>2, <1>3
<1>5. \E m \in T : \A k \in T : m >= k
  BY <1>4
<1>6. Max(T) \in T /\ \A k \in T : Max(T) >= k
  BY <1>5, Zenon DEF Max
<1>7. QED
  BY <1>6

(* What holds at k, and after each step at which it held, holds at n.      *)
LEMMA Reaches ==
  ASSUME NEW n \in Nat, NEW k \in 0 .. n, NEW T,
         k \in T, \A i \in k .. n - 1 : i \in T => i + 1 \in T
  PROVE  n \in T
<1> DEFINE U == {i \in k .. n : i \notin T}
<1>1. SUFFICES ASSUME U # {} PROVE FALSE
  BY DEF U
<1>2. U \subseteq Nat
  OBVIOUS
<1>3. \A i : i \in U <=> i \in k .. n /\ i \notin T
  OBVIOUS
<1> HIDE DEF U
<1>4. PICK b \in U : \A j \in U : b <= j
  BY <1>1, <1>2, LeastNat
<1>5. b \in k .. n /\ b \notin T /\ b # k
  BY <1>3, <1>4
<1>6. b - 1 \in k .. n - 1 /\ (b - 1) + 1 = b /\ b - 1 \in k .. n /\ ~(b <= b - 1)
  BY <1>5
<1>7. b - 1 \in T
  BY <1>3, <1>4, <1>6
<1>8. QED
  BY <1>5, <1>6, <1>7

-----------------------------------------------------------------------------
(* The lists of aoa_db.c.                                                  *)

(* A lookup returns the position of an entry that matches, or 0 when there *)
(* is none.                                                                *)
LEMMA LookupByHandle ==
  ASSUME NEW S, NEW d \in Seq(S), NEW h
  PROVE  /\ GetTagByHandle(d, h) \in 0 .. Len(d)
         /\ GetTagByHandle(d, h) # 0 =>
              /\ GetTagByHandle(d, h) \in DOMAIN d
              /\ d[GetTagByHandle(d, h)].handle = h
         /\ GetTagByHandle(d, h) = 0 => \A i \in DOMAIN d : d[i].handle # h
<1> DEFINE I == {i \in 1 .. Len(d) : d[i].handle = h}
<1>1. GetTagByHandle(d, h) = IF I # {} THEN Min(I) ELSE 0
  BY DEF GetTagByHandle, SelectInSeq
<1>2. I \subseteq 1 .. Len(d) /\ I \subseteq Nat
  OBVIOUS
<1>3. I # {} => Min(I) \in I
  <2>1. I # {} => \E x \in I : \A y \in I : x <= y
    BY <1>2, LeastNat
  <2> HIDE DEF I
  <2>2. QED
    BY <2>1, Zenon DEF Min
<1>4. Len(d) \in Nat /\ DOMAIN d = 1 .. Len(d)
  BY LenProperties
<1>5. \A i : i \in I <=> i \in DOMAIN d /\ d[i].handle = h
  BY <1>4
<1> HIDE DEF I
<1>6. CASE I = {}
  <2>1. GetTagByHandle(d, h) = 0
    BY <1>1, <1>6
  <2>2. QED
    BY <1>4, <1>5, <1>6, <2>1
<1>7. CASE I # {}
  <2>1. GetTagByHandle(d, h) \in I
    BY <1>1, <1>3, <1>7, Zenon
  <2>2. GetTagByHandle(d, h) # 0
    BY <1>2, <1>4, <2>1
  <2>3. QED
    BY <1>2, <1>4, <1>5, <2>1, <2>2
<1>8. QED
  BY <1>6, <1>7

LEMMA LookupByAddress ==
  ASSUME NEW S, NEW d \in Seq(S), NEW t
  PROVE  /\ GetTagByAddress(d, t) # 0 =>
              /\ GetTagByAddress(d, t) \in DOMAIN d
              /\ d[GetTagByAddress(d, t)].address = t
         /\ GetTagByAddress(d, t) = 0 => \A i \in DOMAIN d : d[i].address # t
<1> DEFINE I == {i \in 1 .. Len(d) : d[i].address = t}
<1>1. GetTagByAddress(d, t) = IF I # {} THEN Min(I) ELSE 0
  BY DEF GetTagByAddress, SelectInSeq
<1>2. I \subseteq 1 .. Len(d) /\ I \subseteq Nat
  OBVIOUS
<1>3. I # {} => Min(I) \in I
  <2>1. I # {} => \E x \in I : \A y \in I : x <= y
    BY <1>2, LeastNat
  <2> HIDE DEF I
  <2>2. QED
    BY <2>1, Zenon DEF Min
<1>4. Len(d) \in Nat /\ DOMAIN d = 1 .. Len(d)
  BY LenProperties
<1>5. \A i : i \in I <=> i \in DOMAIN d /\ d[i].address = t
  BY <1>4
<1> HIDE DEF I
<1>6. CASE I = {}
  BY <1>1, <1>5, <1>6
<1>7. CASE I # {}
  <2>1. GetTagByAddress(d, t) \in I
    BY <1>1, <1>3, <1>7, Zenon
  <2>2. GetTagByAddress(d, t) # 0
    BY <1>2, <1>4, <2>1
  <2>3. QED
    BY <1>5, <2>1, <2>2
<1>8. QED
  BY <1>6, <1>7

(* aoa_db_add_tag puts the new entry in front of the others.               *)
LEMMA AddedTag ==
  ASSUME NEW H, NEW T, NEW d \in Seq(Entry(H, T)), NEW h \in H, NEW t \in T
  PROVE  /\ AddTag(d, h, t) \in Seq(Entry(H, T))
         /\ Len(AddTag(d, h, t)) = Len(d) + 1
         /\ AddTag(d, h, t)[1] = NewEntry(h, t)
         /\ \A i \in 1 .. Len(d) : AddTag(d, h, t)[i + 1] = d[i]
<1> DEFINE E == Entry(H, T)
           e == NewEntry(h, t)
<1>1. e \in E
  BY DEF NewEntry, Entry, ConnectionState
<1> HIDE DEF E, e
<1>2. <<e>> \in Seq(E) /\ Len(<<e>>) = 1 /\ <<e>>[1] = e
  BY <1>1
<1>3. d \in Seq(E) /\ Len(d) \in Nat
  BY LenProperties DEF E
<1>4. /\ <<e>> \o d \in Seq(E)
      /\ Len(<<e>> \o d) = 1 + Len(d)
      /\ \A i \in 1 .. 1 + Len(d) : (<<e>> \o d)[i] = IF i <= 1 THEN <<e>>[i] ELSE d[i - 1]
  BY <1>2, <1>3, ConcatProperties
<1> DEFINE r == <<e>> \o d
<1> HIDE DEF r
<1>5. 1 \in 1 .. 1 + Len(d)
  BY <1>3
<1>6. \A i \in 1 .. Len(d) : i + 1 \in 1 .. 1 + Len(d) /\ ~(i + 1 <= 1) /\ (i + 1) - 1 = i
  BY <1>3
<1>7. Len(r) = Len(d) + 1 /\ r[1] = e /\ \A i \in 1 .. Len(d) : r[i + 1] = d[i]
  BY <1>2, <1>3, <1>4, <1>5, <1>6 DEF r
<1>8. QED
  BY <1>4, <1>7 DEF AddTag, r, E, e

(* aoa_db_remove_tag closes the gap that an entry leaves.                  *)
LEMMA RemovedTag ==
  ASSUME NEW S, NEW d \in Seq(S), NEW h
  PROVE  /\ RemoveTag(d, h) \in Seq(S)
         /\ GetTagByHandle(d, h) = 0 => RemoveTag(d, h) = d
         /\ GetTagByHandle(d, h) # 0 =>
              /\ Len(RemoveTag(d, h)) = Len(d) - 1
              /\ \A i \in 1 .. Len(d) - 1 : RemoveTag(d, h)[i] =
                   IF i < GetTagByHandle(d, h) THEN d[i] ELSE d[i + 1]
<1> DEFINE k == GetTagByHandle(d, h)
           n == Len(d)
           r == RemoveTag(d, h)
<1>1. k \in 0 .. n /\ n \in Nat /\ \A i \in 1 .. n : d[i] \in S
  BY LookupByHandle, LenProperties, ElementOfSeq
<1>2. k = 0 => r = d
  BY DEF RemoveTag
<1>3. k # 0 => r = SubSeq(d, 1, k - 1) \o SubSeq(d, k + 1, n)
  BY DEF RemoveTag, RemoveAt
<1> HIDE DEF k, n, r
<1>4. CASE k # 0
  <2> DEFINE a == SubSeq(d, 1, k - 1)
             b == SubSeq(d, k + 1, n)
  <2>1. /\ a \in Seq(S) /\ Len(a) = k - 1
        /\ \A i \in 1 .. k - 1 : a[i] = d[i]
    <3>1. 1 \in Nat /\ k - 1 \in Nat /\ \A i \in 1 .. k - 1 : d[i] \in S
      BY <1>1, <1>4
    <3>2. /\ SubSeq(d, 1, k - 1) \in Seq(S)
          /\ Len(SubSeq(d, 1, k - 1)) = IF 1 <= k - 1 THEN (k - 1) - 1 + 1 ELSE 0
          /\ \A i \in 1 .. (k - 1) - 1 + 1 : SubSeq(d, 1, k - 1)[i] = d[1 + i - 1]
      BY <3>1, SubSeqProperties
    <3> HIDE DEF a
    <3>3. (k - 1) - 1 + 1 = k - 1 /\ (~(1 <= k - 1) => k - 1 = 0)
      BY <1>1, <1>4
    <3>4. \A i \in 1 .. k - 1 : 1 + i - 1 = i
      BY <1>1
    <3>5. QED
      BY <3>2, <3>3, <3>4 DEF a
  <2>2. /\ b \in Seq(S) /\ Len(b) = n - k
        /\ \A i \in 1 .. n - k : b[i] = d[k + i]
    <3>1. k + 1 \in Nat /\ n \in Nat /\ \A i \in k + 1 .. n : d[i] \in S
      BY <1>1, <1>4
    <3>2. /\ SubSeq(d, k + 1, n) \in Seq(S)
          /\ Len(SubSeq(d, k + 1, n)) = IF k + 1 <= n THEN n - (k + 1) + 1 ELSE 0
          /\ \A i \in 1 .. n - (k + 1) + 1 : SubSeq(d, k + 1, n)[i] = d[(k + 1) + i - 1]
      BY <3>1, SubSeqProperties
    <3> HIDE DEF b
    <3>3. n - (k + 1) + 1 = n - k /\ (~(k + 1 <= n) => n - k = 0)
      BY <1>1, <1>4
    <3>4. \A i \in 1 .. n - k : (k + 1) + i - 1 = k + i
      BY <1>1
    <3>5. QED
      BY <3>2, <3>3, <3>4 DEF b
  <2> HIDE DEF a, b
  <2>3. r = a \o b
    BY <1>3, <1>4 DEF a, b
  <2>4. /\ r \in Seq(S) /\ Len(r) = Len(a) + Len(b)
        /\ \A i \in 1 .. Len(a) + Len(b) : r[i] = IF i <= Len(a) THEN a[i] ELSE b[i - Len(a)]
    BY <2>1, <2>2, <2>3, ConcatProperties
  <2>5. Len(a) + Len(b) = n - 1
    BY <1>1, <2>1, <2>2
  <2>6. \A i \in 1 .. n - 1 : r[i] = IF i < k THEN d[i] ELSE d[i + 1]
    <3>1. SUFFICES ASSUME NEW i \in 1 .. n - 1 PROVE r[i] = IF i < k THEN d[i] ELSE d[i + 1]
      OBVIOUS
    <3>2. r[i] = IF i <= k - 1 THEN a[i] ELSE b[i - (k - 1)]
      BY <2>1, <2>4, <2>5
    <3>3. CASE i < k
      <4>1. i <= k - 1 /\ i \in 1 .. k - 1
        BY <1>1, <3>3
      <4>2. QED
        BY <2>1, <3>2, <3>3, <4>1
    <3>4. CASE ~(i < k)
      <4>1. ~(i <= k - 1) /\ i - (k - 1) \in 1 .. n - k /\ k + (i - (k - 1)) = i + 1
        BY <1>1, <3>4
      <4>2. QED
        BY <2>2, <3>2, <3>4, <4>1
    <3>5. QED
      BY <3>3, <3>4
  <2>7. QED
    BY <1>4, <2>4, <2>5, <2>6 DEF k, n, r
<1>5. CASE k = 0
  BY <1>2, <1>5 DEF k, r
<1>6. QED
  BY <1>4, <1>5

(* Two entries never share a handle.                                       *)
OneEach(d) == \A i, j \in DOMAIN d : d[i].handle = d[j].handle => i = j

(* A new entry keeps that if its handle is new.                            *)
LEMMA AddedEntries ==
  ASSUME NEW H, NEW T, NEW d \in Seq(Entry(H, T)), NEW h \in H, NEW t \in T
  PROVE  /\ AddTag(d, h, t) \in Seq(Entry(H, T))
         /\ \A e : In(e, AddTag(d, h, t)) <=> In(e, d) \/ e = NewEntry(h, t)
         /\ OneEach(d) /\ (\A i \in DOMAIN d : d[i].handle # h) => OneEach(AddTag(d, h, t))
<1> DEFINE r == AddTag(d, h, t)
           n == Len(d)
           f == NewEntry(h, t)
<1>1. /\ r \in Seq(Entry(H, T)) /\ Len(r) = n + 1 /\ r[1] = f
      /\ \A i \in 1 .. n : r[i + 1] = d[i]
  BY AddedTag
<1>2. n \in Nat /\ DOMAIN d = 1 .. n /\ f.handle = h
  BY LenProperties DEF NewEntry
<1> HIDE DEF r, n, f
<1>3. DOMAIN r = 1 .. n + 1
  BY <1>1, LenProperties
<1>4. /\ \A i \in 1 .. n : i + 1 \in 1 .. n + 1
      /\ \A i \in 1 .. n + 1 : i = 1 \/ (i - 1 \in 1 .. n /\ (i - 1) + 1 = i)
      /\ 1 \in 1 .. n + 1
  BY <1>2
<1>5. \A i \in 1 .. n + 1 : i = 1 \/ r[i] = d[i - 1]
  BY <1>1, <1>4
<1>6. \A e : In(e, r) <=> In(e, d) \/ e = f
  <2>1. \A e : In(e, d) \/ e = f => In(e, r)
    BY <1>1, <1>2, <1>3, <1>4 DEF In
  <2>2. \A e : In(e, r) => In(e, d) \/ e = f
    BY <1>1, <1>2, <1>3, <1>4, <1>5 DEF In
  <2>3. QED
    BY <2>1, <2>2
<1>7. ASSUME OneEach(d), \A i \in DOMAIN d : d[i].handle # h PROVE OneEach(r)
  <2>1. SUFFICES ASSUME NEW i \in 1 .. n + 1, NEW j \in 1 .. n + 1, r[i].handle = r[j].handle
                 PROVE  i = j
    BY <1>3 DEF OneEach
  <2>2. \A k \in 1 .. n + 1 : k # 1 => k - 1 \in DOMAIN d /\ r[k] = d[k - 1]
    BY <1>2, <1>4, <1>5
  <2> HIDE DEF OneEach
  <2>3. \A k \in 1 .. n + 1 : k # 1 => r[k].handle # h
    <3>1. SUFFICES ASSUME NEW k \in 1 .. n + 1, k # 1 PROVE r[k].handle # h
      OBVIOUS
    <3>2. k - 1 \in DOMAIN d /\ r[k] = d[k - 1]
      BY <2>2, <3>1
    <3>3. QED
      BY <1>7, <3>2
  <2>4. CASE i # 1 /\ j # 1
    <3>1. /\ i - 1 \in DOMAIN d /\ r[i] = d[i - 1]
          /\ j - 1 \in DOMAIN d /\ r[j] = d[j - 1]
      BY <2>2, <2>4
    <3>2. d[i - 1].handle = d[j - 1].handle
      BY <2>1, <3>1
    <3>3. i - 1 = j - 1
      BY <1>7, <3>1, <3>2 DEF OneEach
    <3>4. QED
      BY <3>3
  <2>5. CASE i = 1 \/ j = 1
    BY <1>1, <1>2, <2>1, <2>3, <2>5
  <2>6. QED
    BY <2>4, <2>5
<1>8. QED
  BY <1>1, <1>6, <1>7 DEF r, f

(* When handles are unique, removing a tag removes the entries with its    *)
(* handle, all of them and no other.                                       *)
LEMMA RemovedEntries ==
  ASSUME NEW S, NEW d \in Seq(S), NEW h, OneEach(d)
  PROVE  /\ RemoveTag(d, h) \in Seq(S)
         /\ OneEach(RemoveTag(d, h))
         /\ \A e : In(e, RemoveTag(d, h)) <=> In(e, d) /\ e.handle # h
<1> DEFINE r == RemoveTag(d, h)
           n == Len(d)
           k == GetTagByHandle(d, h)
<1>1. n \in Nat /\ DOMAIN d = 1 .. n
  BY LenProperties
<1>2. /\ k # 0 => k \in 1 .. n /\ d[k].handle = h
      /\ k = 0 => \A i \in 1 .. n : d[i].handle # h
  BY <1>1, LookupByHandle
<1>3. /\ r \in Seq(S) /\ (k = 0 => r = d)
      /\ k # 0 => Len(r) = n - 1 /\ \A i \in 1 .. n - 1 : r[i] = IF i < k THEN d[i] ELSE d[i + 1]
  BY RemovedTag
<1> HIDE DEF r, n, k
<1>4. CASE k = 0
  <2>1. r = d
    BY <1>3, <1>4
  <2>2. \A e : In(e, d) => e.handle # h
    BY <1>1, <1>2, <1>4 DEF In
  <2>3. QED
    BY <1>3, <2>1, <2>2 DEF r
<1>5. CASE k # 0
  <2>1. DOMAIN r = 1 .. n - 1
    BY <1>3, <1>5, LenProperties
  <2>2. \A i \in 1 .. n : d[i].handle = h => i = k
    BY <1>1, <1>2, <1>5 DEF OneEach
  <2>3. \A i \in 1 .. n - 1 :
          /\ i < k => i \in 1 .. n /\ i # k /\ r[i] = d[i]
          /\ ~(i < k) => i + 1 \in 1 .. n /\ i + 1 # k /\ r[i] = d[i + 1]
    BY <1>1, <1>2, <1>3, <1>5
  <2>4. \A i \in 1 .. n :
          /\ i < k => i \in 1 .. n - 1 /\ r[i] = d[i]
          /\ k < i => i - 1 \in 1 .. n - 1 /\ r[i - 1] = d[i]
    BY <1>1, <1>2, <1>3, <1>5
  <2>5. ASSUME NEW e, In(e, r) PROVE In(e, d) /\ e.handle # h
    BY <1>1, <2>1, <2>2, <2>3, <2>5 DEF In
  <2>6. ASSUME NEW e, In(e, d), e.handle # h PROVE In(e, r)
    <3>1. PICK i \in 1 .. n : d[i] = e
      BY <1>1, <2>6 DEF In
    <3>2. i < k \/ k < i
      BY <1>1, <1>2, <1>5, <2>6, <3>1
    <3>3. QED
      BY <2>1, <2>4, <3>1, <3>2 DEF In
  <2>7. ASSUME NEW i \in 1 .. n - 1, NEW j \in 1 .. n - 1, r[i].handle = r[j].handle
        PROVE  i = j
    <3>1. CASE i < k /\ j < k
      BY <1>1, <2>3, <2>7, <3>1 DEF OneEach
    <3>2. CASE i < k /\ ~(j < k)
      <4>1. i = j + 1
        BY <1>1, <2>3, <2>7, <3>2 DEF OneEach
      <4>2. QED
        BY <1>1, <1>2, <1>5, <3>2, <4>1
    <3>3. CASE ~(i < k) /\ j < k
      <4>1. j = i + 1
        BY <1>1, <2>3, <2>7, <3>3 DEF OneEach
      <4>2. QED
        BY <1>1, <1>2, <1>5, <3>3, <4>1
    <3>4. CASE ~(i < k) /\ ~(j < k)
      <4>1. i + 1 = j + 1
        BY <1>1, <2>3, <2>7, <3>4 DEF OneEach
      <4>2. QED
        BY <4>1
    <3>5. QED
      BY <3>1, <3>2, <3>3, <3>4
  <2>8. OneEach(r)
    BY <2>1, <2>7 DEF OneEach
  <2>9. QED
    BY <1>3, <2>5, <2>6, <2>8 DEF r
<1>6. QED
  BY <1>4, <1>5

-----------------------------------------------------------------------------
(* Views.  A view says which tag the handler takes each handle to be of;   *)
(* none if of no tag.  The database shows the handler's view, and the      *)
(* opened and closed events under way lead from that to the view of the    *)
(* co-processor.                                                           *)

After(v, e, none) ==
  IF e.type = "opened" THEN [v EXCEPT ![e.handle] = e.tag]
  ELSE IF e.type = "closed" THEN [v EXCEPT ![e.handle] = none]
  ELSE v

(* The events that are about a handle that is of a tag.                    *)
Tells(e) == e.type \notin {"opened", "closed", "boot", "scan_report"}

(* An event agrees with the view it arrives at: a handle is opened when it *)
(* is of no tag and its tag has no other, and what else is said of it is   *)
(* said of its tag.                                                        *)
Fits(v, e, none) ==
  /\ e.type = "opened" => v[e.handle] = none /\ \A h \in DOMAIN v : v[h] # e.tag
  /\ e.type = "closed" => v[e.handle] \in {none, e.tag}
  /\ Tells(e) => v[e.handle] = e.tag

(* The events of q lead from the view v to the view u, w holding the views *)
(* between them.                                                           *)
Leads(w, V, none, v, q, u) ==
  /\ w \in [0 .. Len(q) -> V]
  /\ w[0] = v
  /\ w[Len(q)] = u
  /\ \A i \in 1 .. Len(q) : Fits(w[i - 1], q[i], none) /\ w[i] = After(w[i - 1], q[i], none)

Follows(V, none, v, q, u) == \E w : Leads(w, V, none, v, q, u)

(* Events that change no view.                                             *)
LEMMA FollowsNothing ==
  ASSUME NEW V, NEW none, NEW v \in V, NEW S, NEW q \in Seq(S),
         \A i \in DOMAIN q : q[i].type \in {"boot", "scan_report"}
  PROVE  Follows(V, none, v, q, v)
<1> DEFINE n == Len(q)
           w == [i \in 0 .. n |-> v]
<1>1. n \in Nat /\ DOMAIN q = 1 .. n
  BY LenProperties
<1>2. \A i \in 1 .. n : Fits(v, q[i], none) /\ v = After(v, q[i], none)
  BY <1>1 DEF Fits, After, Tells
<1> HIDE DEF n
<1>3. w \in [0 .. n -> V] /\ w[0] = v /\ w[n] = v /\ \A i \in 1 .. n : w[i - 1] = v /\ w[i] = v
  BY <1>1
<1> HIDE DEF w
<1>4. Leads(w, V, none, v, q, v)
  BY <1>2, <1>3 DEF Leads, n
<1>5. QED
  BY <1>4 DEF Follows

(* An event is emitted that fits what the others lead to.                  *)
LEMMA FollowsEmitted ==
  ASSUME NEW V, NEW none, NEW v, NEW u, NEW S, NEW q \in Seq(S), NEW e \in S,
         Follows(V, none, v, q, u), Fits(u, e, none), After(u, e, none) \in V
  PROVE  Follows(V, none, v, Append(q, e), After(u, e, none))
<1> DEFINE n == Len(q)
           r == Append(q, e)
           x == After(u, e, none)
<1>1. PICK w : Leads(w, V, none, v, q, u)
  BY DEF Follows
<1>2. /\ n \in Nat /\ r \in Seq(S) /\ Len(r) = n + 1
      /\ \A i \in 1 .. n : r[i] = q[i]
      /\ r[n + 1] = e
  BY AppendProperties, LenProperties
<1>3. /\ w \in [0 .. n -> V] /\ w[0] = v /\ w[n] = u
      /\ \A i \in 1 .. n : Fits(w[i - 1], q[i], none) /\ w[i] = After(w[i - 1], q[i], none)
  BY <1>1 DEF Leads
<1>4. Fits(u, e, none) /\ x = After(u, e, none) /\ x \in V
  OBVIOUS
<1> HIDE DEF n, r, x
<1> DEFINE z == [i \in 0 .. n + 1 |-> IF i <= n THEN w[i] ELSE x]
<1>5. /\ z \in [0 .. n + 1 -> V] /\ z[n + 1] = x
      /\ \A i \in 0 .. n : z[i] = w[i]
  <2>1. /\ \A i \in 0 .. n + 1 : i <= n => i \in 0 .. n
        /\ \A i \in 0 .. n : i \in 0 .. n + 1 /\ i <= n
        /\ n + 1 \in 0 .. n + 1 /\ ~(n + 1 <= n)
    BY <1>2
  <2>2. QED
    BY <1>3, <1>4, <2>1
<1> HIDE DEF z
<1>6. 0 \in 0 .. n /\ n \in 0 .. n /\ \A i \in 1 .. n : i \in 0 .. n /\ i - 1 \in 0 .. n
  BY <1>2
<1>7. \A i \in 1 .. n : Fits(z[i - 1], r[i], none) /\ z[i] = After(z[i - 1], r[i], none)
  BY <1>2, <1>3, <1>5, <1>6
<1>8. Fits(z[n], r[n + 1], none) /\ z[n + 1] = After(z[n], r[n + 1], none)
  BY <1>2, <1>3, <1>4, <1>5, <1>6
<1>9. \A i \in 1 .. n + 1 : i \in 1 .. n \/ (i = n + 1 /\ i - 1 = n)
  BY <1>2
<1>10. \A i \in 1 .. n + 1 : Fits(z[i - 1], r[i], none) /\ z[i] = After(z[i - 1], r[i], none)
  BY <1>7, <1>8, <1>9
<1>11. Leads(z, V, none, v, r, x)
  BY <1>2, <1>3, <1>5, <1>6, <1>10 DEF Leads
<1>12. QED
  BY <1>11 DEF Follows, r, x

(* The first event fits the view, and what it leads to is led on.          *)
LEMMA FollowsTaken ==
  ASSUME NEW V, NEW none, NEW v, NEW u, NEW S, NEW q \in Seq(S), q # <<>>,
         Follows(V, none, v, q, u)
  PROVE  /\ Fits(v, Head(q), none)
         /\ After(v, Head(q), none) \in V
         /\ Follows(V, none, After(v, Head(q), none), Tail(q), u)
<1> DEFINE n == Len(q)
           r == Tail(q)
           x == After(v, Head(q), none)
<1>1. PICK w : Leads(w, V, none, v, q, u)
  BY DEF Follows
<1>2. /\ n \in Nat \ {0} /\ Len(r) = n - 1
      /\ \A i \in 1 .. n - 1 : r[i] = q[i + 1]
      /\ Head(q) = q[1]
  BY TailPositions
<1>3. /\ w \in [0 .. n -> V] /\ w[0] = v /\ w[n] = u
      /\ \A i \in 1 .. n : Fits(w[i - 1], q[i], none) /\ w[i] = After(w[i - 1], q[i], none)
  BY <1>1 DEF Leads
<1>4. 1 \in 1 .. n /\ 1 \in 0 .. n /\ 1 - 1 = 0
  BY <1>2
<1>5. Fits(v, Head(q), none) /\ w[1] = x /\ w[1] \in V
  <2>1. Fits(w[1 - 1], q[1], none) /\ w[1] = After(w[1 - 1], q[1], none) /\ w[1] \in V
    BY <1>3, <1>4
  <2>2. QED
    BY <1>2, <1>3, <1>4, <2>1
<1> HIDE DEF n, r, x
<1> DEFINE z == [i \in 0 .. n - 1 |-> w[i + 1]]
<1>6. /\ \A i \in 0 .. n - 1 : i + 1 \in 0 .. n
      /\ 0 \in 0 .. n - 1 /\ 0 + 1 = 1
      /\ n - 1 \in 0 .. n - 1 /\ (n - 1) + 1 = n
  BY <1>2
<1>7. z \in [0 .. n - 1 -> V] /\ \A i \in 0 .. n - 1 : z[i] = w[i + 1]
  BY <1>3, <1>6
<1> HIDE DEF z
<1>8. z[0] = x /\ z[n - 1] = u
  BY <1>3, <1>5, <1>6, <1>7
<1>9. \A i \in 1 .. n - 1 :
        i + 1 \in 1 .. n /\ i \in 0 .. n - 1 /\ i - 1 \in 0 .. n - 1 /\ (i - 1) + 1 = (i + 1) - 1
        /\ (i - 1) + 1 = i
  BY <1>2
<1>10. \A i \in 1 .. n - 1 : Fits(z[i - 1], r[i], none) /\ z[i] = After(z[i - 1], r[i], none)
  <2>1. SUFFICES ASSUME NEW i \in 1 .. n - 1
                 PROVE  Fits(z[i - 1], r[i], none) /\ z[i] = After(z[i - 1], r[i], none)
    OBVIOUS
  <2>2. z[i - 1] = w[i] /\ z[i] = w[i + 1] /\ r[i] = q[i + 1]
    BY <1>2, <1>7, <1>9
  <2>3. Fits(w[(i + 1) - 1], q[i + 1], none) /\ w[i + 1] = After(w[(i + 1) - 1], q[i + 1], none)
    BY <1>3, <1>9
  <2>4. (i + 1) - 1 = i
    BY <1>9
  <2>5. QED
    BY <2>2, <2>3, <2>4
<1>11. Leads(z, V, none, x, r, u)
  BY <1>2, <1>7, <1>8, <1>10 DEF Leads
<1>12. QED
  BY <1>5, <1>11 DEF Follows, r, x

(* The views of a set of handles and one of tags.                          *)
ViewsOf(H, T, none) == [H -> T \cup {none}]

(* What a handle is of changes with its opened and closed events only.     *)
LEMMA OneStep ==
  ASSUME NEW H, NEW T, NEW none, NEW v \in ViewsOf(H, T, none), NEW e, NEW h \in H,
         e.type \in {"opened", "closed"} => e.handle \in H
  PROVE  After(v, e, none)[h] =
           IF e.type = "opened" /\ e.handle = h THEN e.tag
           ELSE IF e.type = "closed" /\ e.handle = h THEN none
           ELSE v[h]
  BY DEF After, ViewsOf

(* The events about a handle: the last that opens or closes it says what   *)
(* it is of in the end, and without one nothing changes.                   *)
LEMMA LastChange ==
  ASSUME NEW H, NEW T, NEW none, NEW v, NEW u, NEW S, NEW q \in Seq(S), NEW h \in H,
         Follows(ViewsOf(H, T, none), none, v, q, u),
         \A i \in DOMAIN q : q[i].type \in {"opened", "closed"} => q[i].handle \in H,
         NEW m \in DOMAIN q, q[m].type \in {"opened", "closed"}, q[m].handle = h,
         \A i \in DOMAIN q : q[i].type \in {"opened", "closed"} /\ q[i].handle = h => i <= m
  PROVE  u[h] = IF q[m].type = "opened" THEN q[m].tag ELSE none
<1> DEFINE n == Len(q)
           c == IF q[m].type = "opened" THEN q[m].tag ELSE none
<1>1. PICK w : Leads(w, ViewsOf(H, T, none), none, v, q, u)
  BY DEF Follows
<1>2. n \in Nat /\ DOMAIN q = 1 .. n
  BY LenProperties
<1>3. /\ \A i \in 0 .. n : w[i] \in ViewsOf(H, T, none)
      /\ w[n] = u
      /\ \A i \in 1 .. n : w[i] = After(w[i - 1], q[i], none)
  BY <1>1 DEF Leads
<1> HIDE DEF n
<1> DEFINE U == {i \in 0 .. n : w[i][h] = c}
<1>4. \A i \in 1 .. n : w[i][h] = IF q[i].type = "opened" /\ q[i].handle = h THEN q[i].tag
                                  ELSE IF q[i].type = "closed" /\ q[i].handle = h THEN none
                                  ELSE w[i - 1][h]
  <2>1. SUFFICES ASSUME NEW i \in 1 .. n
                 PROVE  w[i][h] = IF q[i].type = "opened" /\ q[i].handle = h THEN q[i].tag
                                  ELSE IF q[i].type = "closed" /\ q[i].handle = h THEN none
                                  ELSE w[i - 1][h]
    OBVIOUS
  <2>2. i - 1 \in 0 .. n
    BY <1>2
  <2>3. w[i - 1] \in ViewsOf(H, T, none) /\ w[i] = After(w[i - 1], q[i], none)
    BY <1>3, <2>2
  <2>4. QED
    BY <1>2, <2>3, OneStep
<1>5. w[m][h] = c /\ m \in 0 .. n
  BY <1>2, <1>4
<1>6. \A i \in m .. n - 1 : w[i][h] = c => w[i + 1][h] = c
  <2>1. SUFFICES ASSUME NEW i \in m .. n - 1, w[i][h] = c PROVE w[i + 1][h] = c
    OBVIOUS
  <2>2. i + 1 \in 1 .. n /\ ~(i + 1 <= m) /\ (i + 1) - 1 = i
    BY <1>2
  <2>3. ~(q[i + 1].type \in {"opened", "closed"} /\ q[i + 1].handle = h)
    BY <1>2, <2>2
  <2> HIDE DEF c
  <2>4. QED
    BY <1>4, <2>1, <2>2, <2>3
<1> HIDE DEF c
<1>7. \A i : i \in U <=> i \in 0 .. n /\ w[i][h] = c
  OBVIOUS
<1> HIDE DEF U
<1>8. \A i \in m .. n - 1 : i \in U => i + 1 \in U
  <2>1. \A i \in m .. n - 1 : i + 1 \in 0 .. n
    BY <1>2
  <2>2. QED
    BY <1>6, <1>7, <2>1
<1>9. n \in U
  BY <1>2, <1>5, <1>7, <1>8, Reaches
<1>10. QED
  BY <1>3, <1>7, <1>9 DEF c

(* Without one that closes it, a handle that is of a tag stays so.         *)
LEMMA Unchanged ==
  ASSUME NEW H, NEW T, NEW none, NEW v, NEW u, NEW w, NEW S, NEW q \in Seq(S), NEW h \in H,
         Leads(w, ViewsOf(H, T, none), none, v, q, u),
         \A i \in DOMAIN q : q[i].type \in {"opened", "closed"} => q[i].handle \in H,
         \/ ~About(q, {"opened", "closed"}, h)
         \/ v[h] # none /\ ~About(q, {"closed"}, h)
  PROVE  \A i \in 0 .. Len(q) : w[i][h] = v[h]
<1> DEFINE n == Len(q)
<1>1. n \in Nat /\ DOMAIN q = 1 .. n
  BY LenProperties
<1>2. /\ \A i \in 0 .. n : w[i] \in ViewsOf(H, T, none)
      /\ w[0] = v
      /\ \A i \in 1 .. n : Fits(w[i - 1], q[i], none) /\ w[i] = After(w[i - 1], q[i], none)
  BY DEF Leads
<1> HIDE DEF n
<1> DEFINE U == {i \in 0 .. n : w[i][h] = v[h]}
<1>3. \A i \in 0 .. n - 1 : w[i][h] = v[h] => w[i + 1][h] = v[h]
  <2>1. SUFFICES ASSUME NEW i \in 0 .. n - 1, w[i][h] = v[h] PROVE w[i + 1][h] = v[h]
    OBVIOUS
  <2>2. i + 1 \in 1 .. n /\ (i + 1) - 1 = i /\ i \in 0 .. n
    BY <1>1
  <2>3. /\ w[i] \in ViewsOf(H, T, none) /\ w[i + 1] = After(w[i], q[i + 1], none)
        /\ Fits(w[i], q[i + 1], none)
    BY <1>2, <2>2
  <2>4. w[i + 1][h] = IF q[i + 1].type = "opened" /\ q[i + 1].handle = h THEN q[i + 1].tag
                      ELSE IF q[i + 1].type = "closed" /\ q[i + 1].handle = h THEN none
                      ELSE w[i][h]
    BY <1>1, <2>2, <2>3, OneStep
  <2>5. ~(q[i + 1].type = "closed" /\ q[i + 1].handle = h)
    BY <1>1, <2>2 DEF About
  <2>6. q[i + 1].type = "opened" /\ q[i + 1].handle = h => w[i][h] = none
    BY <2>3 DEF Fits
  <2>7. ~(q[i + 1].type = "opened" /\ q[i + 1].handle = h)
    BY <1>1, <2>1, <2>2, <2>6 DEF About
  <2>8. QED
    BY <2>1, <2>4, <2>5, <2>7
<1>4. \A i : i \in U <=> i \in 0 .. n /\ w[i][h] = v[h]
  OBVIOUS
<1> HIDE DEF U
<1>5. 0 \in U /\ 0 \in 0 .. n
  BY <1>1, <1>2, <1>4
<1>6. ASSUME NEW k \in 0 .. n PROVE k \in U
  <2>1. k \in Nat /\ 0 \in 0 .. k /\ \A i \in 0 .. k - 1 : i \in 0 .. n - 1 /\ i + 1 \in 0 .. n
    BY <1>1
  <2>2. \A i \in 0 .. k - 1 : i \in U => i + 1 \in U
    BY <1>3, <1>4, <2>1
  <2>3. QED
    BY <1>5, <2>1, <2>2, Reaches
<1>7. QED
  BY <1>4, <1>6 DEF n

LEMMA NoChange ==
  ASSUME NEW H, NEW T, NEW none, NEW v, NEW u, NEW S, NEW q \in Seq(S), NEW h \in H,
         Follows(ViewsOf(H, T, none), none, v, q, u),
         \A i \in DOMAIN q : q[i].type \in {"opened", "closed"} => q[i].handle \in H,
         \/ ~About(q, {"opened", "closed"}, h)
         \/ v[h] # none /\ ~About(q, {"closed"}, h)
  PROVE  u[h] = v[h]
<1>1. PICK w : Leads(w, ViewsOf(H, T, none), none, v, q, u)
  BY DEF Follows
<1>2. Len(q) \in 0 .. Len(q) /\ w[Len(q)] = u
  BY <1>1, LenProperties DEF Leads
<1>3. QED
  BY <1>1, <1>2, Unchanged

(* So no event opens it a second time.                                     *)
LEMMA NotOpenedAgain ==
  ASSUME NEW H, NEW T, NEW none, NEW v, NEW u, NEW S, NEW q \in Seq(S), NEW h \in H,
         Follows(ViewsOf(H, T, none), none, v, q, u),
         \A i \in DOMAIN q : q[i].type \in {"opened", "closed"} => q[i].handle \in H,
         v[h] # none, ~About(q, {"closed"}, h)
  PROVE  ~About(q, {"opened"}, h)
<1>1. PICK w : Leads(w, ViewsOf(H, T, none), none, v, q, u)
  BY DEF Follows
<1>2. SUFFICES ASSUME NEW i \in DOMAIN q, q[i].type = "opened", q[i].handle = h PROVE FALSE
  BY DEF About
<1>3. i \in 1 .. Len(q) /\ i - 1 \in 0 .. Len(q)
  BY LenProperties
<1>4. w[i - 1][h] = v[h]
  BY <1>1, <1>3, Unchanged
<1>5. Fits(w[i - 1], q[i], none)
  BY <1>1, <1>3 DEF Leads
<1>6. QED
  BY <1>2, <1>4, <1>5 DEF Fits

(* The database shows a view: the handles of its entries are those that    *)
(* are of a tag, one entry each, with the address of that tag.             *)
Shows(d, v, none) ==
  /\ OneEach(d)
  /\ \A i \in DOMAIN d : /\ d[i].handle \in DOMAIN v
                         /\ d[i].address # none
                         /\ v[d[i].handle] = d[i].address
  /\ \A h \in DOMAIN v : v[h] # none => \E i \in DOMAIN d : d[i].handle = h

(* No tag has two handles.                                                 *)
Distinct(v, none) == \A g, h \in DOMAIN v : g # h /\ v[g] # none => v[g] # v[h]

LEMMA ShowsByEntries ==
  ASSUME NEW d, NEW v, NEW none
  PROVE  Shows(d, v, none) <=>
           /\ OneEach(d)
           /\ \A e : In(e, d) => /\ e.handle \in DOMAIN v
                                 /\ e.address # none
                                 /\ v[e.handle] = e.address
           /\ \A h \in DOMAIN v : v[h] # none => \E e : In(e, d) /\ e.handle = h
  BY DEF Shows, In

LEMMA ShowsNothing ==
  ASSUME NEW H, NEW none
  PROVE  Shows(<<>>, [h \in H |-> none], none) /\ Distinct([h \in H |-> none], none)
  BY DEF Shows, OneEach, Distinct

(* A lookup by handle tells what the handle is of.                         *)
LEMMA ShowsLookup ==
  ASSUME NEW S, NEW d \in Seq(S), NEW v, NEW none, NEW h \in DOMAIN v, Shows(d, v, none)
  PROVE  LET i == GetTagByHandle(d, h)
         IN  /\ i # 0 => /\ i \in DOMAIN d /\ d[i].handle = h
                         /\ d[i].address = v[h] /\ v[h] # none
             /\ i = 0 => v[h] = none /\ \A j \in DOMAIN d : d[j].handle # h
<1> DEFINE i == GetTagByHandle(d, h)
<1>1. /\ i # 0 => i \in DOMAIN d /\ d[i].handle = h
      /\ i = 0 => \A j \in DOMAIN d : d[j].handle # h
  BY LookupByHandle
<1> HIDE DEF i
<1>2. /\ i # 0 => /\ i \in DOMAIN d /\ d[i].handle = h
                  /\ d[i].address = v[h] /\ v[h] # none
      /\ i = 0 => v[h] = none /\ \A j \in DOMAIN d : d[j].handle # h
  BY <1>1 DEF Shows
<1>3. QED
  BY <1>2 DEF i

(* Two entries never share an address either when no tag has two handles.  *)
LEMMA ShowsOneAddressEach ==
  ASSUME NEW d, NEW v, NEW none, Shows(d, v, none), Distinct(v, none),
         NEW i \in DOMAIN d, NEW j \in DOMAIN d, i # j
  PROVE  d[i].handle # d[j].handle /\ d[i].address # d[j].address
  BY DEF Shows, Distinct, OneEach

(* What is written in an entry but its handle and its address.             *)
LEMMA ShowsWritten ==
  ASSUME NEW d, NEW r, NEW v, NEW none, Shows(d, v, none), DOMAIN r = DOMAIN d,
         \A i \in DOMAIN d : r[i].handle = d[i].handle /\ r[i].address = d[i].address
  PROVE  Shows(r, v, none)
<1>1. OneEach(r)
  BY DEF Shows, OneEach
<1>2. \A i \in DOMAIN r : /\ r[i].handle \in DOMAIN v
                          /\ r[i].address # none
                          /\ v[r[i].handle] = r[i].address
  BY DEF Shows
<1>3. \A h \in DOMAIN v : v[h] # none => \E i \in DOMAIN r : r[i].handle = h
  BY DEF Shows
<1>4. QED
  BY <1>1, <1>2, <1>3 DEF Shows

(* An opened event that fits is handled with aoa_db_add_tag.               *)
LEMMA ShowsOpened ==
  ASSUME NEW H, NEW T, NEW none, none \notin T, NEW v \in ViewsOf(H, T, none),
         NEW d \in Seq(Entry(H, T)), NEW e, e.type = "opened", e.handle \in H, e.tag \in T,
         Shows(d, v, none), Distinct(v, none), Fits(v, e, none)
  PROVE  /\ After(v, e, none) \in ViewsOf(H, T, none)
         /\ Shows(AddTag(d, e.handle, e.tag), After(v, e, none), none)
         /\ Distinct(After(v, e, none), none)
<1> DEFINE h == e.handle
           t == e.tag
           u == After(v, e, none)
           r == AddTag(d, h, t)
           f == NewEntry(h, t)
<1>1. u = [v EXCEPT ![h] = t] /\ DOMAIN v = H /\ h \in H /\ t \in T /\ v \in [H -> T \cup {none}]
  BY DEF After, ViewsOf
<1>2. v[h] = none /\ \A g \in H : v[g] # t
  BY <1>1 DEF Fits
<1>3. f.handle = h /\ f.address = t
  BY DEF NewEntry
<1>4. \A i \in DOMAIN d : d[i].handle # h
  BY <1>2 DEF Shows
<1> HIDE DEF h, t
<1>5. /\ \A x : In(x, r) <=> In(x, d) \/ x = f
      /\ OneEach(r)
  <2>1. h \in H /\ t \in T /\ OneEach(d)
    BY <1>1 DEF Shows
  <2> HIDE DEF u
  <2>2. \A x : In(x, r) <=> In(x, d) \/ x = f
    BY <2>1, AddedEntries
  <2>3. OneEach(r)
    BY <1>4, <2>1, AddedEntries
  <2>4. QED
    BY <2>2, <2>3
<1> HIDE DEF u, r, f
<1>6. /\ DOMAIN u = H /\ u[h] = t /\ \A g \in H : g # h => u[g] = v[g]
      /\ u \in ViewsOf(H, T, none)
  BY <1>1 DEF ViewsOf
<1>7. \A x : In(x, d) => /\ x.handle \in H /\ x.handle # h
                         /\ x.address # none
                         /\ v[x.handle] = x.address
  BY <1>1, <1>4 DEF Shows, In
<1>8. \A x : In(x, r) => /\ x.handle \in DOMAIN u
                         /\ x.address # none
                         /\ u[x.handle] = x.address
  BY <1>1, <1>3, <1>5, <1>6, <1>7
<1>9. \A g \in DOMAIN u : u[g] # none => \E x : In(x, r) /\ x.handle = g
  <2>1. SUFFICES ASSUME NEW g \in H, u[g] # none PROVE \E x : In(x, r) /\ x.handle = g
    BY <1>6
  <2>2. CASE g = h
    BY <1>3, <1>5, <2>2
  <2>3. CASE g # h
    <3>1. v[g] # none
      BY <1>6, <2>1, <2>3
    <3>2. \E x : In(x, d) /\ x.handle = g
      BY <1>1, <3>1, ShowsByEntries
    <3>3. QED
      BY <1>5, <3>2
  <2>4. QED
    BY <2>2, <2>3
<1>10. Shows(r, u, none)
  BY <1>5, <1>8, <1>9, ShowsByEntries
<1>11. Distinct(u, none)
  BY <1>1, <1>2, <1>6 DEF Distinct
<1>12. QED
  BY <1>6, <1>10, <1>11 DEF u, r, h, t

(* A closed event is handled with aoa_db_remove_tag.                       *)
LEMMA ShowsClosed ==
  ASSUME NEW H, NEW T, NEW none, NEW v \in ViewsOf(H, T, none),
         NEW S, NEW d \in Seq(S), NEW e, e.type = "closed", e.handle \in H,
         Shows(d, v, none), Distinct(v, none)
  PROVE  /\ After(v, e, none) \in ViewsOf(H, T, none)
         /\ Shows(RemoveTag(d, e.handle), After(v, e, none), none)
         /\ Distinct(After(v, e, none), none)
<1> DEFINE h == e.handle
           u == After(v, e, none)
           r == RemoveTag(d, h)
<1>1. u = [v EXCEPT ![h] = none] /\ DOMAIN v = H /\ h \in H /\ v \in [H -> T \cup {none}]
  BY DEF After, ViewsOf
<1> HIDE DEF h
<1>2. OneEach(r) /\ \A x : In(x, r) <=> In(x, d) /\ x.handle # h
  BY RemovedEntries DEF Shows
<1> HIDE DEF u, r
<1>3. /\ DOMAIN u = H /\ u[h] = none /\ \A g \in H : g # h => u[g] = v[g]
      /\ u \in ViewsOf(H, T, none)
  BY <1>1 DEF ViewsOf
<1>4. \A x : In(x, d) => /\ x.handle \in H
                         /\ x.address # none
                         /\ v[x.handle] = x.address
  BY <1>1 DEF Shows, In
<1>5. \A x : In(x, r) => /\ x.handle \in DOMAIN u
                         /\ x.address # none
                         /\ u[x.handle] = x.address
  BY <1>2, <1>3, <1>4
<1>6. \A g \in DOMAIN u : u[g] # none => \E x : In(x, r) /\ x.handle = g
  <2>1. SUFFICES ASSUME NEW g \in H, u[g] # none PROVE \E x : In(x, r) /\ x.handle = g
    BY <1>3
  <2>2. g # h /\ v[g] # none
    BY <1>3, <2>1
  <2>3. \E x : In(x, d) /\ x.handle = g
    BY <1>1, <2>2, ShowsByEntries
  <2>4. QED
    BY <1>2, <2>2, <2>3
<1>7. Shows(r, u, none)
  BY <1>2, <1>5, <1>6, ShowsByEntries
<1>8. Distinct(u, none)
  BY <1>1, <1>3 DEF Distinct
<1>9. QED
  BY <1>3, <1>7, <1>8 DEF u, r, h

(* The handler's database, the events under way and the connections of the *)
(* co-processor agree: this is what the proofs about both handlers rest    *)
(* on.                                                                     *)
Agree(H, T, none, d, q, u) ==
  \E v \in ViewsOf(H, T, none) :
    /\ Shows(d, v, none)
    /\ Distinct(v, none)
    /\ Follows(ViewsOf(H, T, none), none, v, q, u)

(* The tag the database will hold under a handle once every event that is  *)
(* under way is handled, as the modules of both handlers define it.        *)
SettledIn(d, q, h, none) ==
  LET changes == {i \in DOMAIN q : q[i].type = "opened" /\ q[i].handle = h}
                   \cup {i \in DOMAIN q : q[i].type = "closed" /\ q[i].handle = h}
      entry == GetTagByHandle(d, h)
  IN  IF changes # {}
      THEN LET last == q[Max(changes)]
           IN  IF last.type = "opened" THEN last.tag ELSE none
      ELSE IF entry # 0 THEN d[entry].address ELSE none

LEMMA AgreeSettles ==
  ASSUME NEW H, NEW T, NEW none, NEW u, NEW Q, NEW q \in Seq(Q), NEW S, NEW d \in Seq(S),
         NEW h \in H, Agree(H, T, none, d, q, u),
         \A i \in DOMAIN q : q[i].type \in {"opened", "closed"} => q[i].handle \in H
  PROVE  SettledIn(d, q, h, none) = u[h]
<1> DEFINE C == {i \in DOMAIN q : q[i].type = "opened" /\ q[i].handle = h}
                  \cup {i \in DOMAIN q : q[i].type = "closed" /\ q[i].handle = h}
           k == GetTagByHandle(d, h)
<1>1. PICK v \in ViewsOf(H, T, none) :
        Shows(d, v, none) /\ Follows(ViewsOf(H, T, none), none, v, q, u)
  BY DEF Agree
<1>2. Len(q) \in Nat /\ DOMAIN q = 1 .. Len(q)
  BY LenProperties
<1>3. \A i : i \in C <=> i \in DOMAIN q /\ q[i].type \in {"opened", "closed"} /\ q[i].handle = h
  OBVIOUS
<1>4. SettledIn(d, q, h, none) =
        IF C # {} THEN IF q[Max(C)].type = "opened" THEN q[Max(C)].tag ELSE none
        ELSE IF k # 0 THEN d[k].address ELSE none
  BY DEF SettledIn
<1> HIDE DEF C
<1>5. CASE C # {}
  <2> DEFINE m == Max(C)
  <2>1. m \in C /\ \A i \in C : i <= m
    BY <1>2, <1>3, <1>5, GreatestNat
  <2> HIDE DEF m
  <2>2. u[h] = IF q[m].type = "opened" THEN q[m].tag ELSE none
    BY <1>1, <1>3, <2>1, LastChange
  <2>3. QED
    BY <1>4, <1>5, <2>2 DEF m
<1>6. CASE C = {}
  <2>1. ~About(q, {"opened", "closed"}, h)
    BY <1>3, <1>6 DEF About
  <2>2. u[h] = v[h]
    BY <1>1, <2>1, NoChange
  <2>3. h \in DOMAIN v
    BY DEF ViewsOf
  <2>4. (k # 0 => d[k].address = v[h]) /\ (k = 0 => v[h] = none)
    BY <1>1, <2>3, ShowsLookup
  <2> HIDE DEF k
  <2>5. QED
    BY <1>4, <1>6, <2>2, <2>4
<1>7. QED
  BY <1>5, <1>6

(* Emitting an event, and handling one, keeps the agreement.               *)
LEMMA AgreeEmitted ==
  ASSUME NEW H, NEW T, NEW none, NEW u, NEW Q, NEW q \in Seq(Q), NEW d, NEW e \in Q,
         Agree(H, T, none, d, q, u), Fits(u, e, none), After(u, e, none) \in ViewsOf(H, T, none)
  PROVE  Agree(H, T, none, d, Append(q, e), After(u, e, none))
<1>1. PICK v \in ViewsOf(H, T, none) :
        Shows(d, v, none) /\ Distinct(v, none) /\ Follows(ViewsOf(H, T, none), none, v, q, u)
  BY DEF Agree
<1>2. Follows(ViewsOf(H, T, none), none, v, Append(q, e), After(u, e, none))
  BY <1>1, FollowsEmitted
<1>3. QED
  BY <1>1, <1>2 DEF Agree

LEMMA AgreeTaken ==
  ASSUME NEW H, NEW T, NEW none, NEW u, NEW Q, NEW q \in Seq(Q), NEW d, q # <<>>,
         Agree(H, T, none, d, q, u)
  PROVE  \E v \in ViewsOf(H, T, none) :
           /\ Shows(d, v, none) /\ Distinct(v, none)
           /\ Fits(v, Head(q), none)
           /\ After(v, Head(q), none) \in ViewsOf(H, T, none)
           /\ Follows(ViewsOf(H, T, none), none, After(v, Head(q), none), Tail(q), u)
<1>1. PICK v \in ViewsOf(H, T, none) :
        Shows(d, v, none) /\ Distinct(v, none) /\ Follows(ViewsOf(H, T, none), none, v, q, u)
  BY DEF Agree
<1>2. QED
  BY <1>1, FollowsTaken

=============================================================================
