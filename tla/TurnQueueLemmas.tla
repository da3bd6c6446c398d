------------------------- MODULE TurnQueueLemmas -------------------------
(***************************************************************************)
(* Facts about queues: how taking the head, appending and concatenating    *)
(* change the set of queued threads, the head, and the order.              *)
(***************************************************************************)
EXTENDS TurnQueues, TLAPS

\* Membership in the range of a sequence is having an index.
LEMMA RangeIndex ==
  ASSUME NEW S, NEW s \in Seq(S)
  PROVE  /\ \A x : x \in Range(s) <=> \E i \in 1..Len(s) : s[i] = x
         /\ \A x \in Range(s) : x \in S
         /\ Range(s) = {} <=> s = <<>>
  <1>1. Len(s) \in Nat /\ DOMAIN s = 1..Len(s) /\ s \in [1..Len(s) -> S]
    OBVIOUS
  <1>2. \A x : x \in Range(s) <=> \E i \in 1..Len(s) : s[i] = x
    BY <1>1 DEF Range
  <1>3. s # <<>> => 1 \in 1..Len(s)
    BY <1>1
  <1>4. s = <<>> => Len(s) = 0
    OBVIOUS
  <1> QED BY <1>1, <1>2, <1>3, <1>4

\* Removing the head of a queue removes exactly that thread.
LEMMA TailQueue ==
  ASSUME NEW S, NEW s \in Seq(S), s # <<>>, IsInjective(s)
  PROVE  /\ Tail(s) \in Seq(S)
         /\ IsInjective(Tail(s))
         /\ Range(Tail(s)) = Range(s) \ {Head(s)}
         /\ Head(s) \in Range(s)
         /\ Head(s) \in S
  <1>1. /\ Tail(s) \in Seq(S)
        /\ Len(Tail(s)) = Len(s) - 1
        /\ \A i \in 1..Len(Tail(s)) : Tail(s)[i] = s[i+1]
        /\ Head(s) \in S
    OBVIOUS
  <1>2. Len(s) \in Nat \ {0} /\ DOMAIN s = 1..Len(s) /\ DOMAIN Tail(s) = 1..Len(Tail(s))
    BY <1>1
  <1>3. Head(s) = s[1]
    OBVIOUS
  <1>4. IsInjective(Tail(s))
    BY <1>1, <1>2 DEF IsInjective
  <1>5. ASSUME NEW x \in Range(Tail(s)) PROVE x \in Range(s) /\ x # Head(s)
    <2>1. PICK i \in 1..Len(Tail(s)) : Tail(s)[i] = x
      BY <1>1, RangeIndex
    <2>2. i+1 \in 1..Len(s) /\ s[i+1] = x /\ i+1 # 1 /\ 1 \in 1..Len(s)
      BY <1>1, <1>2, <2>1
    <2> QED BY <2>2, <1>2, <1>3, RangeIndex DEF IsInjective
  <1>6. ASSUME NEW x \in Range(s), x # Head(s) PROVE x \in Range(Tail(s))
    <2>1. PICK i \in 1..Len(s) : s[i] = x
      BY RangeIndex
    <2>2. i-1 \in 1..Len(Tail(s)) /\ Tail(s)[i-1] = x
      BY <1>1, <1>2, <1>3, <1>6, <2>1
    <2>3. \A y : y \in Range(Tail(s)) <=> \E j \in 1..Len(Tail(s)) : Tail(s)[j] = y
      BY <1>1, RangeIndex
    <2> QED BY <2>2, <2>3
  <1>7. Head(s) \in Range(s)
    BY <1>2, <1>3, RangeIndex
  <1> QED BY <1>1, <1>4, <1>5, <1>6, <1>7

\* Appending a thread that is not queued.
LEMMA AppendQueue ==
  ASSUME NEW S, NEW s \in Seq(S), NEW x \in S
  PROVE  /\ Append(s, x) \in Seq(S)
         /\ Append(s, x) # <<>>
         /\ Range(Append(s, x)) = Range(s) \cup {x}
         /\ s # <<>> => Head(Append(s, x)) = Head(s)
         /\ IsInjective(s) /\ x \notin Range(s) => IsInjective(Append(s, x))
  <1>1. /\ Append(s, x) \in Seq(S) /\ Append(s, x) # <<>>
        /\ Len(Append(s, x)) = Len(s) + 1
        /\ \A i \in 1..Len(s) : Append(s, x)[i] = s[i]
        /\ Append(s, x)[Len(s) + 1] = x
    OBVIOUS
  <1>2. /\ Len(s) \in Nat /\ DOMAIN s = 1..Len(s)
        /\ DOMAIN Append(s, x) = 1..(Len(s) + 1)
    BY <1>1
  <1>3. \A y : y \in Range(s) <=> \E i \in 1..Len(s) : s[i] = y
    BY RangeIndex
  <1>4. \A y : y \in Range(Append(s, x)) <=> \E i \in 1..(Len(s)+1) : Append(s, x)[i] = y
    BY <1>1, RangeIndex
  <1>5. \A i \in 1..(Len(s)+1) : i \in 1..Len(s) \/ i = Len(s) + 1
    BY <1>2
  <1>6. Range(Append(s, x)) = Range(s) \cup {x}
    <2>1. \A y \in Range(Append(s, x)) : y \in Range(s) \cup {x}
      BY <1>1, <1>3, <1>4, <1>5
    <2>2. \A y \in Range(s) : y \in Range(Append(s, x))
      BY <1>1, <1>2, <1>3, <1>4
    <2>3. x \in Range(Append(s, x))
      BY <1>1, <1>2, <1>4
    <2> QED BY <2>1, <2>2, <2>3
  <1>7. s # <<>> => Head(Append(s, x)) = Head(s)
    OBVIOUS
  <1>8. ASSUME IsInjective(s), x \notin Range(s) PROVE IsInjective(Append(s, x))
    BY <1>1, <1>2, <1>3, <1>5, <1>8 DEF IsInjective
  <1> QED BY <1>1, <1>6, <1>7, <1>8

\* The head of a queue goes to its back.
LEMMA RotateQueue ==
  ASSUME NEW S, NEW s \in Seq(S), s # <<>>, IsInjective(s)
  PROVE  /\ Append(Tail(s), Head(s)) \in Seq(S)
         /\ IsInjective(Append(Tail(s), Head(s)))
         /\ Range(Append(Tail(s), Head(s))) = Range(s)
  <1>1. PICK x : x = Head(s)
    OBVIOUS
  <1>2. PICK r : r = Tail(s)
    OBVIOUS
  <1>3. /\ r \in Seq(S) /\ IsInjective(r) /\ x \in S /\ x \in Range(s)
        /\ Range(r) = Range(s) \ {x}
    BY <1>1, <1>2, TailQueue
  <1>4. x \notin Range(r)
    BY <1>3
  <1>5. /\ Append(r, x) \in Seq(S) /\ Range(Append(r, x)) = Range(r) \cup {x}
        /\ IsInjective(Append(r, x))
    BY <1>3, <1>4, AppendQueue
  <1> QED BY <1>1, <1>2, <1>3, <1>5

\* Appending a queue to another.
LEMMA ConcatQueue ==
  ASSUME NEW S, NEW s \in Seq(S), NEW r \in Seq(S)
  PROVE  /\ s \o r \in Seq(S)
         /\ Range(s \o r) = Range(s) \cup Range(r)
         /\ s # <<>> => s \o r # <<>> /\ Head(s \o r) = Head(s)
         /\ IsInjective(s) /\ IsInjective(r) /\ Range(s) \cap Range(r) = {}
              => IsInjective(s \o r)
  <1>1. /\ s \o r \in Seq(S)
        /\ Len(s \o r) = Len(s) + Len(r)
        /\ \A i \in 1 .. Len(s) + Len(r) : (s \o r)[i] =
                     IF i <= Len(s) THEN s[i] ELSE r[i - Len(s)]
    OBVIOUS
  <1>2. /\ Len(s) \in Nat /\ Len(r) \in Nat /\ DOMAIN s = 1..Len(s) /\ DOMAIN r = 1..Len(r)
        /\ DOMAIN (s \o r) = 1..(Len(s) + Len(r))
    BY <1>1
  <1>3. Range(s \o r) = Range(s) \cup Range(r)
    <2>1. \A y : y \in Range(s \o r) <=> \E i \in 1..(Len(s) + Len(r)) : (s \o r)[i] = y
      BY <1>1, RangeIndex
    <2>2. ASSUME NEW y \in Range(s \o r) PROVE y \in Range(s) \cup Range(r)
      <3>1. PICK i \in 1..(Len(s) + Len(r)) : (s \o r)[i] = y
        BY <2>1
      <3>2. CASE i <= Len(s)
        BY <1>1, <1>2, <3>1, <3>2, RangeIndex
      <3>3. CASE i > Len(s)
        <4>1. i - Len(s) \in 1..Len(r) /\ r[i - Len(s)] = y
          BY <1>1, <1>2, <3>1, <3>3
        <4> QED BY <4>1, RangeIndex
      <3> QED BY <1>2, <3>2, <3>3
    <2>3. ASSUME NEW y \in Range(s) PROVE y \in Range(s \o r)
      <3>1. PICK i \in 1..Len(s) : s[i] = y
        BY RangeIndex
      <3>2. i \in 1..(Len(s) + Len(r)) /\ (s \o r)[i] = y
        BY <1>1, <1>2, <3>1
      <3> QED BY <2>1, <3>2
    <2>4. ASSUME NEW y \in Range(r) PROVE y \in Range(s \o r)
      <3>1. PICK i \in 1..Len(r) : r[i] = y
        BY RangeIndex
      <3>2. i + Len(s) \in 1..(Len(s) + Len(r)) /\ (s \o r)[i + Len(s)] = y
        BY <1>1, <1>2, <3>1
      <3> QED BY <2>1, <3>2
    <2> QED BY <2>2, <2>3, <2>4
  <1>4. ASSUME s # <<>> PROVE s \o r # <<>> /\ Head(s \o r) = Head(s)
    <2>1. Len(s) \in Nat \ {0}
      BY <1>4
    <2>2. Len(s \o r) # 0
      BY <1>1, <1>2, <2>1
    <2>3. s \o r # <<>>
      BY <2>2
    <2>4. (s \o r)[1] = s[1]
      BY <1>1, <1>2, <2>1
    <2> QED BY <1>1, <1>4, <2>3, <2>4
  <1>5. ASSUME IsInjective(s), IsInjective(r), Range(s) \cap Range(r) = {},
               NEW a \in 1..(Len(s) + Len(r)), NEW b \in 1..(Len(s) + Len(r)),
               (s \o r)[a] = (s \o r)[b]
        PROVE  a = b
    <2>1. \A i \in 1..Len(s) : s[i] \in Range(s)
      BY RangeIndex
    <2>2. \A i \in 1..Len(r) : r[i] \in Range(r)
      BY RangeIndex
    <2>3. CASE a <= Len(s) /\ b <= Len(s)
      BY <1>1, <1>2, <1>5, <2>3 DEF IsInjective
    <2>4. CASE a > Len(s) /\ b > Len(s)
      <3>1. a - Len(s) \in 1..Len(r) /\ b - Len(s) \in 1..Len(r)
        BY <1>2, <2>4
      <3>2. r[a - Len(s)] = r[b - Len(s)]
        BY <1>1, <1>2, <1>5, <2>4
      <3>3. a - Len(s) = b - Len(s)
        BY <1>2, <1>5, <3>1, <3>2 DEF IsInjective
      <3> QED BY <3>3, <1>2
    <2>5. CASE a <= Len(s) /\ b > Len(s)
      <3>1. a \in 1..Len(s) /\ b - Len(s) \in 1..Len(r) /\ s[a] = r[b - Len(s)]
        BY <1>1, <1>2, <1>5, <2>5
      <3> QED BY <3>1, <2>1, <2>2, <1>5
    <2>6. CASE a > Len(s) /\ b <= Len(s)
      <3>1. b \in 1..Len(s) /\ a - Len(s) \in 1..Len(r) /\ s[b] = r[a - Len(s)]
        BY <1>1, <1>2, <1>5, <2>6
      <3> QED BY <3>1, <2>1, <2>2, <1>5
    <2> QED BY <1>2, <2>3, <2>4, <2>5, <2>6
  <1> QED BY <1>1, <1>2, <1>3, <1>4, <1>5 DEF IsInjective

\* A listing of a set is a queue of exactly its elements.
LEMMA ListingQueue ==
  ASSUME NEW T, NEW S \in SUBSET T, NEW q \in Listings(S)
  PROVE  q \in Seq(T) /\ IsInjective(q) /\ Range(q) = S
  <1>1. PICK n \in 0..Cardinality(S) : q \in Bijection(1..n, S)
    BY DEF Listings
  <1>2. /\ q \in [1..n -> S] /\ IsInjective(q)
        /\ \A x \in S : \E i \in 1..n : q[i] = x
    BY <1>1 DEF Bijection, Injection, Surjection
  <1>3. q \in Seq(T)
    BY <1>1, <1>2
  <1>4. Range(q) = S
    BY <1>2 DEF Range
  <1> QED BY <1>2, <1>3, <1>4
=============================================================================
