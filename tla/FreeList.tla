------------------------------ MODULE FreeList ------------------------------
(***************************************************************************)
(* The free list of a slab: a Vec of slot indices used as a stack.  The    *)
(* connection table and the standalone task slab keep one each.            *)
(***************************************************************************)
EXTENDS Integers, Sequences, TLAPS, SequenceTheorems

Top(list) == list[Len(list)]

Pop(list) == SubSeq(list, 1, Len(list) - 1)

(* The list holds each member of F once, and nothing else. *)
Exact(list, F) ==
  /\ \A i, j \in 1..Len(list) : list[i] = list[j] => i = j
  /\ F = {list[i] : i \in 1..Len(list)}

(* A pop leaves the rest of the list in place. *)
LEMMA PopType ==
  ASSUME NEW S, NEW list \in Seq(S), list # <<>>
  PROVE  /\ Top(list) \in S
         /\ Pop(list) \in Seq(S) /\ Len(Pop(list)) = Len(list) - 1
         /\ \A i \in 1..(Len(list) - 1) : Pop(list)[i] = list[i]
<1>. DEFINE n == Len(list)
            m == n - 1
            sub == SubSeq(list, 1, m)
<1>1. n \in Nat /\ n > 0 /\ \A i \in 1..n : list[i] \in S
  BY EmptySeq
<1>2. m \in Nat /\ \A i \in 1..m : list[i] \in S
  BY <1>1
<1>. HIDE DEF m
<1>3. sub \in Seq(S) /\ Len(sub) = IF 1 <= m THEN m - 1 + 1 ELSE 0
  BY <1>2, SubSeqProperties
<1>4. \A i \in 1..(m - 1 + 1) : sub[i] = list[1 + i - 1]
  BY <1>2, SubSeqProperties
<1>. HIDE DEF sub
<1>5. Len(sub) = m /\ \A i \in 1..m : sub[i] = list[i]
  BY <1>2, <1>3, <1>4
<1>6. Top(list) \in S
  BY <1>1 DEF Top
<1>. QED BY <1>3, <1>5, <1>6 DEF Pop, sub, m

(* Taking the top of the list takes one slot out of the free ones. *)
LEMMA PopExact ==
  ASSUME NEW S, NEW list \in Seq(S), list # <<>>, NEW F, Exact(list, F)
  PROVE  /\ Top(list) \in F /\ Top(list) \in S
         /\ Pop(list) \in Seq(S)
         /\ Exact(Pop(list), F \ {Top(list)})
<1>. DEFINE n == Len(list)
<1>1. n \in Nat /\ n > 0 /\ \A i \in 1..n : list[i] \in S
  BY EmptySeq
<1>2. /\ Pop(list) \in Seq(S) /\ Len(Pop(list)) = n - 1
      /\ \A i \in 1..(n - 1) : Pop(list)[i] = list[i]
  BY PopType
<1>3. n \in 1..n /\ Top(list) = list[n]
  BY <1>1 DEF Top
<1>4. \A i, j \in 1..n : list[i] = list[j] => i = j
  BY DEF Exact
<1>5. \A i, j \in 1..Len(Pop(list)) : Pop(list)[i] = Pop(list)[j] => i = j
  BY <1>1, <1>2, <1>4
<1>6. ASSUME NEW x
      PROVE  x \in F \ {Top(list)} <=> \E i \in 1..Len(Pop(list)) : Pop(list)[i] = x
  <2>1. x \in F <=> \E i \in 1..n : list[i] = x
    BY DEF Exact
  <2>2. (\E i \in 1..Len(Pop(list)) : Pop(list)[i] = x)
          => (\E i \in 1..n : list[i] = x) /\ x # Top(list)
    BY <1>1, <1>2, <1>3, <1>4
  <2>3. (\E i \in 1..n : list[i] = x) /\ x # Top(list)
          => \E i \in 1..Len(Pop(list)) : Pop(list)[i] = x
    BY <1>1, <1>2, <1>3
  <2>. QED BY <2>1, <2>2, <2>3
<1>7. Top(list) \in F /\ Top(list) \in S
  BY <1>1, <1>3 DEF Exact
<1>8. F \ {Top(list)} = {Pop(list)[i] : i \in 1..Len(Pop(list))}
  BY <1>6
<1>. QED BY <1>2, <1>5, <1>7, <1>8 DEF Exact

(* Pushing a slot that is not free adds it to the free ones. *)
LEMMA PushExact ==
  ASSUME NEW S, NEW list \in Seq(S), NEW F, Exact(list, F), NEW s \in S, s \notin F
  PROVE  /\ Append(list, s) \in Seq(S)
         /\ Exact(Append(list, s), F \union {s})
<1>. DEFINE n == Len(list)
            more == Append(list, s)
<1>1. n \in Nat /\ \A i \in 1..n : list[i] # s
  BY DEF Exact
<1>2. /\ more \in Seq(S) /\ Len(more) = n + 1 /\ more[n + 1] = s
      /\ \A i \in 1..n : more[i] = list[i]
  BY AppendProperties
<1>. HIDE DEF more
<1>3. \A i, j \in 1..n : list[i] = list[j] => i = j
  BY DEF Exact
<1>4. \A i, j \in 1..Len(more) : more[i] = more[j] => i = j
  BY <1>1, <1>2, <1>3
<1>5. ASSUME NEW x
      PROVE  x \in F \union {s} <=> \E i \in 1..Len(more) : more[i] = x
  <2>1. x \in F <=> \E i \in 1..n : list[i] = x
    BY DEF Exact
  <2>2. (\E i \in 1..Len(more) : more[i] = x) <=> (\E i \in 1..n : list[i] = x) \/ x = s
    BY <1>1, <1>2
  <2>. QED BY <2>1, <2>2
<1>6. F \union {s} = {more[i] : i \in 1..Len(more)}
  BY <1>5
<1>. QED BY <1>2, <1>4, <1>6 DEF Exact, more
=============================================================================
