------------------------- MODULE AuditChain_proofs -------------------------
(***************************************************************************)
(* Proofs that an event has one entry in the chain of its campus, that     *)
(* only transactions which overlap on a campus can break its chain, and    *)
(* that a verification under which nothing commits tells the truth: for    *)
(* every number of transactions, campuses and events, whatever is          *)
(* checkpointed, rolled back, retried or crashes.                          *)
(*                                                                         *)
(* The second half proves, of Communications, that a recipient is notified *)
(* of a message once and that the status of a message tells what became of *)
(* its recipients, for every number of messages, recipients, workers,      *)
(* requests and crashes.                                                   *)
(***************************************************************************)
EXTENDS AuditChain, Communications, SequenceTheorems, FiniteSetTheorems, TLAPS

-----------------------------------------------------------------------------
(* The types of the variables, in the form the provers can use.            *)
History == Seq(Events \X Nat)
Link == [event : Events, campus : Campuses, index : Nat, prev : History]
Checkpoint == [campus : Campuses, upto : Nat, state : Seq(History)]

TxState ==
    [pc : {"idle", "open", "read_head", "append", "poisoned", "done"},
     event : Events \cup {NoEvent}, campus : Campuses \cup {None}, prev : History, index : Nat,
     recorded : Nat, rows : SUBSET Rows, links : SUBSET Link]

Typed ==
    /\ audits \subseteq Rows
    /\ entries \subseteq Link
    /\ checkpoints \subseteq Checkpoint
    /\ tx \in [Transactions -> TxState]
    /\ overlapped \subseteq Campuses

(* An entry states its place in its history.                               *)
Placed(e) == e.index = Len(e.prev)

(* One history and its prefixes, with an end.                              *)
Chain(S) ==
    /\ \A e, f \in S : IsPrefix(Hash(e), Hash(f)) \/ IsPrefix(Hash(f), Hash(e))
    /\ \A e \in S : \A n \in 1 .. e.index : \E f \in S : Hash(f) = SubSeq(e.prev, 1, n)
    /\ S # {} => \E e \in S : \A f \in S : f.index <= e.index

(* History p ends where the chain S ends.                                  *)
Ends(p, S) ==
    /\ \A f \in S : IsPrefix(Hash(f), p)
    /\ p = <<>> \/ \E e \in S : Hash(e) = p

(* Checkpoint k signs the chain S as it was up to k.upto.                  *)
Signs(k, S) ==
    /\ Len(k.state) = k.upto + 1
    /\ \E e \in S : /\ e.index = k.upto
                    /\ \A n \in 1 .. Len(k.state) : k.state[n] = SubSeq(Hash(e), 1, n)

-----------------------------------------------------------------------------
(* Sequences, hashes and chains.                                           *)
LEMMA HashIs ==
  ASSUME NEW e \in Link
  PROVE  /\ Hash(e) \in History /\ e.prev \in History /\ Len(e.prev) \in Nat
         /\ Len(Hash(e)) = Len(e.prev) + 1
         /\ \A i \in 1 .. Len(e.prev) : Hash(e)[i] = e.prev[i]
         /\ Hash(e)[Len(e.prev) + 1] = <<e.event, e.index>>
<1>1. e.prev \in Seq(Events \X Nat) /\ <<e.event, e.index>> \in Events \X Nat
  BY DEF Link, History
<1> DEFINE p == e.prev
           x == <<e.event, e.index>>
<1>2. p \in Seq(Events \X Nat) /\ x \in Events \X Nat
  BY <1>1
<1> HIDE DEF p, x
<1>3. /\ Append(p, x) \in Seq(Events \X Nat)
      /\ Len(Append(p, x)) = Len(p) + 1
      /\ \A i \in 1 .. Len(p) : Append(p, x)[i] = p[i]
      /\ Append(p, x)[Len(p) + 1] = x
  BY <1>2, AppendProperties
<1>4. Len(p) \in Nat
  BY <1>2
<1> QED
  BY <1>2, <1>3, <1>4 DEF p, x, Hash, History

LEMMA PrefixIs ==
  ASSUME NEW s \in History, NEW t \in History
  PROVE  IsPrefix(s, t) <=> Len(s) <= Len(t) /\ \A i \in 1 .. Len(s) : s[i] = t[i]
<1>1. /\ Len(s) \in Nat /\ Len(t) \in Nat
      /\ \A i \in 1 .. Len(s) : s[i] \in Events \X Nat
      /\ \A i \in 1 .. Len(t) : t[i] \in Events \X Nat
  BY DEF History
<1>2. SubSeq(s, 1, Len(s)) = s
  BY SubSeqFull DEF History
<1>3. ASSUME Len(s) <= Len(t)
      PROVE  /\ SubSeq(t, 1, Len(s)) \in Seq(Events \X Nat)
             /\ Len(SubSeq(t, 1, Len(s))) = Len(s)
             /\ \A i \in 1 .. Len(s) : SubSeq(t, 1, Len(s))[i] = t[i]
  <2>1. \A i \in 1 .. Len(s) : t[i] \in Events \X Nat
    BY <1>1, <1>3
  <2>2. /\ SubSeq(t, 1, Len(s)) \in Seq(Events \X Nat)
        /\ Len(SubSeq(t, 1, Len(s))) = IF 1 <= Len(s) THEN Len(s) - 1 + 1 ELSE 0
        /\ \A i \in 1 .. Len(s) - 1 + 1 : SubSeq(t, 1, Len(s))[i] = t[1 + i - 1]
    BY <1>1, <2>1, SubSeqProperties
  <2> QED
    BY <1>1, <2>2
<1>4. ASSUME Len(s) <= Len(t), \A i \in 1 .. Len(s) : s[i] = t[i]
      PROVE  s = SubSeq(t, 1, Len(s))
  BY <1>3, <1>4, SeqEqual DEF History
<1> QED
  BY <1>2, <1>3, <1>4 DEF IsPrefix

LEMMA PartIs ==
  ASSUME NEW s \in History, NEW n \in Nat, n <= Len(s)
  PROVE  /\ SubSeq(s, 1, n) \in History
         /\ Len(SubSeq(s, 1, n)) = n
         /\ \A i \in 1 .. n : SubSeq(s, 1, n)[i] = s[i]
<1>1. \A i \in 1 .. n : s[i] \in Events \X Nat
  BY DEF History
<1>2. /\ SubSeq(s, 1, n) \in Seq(Events \X Nat)
      /\ Len(SubSeq(s, 1, n)) = IF 1 <= n THEN n - 1 + 1 ELSE 0
      /\ \A i \in 1 .. n - 1 + 1 : SubSeq(s, 1, n)[i] = s[1 + i - 1]
  BY <1>1, SubSeqProperties
<1> QED
  BY <1>2 DEF History

LEMMA SameHistory ==
  ASSUME NEW s \in History, NEW t \in History, Len(s) = Len(t), \A i \in 1 .. Len(s) : s[i] = t[i]
  PROVE  s = t
  BY SeqEqual DEF History

(* Equal hashes mean equal entries.                                        *)
LEMMA HashBinds ==
  ASSUME NEW e \in Link, NEW f \in Link, Hash(e) = Hash(f), e.campus = f.campus
  PROVE  e = f
<1> USE HashIs
<1>1. Len(e.prev) = Len(f.prev)
  BY HashIs
<1>2. <<e.event, e.index>> = <<f.event, f.index>>
  BY <1>1, HashIs
<1>3. e.prev = f.prev
  BY <1>1, HashIs, SameHistory
<1> QED
  BY <1>2, <1>3 DEF Link

(* The least-number principle for naturals, in the form used below.        *)
LEMMA Smallest ==
  ASSUME NEW S \in SUBSET Nat, S # {}
  PROVE  \E m \in S : \A k \in S : m <= k
<1>1. IsWellFoundedOn(OpToRel(<, Nat), Nat)
  BY NatLessThanWellFounded
<1> DEFINE R == {ss \in Nat \X Nat : ss[1] < ss[2]}
<1>2. OpToRel(<, Nat) = R
  BY DEF OpToRel
<1>3. IsWellFoundedOn(R, Nat)
  BY <1>1, <1>2
<1> HIDE DEF R
<1>4. \E x \in S : \A y \in S : ~ (<<y, x>> \in R)
  BY <1>3, WFMin
<1>5. PICK x \in S : \A y \in S : ~ (<<y, x>> \in R)
  BY <1>4
<1>6. ASSUME NEW y \in S PROVE x <= y
  <2>1. x \in Nat /\ y \in Nat /\ <<y, x>>[1] = y /\ <<y, x>>[2] = x
    OBVIOUS
  <2>2. ~(y < x)
    BY <1>5, <2>1 DEF R
  <2> QED
    BY <2>1, <2>2
<1> QED
  BY <1>6
-----------------------------------------------------------------------------
LEMMA ChainGrows ==
  ASSUME NEW S \in SUBSET Link, \A f \in S : Placed(f), Chain(S),
         NEW e \in Link, Placed(e), Ends(e.prev, S)
  PROVE  Chain(S \cup {e})
<1> DEFINE T == S \cup {e}
<1>1. \A f \in T : f \in Link /\ Placed(f)
  OBVIOUS
<1>2. ASSUME NEW f \in S PROVE IsPrefix(Hash(f), Hash(e)) /\ f.index <= e.index
  <2>1. IsPrefix(Hash(f), e.prev)
    BY DEF Ends
  <2>2. /\ Hash(f) \in History /\ e.prev \in History /\ Hash(e) \in History
        /\ Len(Hash(f)) = Len(f.prev) + 1 /\ Len(Hash(e)) = Len(e.prev) + 1
        /\ Len(f.prev) \in Nat /\ Len(e.prev) \in Nat
        /\ \A i \in 1 .. Len(e.prev) : Hash(e)[i] = e.prev[i]
    BY HashIs
  <2>3. /\ Len(Hash(f)) <= Len(e.prev)
        /\ \A i \in 1 .. Len(Hash(f)) : Hash(f)[i] = e.prev[i]
    BY <2>1, <2>2, PrefixIs
  <2>4. IsPrefix(Hash(f), Hash(e))
    <3>1. Len(Hash(f)) <= Len(Hash(e)) /\ \A i \in 1 .. Len(Hash(f)) : Hash(f)[i] = Hash(e)[i]
      BY <2>2, <2>3
    <3> QED
      BY <2>2, <3>1, PrefixIs
  <2>5. f.index <= e.index
    BY <1>1, <2>2, <2>3 DEF Placed
  <2> QED
    BY <2>4, <2>5
<1>3. IsPrefix(Hash(e), Hash(e))
  BY HashIs, PrefixIs
<1>4. ASSUME NEW f \in T, NEW n \in 1 .. f.index PROVE \E g \in T : Hash(g) = SubSeq(f.prev, 1, n)
  <2>1. CASE f \in S
    BY <1>4, <2>1 DEF Chain
  <2>2. CASE f = e
    <3>1. Len(e.prev) \in Nat /\ e.prev \in History /\ n \in 1 .. Len(e.prev)
      BY <1>1, <1>4, <2>2, HashIs DEF Placed
    <3>2. e.prev # <<>>
      BY <3>1
    <3>3. PICK h \in S : Hash(h) = e.prev
      BY <3>2 DEF Ends
    <3>4. /\ h.prev \in History /\ Len(h.prev) \in Nat /\ Len(e.prev) = Len(h.prev) + 1
          /\ \A i \in 1 .. Len(h.prev) : e.prev[i] = h.prev[i]
      BY <3>3, HashIs
    <3>5. CASE n = Len(e.prev)
      BY <2>2, <3>1, <3>3, <3>5, SubSeqFull DEF History
    <3>6. CASE n # Len(e.prev)
      <4>1. n \in 1 .. h.index /\ n <= Len(h.prev) /\ n \in Nat
        BY <1>1, <3>1, <3>4, <3>6 DEF Placed
      <4>2. PICK g \in S : Hash(g) = SubSeq(h.prev, 1, n)
        BY <4>1 DEF Chain
      <4>3. n <= Len(e.prev)
        BY <3>1
      <4>4. /\ SubSeq(h.prev, 1, n) \in History /\ SubSeq(e.prev, 1, n) \in History
            /\ Len(SubSeq(h.prev, 1, n)) = n /\ Len(SubSeq(e.prev, 1, n)) = n
            /\ \A i \in 1 .. n : SubSeq(h.prev, 1, n)[i] = h.prev[i] /\ SubSeq(e.prev, 1, n)[i] = e.prev[i]
        BY <3>1, <3>4, <4>1, <4>3, PartIs
      <4>5. \A i \in 1 .. n : h.prev[i] = e.prev[i]
        BY <3>4, <4>1
      <4>6. SubSeq(h.prev, 1, n) = SubSeq(e.prev, 1, n)
        BY <4>4, <4>5, SameHistory
      <4> QED
        BY <2>2, <4>2, <4>6
    <3> QED
      BY <3>5, <3>6
  <2> QED
    BY <2>1, <2>2
<1>5. \A f \in T : f.index <= e.index
  <2>1. e.index \in Nat
    BY DEF Link
  <2> QED
    BY <1>2, <2>1
<1>6. \A f, g \in T : IsPrefix(Hash(f), Hash(g)) \/ IsPrefix(Hash(g), Hash(f))
  BY <1>2, <1>3 DEF Chain
<1> QED
  BY <1>4, <1>5, <1>6 DEF Chain

(* What is read as the head of a chain is where it ends.                   *)
LEMMA HeadEnds ==
  ASSUME NEW S \in SUBSET Link, \A f \in S : Placed(f), Chain(S),
         NEW h \in S, \A f \in S : f.index <= h.index
  PROVE  Ends(Hash(h), S)
<1>1. ASSUME NEW f \in S PROVE IsPrefix(Hash(f), Hash(h))
  <2>1. /\ Hash(f) \in History /\ Hash(h) \in History
        /\ Len(Hash(f)) = Len(f.prev) + 1 /\ Len(Hash(h)) = Len(h.prev) + 1
        /\ Len(f.prev) \in Nat /\ Len(h.prev) \in Nat
    BY HashIs
  <2>2. Len(Hash(f)) <= Len(Hash(h))
    BY <2>1 DEF Placed
  <2>3. CASE IsPrefix(Hash(h), Hash(f))
    <3>1. Len(Hash(h)) <= Len(Hash(f)) /\ \A i \in 1 .. Len(Hash(h)) : Hash(h)[i] = Hash(f)[i]
      BY <2>1, <2>3, PrefixIs
    <3>2. \A i \in 1 .. Len(Hash(f)) : Hash(f)[i] = Hash(h)[i]
      BY <2>1, <2>2, <3>1
    <3> QED
      BY <2>1, <2>2, <3>2, PrefixIs
  <2> QED
    BY <2>3 DEF Chain
<1> QED
  BY <1>1 DEF Ends

LEMMA NothingEnds == Ends(<<>>, {}) /\ Chain({})
  BY DEF Ends, Chain

-----------------------------------------------------------------------------
(* The entries of a campus in the order of their indices.                  *)
LEMMA OrderingIs ==
  ASSUME NEW S, IsFiniteSet(S), NEW s \in Orderings(S)
  PROVE  /\ Len(s) = Cardinality(S) /\ Len(s) \in Nat /\ s \in [1 .. Len(s) -> S]
         /\ DOMAIN s = 1 .. Len(s) /\ s \in Seq(S)
         /\ \A e \in S : \E i \in 1 .. Len(s) : s[i] = e
         /\ \A i, j \in 1 .. Len(s) : i # j => s[i] # s[j]
         /\ \A i, j \in 1 .. Len(s) : i < j => s[i].index <= s[j].index
<1> DEFINE n == Cardinality(S)
           D == 1 .. n
<1>1. n \in Nat /\ IsFiniteSet(D) /\ Cardinality(D) = n
  BY FS_CardinalityType, FS_Interval
<1>2. s \in [D -> S] /\ (\A i, j \in D : i # j => s[i] # s[j])
  BY DEF Orderings, SetToSeqs
<1>3. Len(s) = n /\ DOMAIN s = D /\ s \in Seq(S)
  BY <1>1, <1>2
<1>4. s \in Injection(D, S)
  BY <1>2 DEF Injection, IsInjective
<1>5. s \in Surjection(D, S)
  <2> HIDE DEF D
  <2> QED
    BY <1>1, <1>4, FS_Injection
<1>6. \A e \in S : \E i \in D : s[i] = e
  BY <1>5 DEF Surjection
<1>7. \A i, j \in D : i < j => s[i].index <= s[j].index
  BY <1>3 DEF Orderings
<1>8. D = 1 .. Len(s) /\ Len(s) = Cardinality(S) /\ Len(s) \in Nat
  BY <1>1, <1>3
<1> HIDE DEF D
<1> QED
  BY <1>2, <1>3, <1>6, <1>7, <1>8

(* In a chain the entries have the indices 0, 1, 2, ...                    *)
LEMMA IndexedInOrder ==
  ASSUME NEW S \in SUBSET Link, IsFiniteSet(S), \A f \in S : Placed(f), Chain(S),
         \A e, f \in S : e.campus = f.campus, NEW s \in Orderings(S)
  PROVE  \A i \in 1 .. Len(s) : s[i].index = i - 1
<1> DEFINE L == Len(s)
           Bad == {i \in 1 .. L : s[i].index # i - 1}
<1>1. /\ L \in Nat /\ s \in [1 .. L -> S]
      /\ \A e \in S : \E i \in 1 .. L : s[i] = e
      /\ \A i, j \in 1 .. L : i # j => s[i] # s[j]
      /\ \A i, j \in 1 .. L : i < j => s[i].index <= s[j].index
  BY OrderingIs
<1>2. \A e \in S : e.index \in Nat /\ e.prev \in History /\ Len(e.prev) = e.index
  BY DEF Link, Placed
<1>3. ASSUME NEW e \in S, NEW f \in S, e.index = f.index PROVE e = f
  <2>1. /\ Hash(e) \in History /\ Hash(f) \in History /\ Len(Hash(e)) = Len(Hash(f))
        /\ Len(Hash(e)) \in Nat
    BY <1>2, <1>3, HashIs
  <2>2. \A i \in 1 .. Len(Hash(e)) : Hash(e)[i] = Hash(f)[i]
    BY <2>1, PrefixIs DEF Chain
  <2>3. Hash(e) = Hash(f)
    BY <2>1, <2>2, SameHistory
  <2> QED
    BY <2>3, HashBinds
<1>4. ASSUME NEW e \in S, NEW n \in 0 .. e.index - 1 PROVE \E f \in S : f.index = n
  <2>1. n + 1 \in 1 .. e.index /\ n + 1 \in Nat /\ n + 1 <= Len(e.prev)
    BY <1>2
  <2>2. PICK f \in S : Hash(f) = SubSeq(e.prev, 1, n + 1)
    BY <2>1 DEF Chain
  <2>3. Len(Hash(f)) = n + 1 /\ Len(Hash(f)) = f.index + 1
    BY <1>2, <2>1, <2>2, PartIs, HashIs
  <2> QED
    BY <1>2, <2>3
<1> SUFFICES ASSUME Bad # {} PROVE FALSE
  OBVIOUS
<1>5. PICK b \in Bad : \A k \in Bad : b <= k
  <2>1. Bad \in SUBSET Nat
    BY <1>1
  <2> QED
    BY <2>1, Smallest
<1>6. /\ b \in 1 .. L /\ s[b] \in S /\ s[b].index \in Nat /\ s[b].index # b - 1
      /\ \A i \in 1 .. b - 1 : i \in 1 .. L /\ s[i].index = i - 1
  <2>1. b \in 1 .. L /\ s[b].index # b - 1
    BY <1>5
  <2>2. ASSUME NEW i \in 1 .. b - 1 PROVE i \in 1 .. L /\ s[i].index = i - 1
    <3>1. i \in 1 .. L /\ ~(b <= i)
      BY <1>1, <2>1
    <3> QED
      BY <1>5, <3>1
  <2> QED
    BY <1>1, <1>2, <2>1, <2>2
<1> HIDE DEF Bad
<1>7. s[b].index >= b - 1
  <2>1. CASE b = 1
    BY <1>6, <2>1
  <2>2. CASE b # 1
    <3>1. b - 1 \in 1 .. b - 1 /\ b - 1 \in 1 .. L /\ b - 1 < b /\ b - 1 # b
      BY <1>1, <1>6, <2>2
    <3>2. s[b - 1].index = b - 2 /\ s[b - 1].index <= s[b].index /\ s[b - 1] # s[b]
      BY <1>1, <1>6, <3>1
    <3>3. s[b - 1] \in S
      BY <1>1, <3>1
    <3>4. s[b - 1].index # s[b].index
      BY <1>3, <1>6, <3>2, <3>3
    <3> QED
      BY <1>6, <3>2, <3>4
  <2> QED
    BY <2>1, <2>2
<1>8. PICK f \in S : f.index = b - 1
  <2>1. b - 1 \in 0 .. s[b].index - 1
    BY <1>1, <1>6, <1>7
  <2> QED
    BY <1>4, <1>6, <2>1
<1>9. PICK j \in 1 .. L : s[j] = f
  BY <1>1, <1>8
<1>10. CASE j < b
  BY <1>1, <1>6, <1>8, <1>9, <1>10
<1>11. CASE j = b
  BY <1>6, <1>8, <1>9, <1>11
<1>12. CASE j > b
  <2>1. s[b].index <= s[j].index
    BY <1>1, <1>6, <1>9, <1>12
  <2> QED
    BY <1>6, <1>7, <1>8, <1>9, <2>1
<1> QED
  BY <1>1, <1>6, <1>9, <1>10, <1>11, <1>12
-----------------------------------------------------------------------------
(* Entries in order, each with the hash of the one before it.              *)
Straight(s) ==
    \A i \in DOMAIN s : /\ s[i].index = i - 1
                        /\ s[i].prev = (IF i = 1 THEN <<>> ELSE Hash(s[i - 1]))

LEMMA ChainIsStraight ==
  ASSUME NEW S \in SUBSET Link, IsFiniteSet(S), \A f \in S : Placed(f), Chain(S),
         \A e, f \in S : e.campus = f.campus, NEW s \in Orderings(S)
  PROVE  Straight(s)
<1>1. \A i \in 1 .. Len(s) : s[i].index = i - 1
  BY IndexedInOrder
<1>2. /\ Len(s) \in Nat /\ DOMAIN s = 1 .. Len(s) /\ s \in [1 .. Len(s) -> S]
      /\ \A e \in S : \E i \in 1 .. Len(s) : s[i] = e
  BY OrderingIs
<1>3. ASSUME NEW i \in 1 .. Len(s) PROVE s[i].prev = (IF i = 1 THEN <<>> ELSE Hash(s[i - 1]))
  <2> DEFINE e == s[i]
  <2>1. e \in S /\ e \in Link /\ e.index = i - 1 /\ Len(e.prev) = i - 1 /\ e.prev \in History
    BY <1>1, <1>2, <1>3, HashIs DEF Placed
  <2>2. CASE i = 1
    BY <2>1, <2>2 DEF History
  <2>3. CASE i # 1
    <3>1. i - 1 \in 1 .. e.index
      BY <1>2, <2>1, <2>3
    <3>2. PICK f \in S : Hash(f) = SubSeq(e.prev, 1, i - 1)
      BY <2>1, <3>1 DEF Chain
    <3>3. Hash(f) = e.prev
      BY <2>1, <3>2, SubSeqFull DEF History
    <3>4. f.index = i - 2
      <4>1. Len(Hash(f)) = Len(f.prev) + 1 /\ Len(f.prev) \in Nat
        BY HashIs
      <4> QED
        BY <1>2, <2>1, <3>3, <4>1 DEF Placed
    <3>5. PICK j \in 1 .. Len(s) : s[j] = f
      BY <1>2
    <3>6. j = i - 1
      BY <1>1, <1>2, <3>4, <3>5
    <3> QED
      BY <2>3, <3>3, <3>5, <3>6
  <2> QED
    BY <2>2, <2>3
<1> QED
  BY <1>1, <1>2, <1>3 DEF Straight

(* The hash of an entry of a straight sequence holds those before it.      *)
LEMMA StraightHolds ==
  ASSUME NEW S \in SUBSET Link, NEW s \in Seq(S), Straight(s)
  PROVE  /\ \A i \in 1 .. Len(s) : Len(Hash(s[i])) = i
         /\ \A i \in 1 .. Len(s), j \in 1 .. Len(s), k \in 1 .. Len(s) :
               k <= i /\ k <= j => Hash(s[i])[k] = Hash(s[j])[k]
<1> DEFINE L == Len(s)
           Good(i) == /\ Len(Hash(s[i])) = i
                      /\ \A k \in 1 .. i : Hash(s[i])[k] = Hash(s[k])[k]
           Bad == {i \in 1 .. L : ~Good(i)}
<1>1. /\ L \in Nat /\ DOMAIN s = 1 .. L /\ \A i \in 1 .. L : s[i] \in Link
  OBVIOUS
<1>2. \A i \in 1 .. L : s[i].prev = (IF i = 1 THEN <<>> ELSE Hash(s[i - 1]))
  BY <1>1 DEF Straight
<1>3. ASSUME Bad # {} PROVE FALSE
  <2>1. PICK b \in Bad : \A k \in Bad : b <= k
    <3>1. Bad \in SUBSET Nat
      BY <1>1
    <3> HIDE DEF Bad
    <3> QED
      BY <1>3, <3>1, Smallest
  <2>2. b \in 1 .. L /\ ~Good(b)
    BY <2>1
  <2>3. /\ Hash(s[b]) \in History /\ s[b].prev \in History /\ Len(s[b].prev) \in Nat
        /\ Len(Hash(s[b])) = Len(s[b].prev) + 1
        /\ \A i \in 1 .. Len(s[b].prev) : Hash(s[b])[i] = s[b].prev[i]
    BY <1>1, <2>2, HashIs
  <2>4. CASE b = 1
    <3>1. s[b].prev = <<>>
      BY <1>2, <2>2, <2>4
    <3>2. Len(Hash(s[b])) = 1
      BY <2>3, <3>1
    <3>3. \A k \in 1 .. b : Hash(s[b])[k] = Hash(s[k])[k]
      BY <2>4
    <3> QED
      BY <2>2, <2>4, <3>2, <3>3
  <2>5. CASE b # 1
    <3>1. b - 1 \in 1 .. L /\ ~(b <= b - 1) /\ b \in Nat
      BY <1>1, <2>2, <2>5
    <3>2. Good(b - 1)
      BY <2>1, <3>1
    <3>3. s[b].prev = Hash(s[b - 1])
      BY <1>2, <2>2, <2>5
    <3>4. Len(s[b].prev) = b - 1 /\ \A k \in 1 .. b - 1 : s[b].prev[k] = Hash(s[k])[k]
      BY <3>2, <3>3
    <3>5. Len(Hash(s[b])) = b
      BY <2>3, <3>1, <3>4
    <3>6. ASSUME NEW k \in 1 .. b PROVE Hash(s[b])[k] = Hash(s[k])[k]
      <4>1. CASE k = b
        BY <4>1
      <4>2. CASE k # b
        BY <2>3, <3>1, <3>4, <3>6, <4>2
      <4> QED
        BY <4>1, <4>2
    <3> QED
      BY <2>2, <3>5, <3>6
  <2> QED
    BY <2>4, <2>5
<1>4. \A i \in 1 .. L : Good(i)
  BY <1>3
<1>5. ASSUME NEW i \in 1 .. L, NEW j \in 1 .. L, NEW k \in 1 .. L, k <= i, k <= j
      PROVE  Hash(s[i])[k] = Hash(s[j])[k]
  <2>1. k \in 1 .. i /\ k \in 1 .. j
    BY <1>5
  <2>2. Good(i) /\ Good(j)
    BY <1>4
  <2> HIDE DEF L
  <2> QED
    BY <2>1, <2>2
<1> QED
  BY <1>4, <1>5

LEMMA StraightPart ==
  ASSUME NEW S \in SUBSET Link, NEW s \in Seq(S), Straight(s),
         NEW i \in 1 .. Len(s), NEW j \in 1 .. Len(s), i <= j
  PROVE  Hash(s[i]) = SubSeq(Hash(s[j]), 1, i) /\ IsPrefix(Hash(s[i]), Hash(s[j]))
<1>1. /\ Len(Hash(s[i])) = i /\ Len(Hash(s[j])) = j
      /\ \A k \in 1 .. Len(s) : k <= i /\ k <= j => Hash(s[i])[k] = Hash(s[j])[k]
  BY StraightHolds
<1>2. Hash(s[i]) \in History /\ Hash(s[j]) \in History
  <2>1. s[i] \in Link /\ s[j] \in Link
    OBVIOUS
  <2> QED
    BY <2>1, HashIs
<1>3. i \in Nat /\ j \in Nat /\ \A k \in 1 .. i : Hash(s[i])[k] = Hash(s[j])[k]
  <2>1. Len(s) \in Nat
    OBVIOUS
  <2>2. i \in Nat /\ j \in Nat /\ i <= j /\ \A k \in 1 .. i : k \in 1 .. Len(s) /\ k <= i /\ k <= j
    BY <2>1
  <2> QED
    BY <1>1, <2>2
<1>4. IsPrefix(Hash(s[i]), Hash(s[j]))
  BY <1>1, <1>2, <1>3, PrefixIs
<1>5. Hash(s[i]) = SubSeq(Hash(s[j]), 1, i)
  <2>1. /\ SubSeq(Hash(s[j]), 1, i) \in History /\ Len(SubSeq(Hash(s[j]), 1, i)) = i
        /\ \A k \in 1 .. i : SubSeq(Hash(s[j]), 1, i)[k] = Hash(s[j])[k]
    BY <1>1, <1>2, <1>3, PartIs
  <2> DEFINE a == Hash(s[i])
             b == SubSeq(Hash(s[j]), 1, i)
  <2>2. a \in History /\ b \in History /\ Len(a) = Len(b) /\ \A k \in 1 .. Len(a) : a[k] = b[k]
    BY <1>1, <1>2, <1>3, <2>1
  <2> HIDE DEF a, b
  <2>3. a = b
    BY <2>2, SameHistory
  <2> QED
    BY <2>3 DEF a, b
<1> QED
  BY <1>4, <1>5

(* Entries that can be put straight are a chain.                           *)
LEMMA StraightIsChain ==
  ASSUME NEW S \in SUBSET Link, NEW s \in Seq(S), Straight(s),
         \A e \in S : \E i \in 1 .. Len(s) : s[i] = e
  PROVE  /\ \A e \in S : Placed(e)
         /\ Chain(S)
<1>1. Len(s) \in Nat /\ DOMAIN s = 1 .. Len(s) /\ \A i \in 1 .. Len(s) : s[i] \in S /\ s[i] \in Link
  OBVIOUS
<1>2. \A i \in 1 .. Len(s) : s[i].index = i - 1
  BY <1>1 DEF Straight
<1>3. ASSUME NEW e \in S PROVE Placed(e)
  <2>1. PICK i \in 1 .. Len(s) : s[i] = e
    OBVIOUS
  <2>2. Len(Hash(e)) = i
    BY <2>1, StraightHolds
  <2>3. Len(Hash(e)) = Len(e.prev) + 1 /\ Len(e.prev) \in Nat
    BY HashIs
  <2> QED
    BY <1>1, <1>2, <2>1, <2>2, <2>3 DEF Placed
<1>4. ASSUME NEW e \in S, NEW f \in S
      PROVE  IsPrefix(Hash(e), Hash(f)) \/ IsPrefix(Hash(f), Hash(e))
  <2>1. PICK i \in 1 .. Len(s), j \in 1 .. Len(s) : s[i] = e /\ s[j] = f
    OBVIOUS
  <2>2. i <= j \/ j <= i
    BY <1>1
  <2> QED
    BY <2>1, <2>2, StraightPart
<1>5. ASSUME NEW e \in S, NEW n \in 1 .. e.index
      PROVE  \E f \in S : Hash(f) = SubSeq(e.prev, 1, n)
  <2>1. PICK j \in 1 .. Len(s) : s[j] = e
    OBVIOUS
  <2>2. e.index = j - 1
    BY <1>2, <2>1
  <2>3. n \in 1 .. j - 1 /\ j \in Nat /\ n \in 1 .. Len(s) /\ j - 1 \in 1 .. Len(s) /\ n <= j - 1 /\ j # 1
    BY <1>1, <1>5, <2>2
  <2>4. e.prev = Hash(s[j - 1])
    BY <1>1, <2>1, <2>3 DEF Straight
  <2>5. Hash(s[n]) = SubSeq(e.prev, 1, n)
    <3>1. PICK m \in 1 .. Len(s) : m = j - 1
      BY <2>3
    <3>2. n \in 1 .. Len(s) /\ n <= m
      BY <2>3, <3>1
    <3>3. Hash(s[n]) = SubSeq(Hash(s[m]), 1, n)
      BY <3>2, StraightPart
    <3> QED
      BY <2>4, <3>1, <3>3
  <2> QED
    BY <1>1, <2>3, <2>5
<1>6. ASSUME S # {} PROVE \E e \in S : \A f \in S : f.index <= e.index
  <2>1. Len(s) \in 1 .. Len(s)
    BY <1>1, <1>6
  <2>2. \A f \in S : f.index <= s[Len(s)].index
    BY <1>1, <1>2, <2>1
  <2> QED
    BY <1>1, <2>1, <2>2
<1> QED
  BY <1>3, <1>4, <1>5, <1>6 DEF Chain

(* A checkpoint that the hashes of a straight sequence bear out.           *)
LEMMA StraightSigns ==
  ASSUME NEW S \in SUBSET Link, NEW s \in Seq(S), Straight(s),
         \A e \in S : \E i \in 1 .. Len(s) : s[i] = e, NEW k \in Checkpoint
  PROVE  (k.upto < Len(s) /\ k.state = SubSeq(Hashes(s), 1, k.upto + 1)) <=> Signs(k, S)
<1>1. Len(s) \in Nat /\ DOMAIN s = 1 .. Len(s) /\ \A i \in 1 .. Len(s) : s[i] \in S /\ s[i] \in Link
  OBVIOUS
<1>2. \A i \in 1 .. Len(s) : s[i].index = i - 1
  BY <1>1 DEF Straight
<1>3. k.upto \in Nat /\ k.state \in Seq(History)
  BY DEF Checkpoint
<1>4. Hashes(s) \in Seq(History) /\ Len(Hashes(s)) = Len(s) /\ \A i \in 1 .. Len(s) : Hashes(s)[i] = Hash(s[i])
  <2>1. Hashes(s) = [i \in 1 .. Len(s) |-> Hash(s[i])]
    BY <1>1 DEF Hashes
  <2>2. \A i \in 1 .. Len(s) : Hash(s[i]) \in History
    BY <1>1, HashIs
  <2>3. Hashes(s) \in [1 .. Len(s) -> History]
    BY <2>1, <2>2
  <2> QED
    BY <1>1, <2>1, <2>3
<1>5. ASSUME k.upto < Len(s)
      PROVE  /\ SubSeq(Hashes(s), 1, k.upto + 1) \in Seq(History)
             /\ Len(SubSeq(Hashes(s), 1, k.upto + 1)) = k.upto + 1
             /\ \A n \in 1 .. k.upto + 1 : SubSeq(Hashes(s), 1, k.upto + 1)[n] = Hash(s[n])
  <2> DEFINE m == k.upto + 1
  <2>1. m \in Nat /\ m \in Int /\ 1 \in Int /\ 1 <= m /\ m <= Len(s)
    BY <1>1, <1>3, <1>5
  <2>2. \A i \in 1 .. m : Hashes(s)[i] \in History /\ i \in 1 .. Len(s)
    BY <1>1, <1>4, <2>1
  <2> HIDE DEF m
  <2>3. /\ SubSeq(Hashes(s), 1, m) \in Seq(History)
        /\ Len(SubSeq(Hashes(s), 1, m)) = IF 1 <= m THEN m - 1 + 1 ELSE 0
        /\ \A i \in 1 .. m - 1 + 1 : SubSeq(Hashes(s), 1, m)[i] = Hashes(s)[1 + i - 1]
    BY <2>1, <2>2, SubSeqProperties
  <2>4. \A i \in 1 .. m : SubSeq(Hashes(s), 1, m)[i] = Hashes(s)[i]
    BY <2>1, <2>3
  <2> QED
    BY <1>4, <2>1, <2>2, <2>3, <2>4 DEF m
<1>6. ASSUME k.upto < Len(s), NEW n \in 1 .. k.upto + 1
      PROVE  Hash(s[n]) = SubSeq(Hash(s[k.upto + 1]), 1, n)
  <2>1. n \in 1 .. Len(s) /\ k.upto + 1 \in 1 .. Len(s) /\ n <= k.upto + 1
    BY <1>1, <1>3, <1>6
  <2> QED
    BY <2>1, StraightPart
<1>7. ASSUME k.upto < Len(s), k.state = SubSeq(Hashes(s), 1, k.upto + 1)
      PROVE  Signs(k, S)
  <2>1. k.upto + 1 \in 1 .. Len(s)
    BY <1>1, <1>3, <1>7
  <2>2. s[k.upto + 1] \in S /\ s[k.upto + 1].index = k.upto
    BY <1>1, <1>2, <1>3, <2>1
  <2>3. Len(k.state) = k.upto + 1 /\ \A n \in 1 .. k.upto + 1 : k.state[n] = Hash(s[n])
    BY <1>5, <1>7
  <2>4. \A n \in 1 .. Len(k.state) : k.state[n] = SubSeq(Hash(s[k.upto + 1]), 1, n)
    BY <1>6, <1>7, <2>3
  <2> QED
    BY <2>2, <2>3, <2>4 DEF Signs
<1>8. ASSUME Signs(k, S)
      PROVE  k.upto < Len(s) /\ k.state = SubSeq(Hashes(s), 1, k.upto + 1)
  <2>1. PICK e \in S : e.index = k.upto /\ \A n \in 1 .. Len(k.state) : k.state[n] = SubSeq(Hash(e), 1, n)
    BY <1>8 DEF Signs
  <2>2. PICK i \in 1 .. Len(s) : s[i] = e
    OBVIOUS
  <2>3. i = k.upto + 1 /\ k.upto < Len(s)
    BY <1>1, <1>2, <1>3, <2>1, <2>2
  <2>4. Len(k.state) = k.upto + 1
    BY <1>8 DEF Signs
  <2>5. \A n \in 1 .. k.upto + 1 : k.state[n] = Hash(s[n])
    BY <1>6, <2>1, <2>2, <2>3, <2>4
  <2>6. k.state = SubSeq(Hashes(s), 1, k.upto + 1)
    <3> DEFINE b == SubSeq(Hashes(s), 1, k.upto + 1)
               a == k.state
    <3>1. /\ a \in Seq(History) /\ b \in Seq(History) /\ Len(a) = Len(b)
          /\ \A n \in 1 .. Len(a) : a[n] = b[n]
      BY <1>3, <1>5, <2>3, <2>4, <2>5
    <3> HIDE DEF a, b
    <3>2. a = b
      BY <3>1, SeqEqual
    <3> QED
      BY <3>2 DEF a, b
  <2> QED
    BY <2>3, <2>6
<1> QED
  BY <1>7, <1>8
-----------------------------------------------------------------------------
(* A transaction that has yet to append the entry of an event.             *)
Owes(x) == x.pc \in {"read_head", "append", "poisoned"}

IsOf(row, e) == row.event = e.event /\ row.campus = e.campus

(* What transaction x has staged, beside the committed rows A: the entries *)
(* are of rows, and rows recorded under a tenant have theirs or are owed   *)
(* one.                                                                    *)
Sound(x, A) ==
    /\ IsFiniteSet(x.links)
    /\ \A e \in x.links : Placed(e) /\ \E row \in A \cup x.rows : IsOf(row, e)
    /\ \A row \in x.rows : row.chained => Covers(x.links, row.event) \/ (Owes(x) /\ x.event = row.event)
    /\ Owes(x) => /\ x.event \in Events /\ x.campus \in Campuses
                  /\ \E row \in A \cup x.rows : IsOf(row, x)
    /\ x.pc = "append" => x.index = Len(x.prev)

(* An entry that is committed or staged.                                   *)
Stands(e) == e \in entries \/ \E t \in Transactions : e \in tx[t].links

(* The inductive invariant behind OneEntryPerEvent: no two entries of an   *)
(* event stand, committed or not, and what is not committed is sound.      *)
AInv ==
    /\ Typed
    /\ IsFiniteSet(entries)
    /\ \A t \in Transactions : Sound(tx[t], audits)
    /\ \A e \in entries : Placed(e) /\ \E row \in audits : IsOf(row, e)
    /\ \A row \in audits : row.chained => Covers(entries, row.event)
    /\ \A e, f \in Link : Stands(e) /\ Stands(f) /\ e.event = f.event => e = f

-----------------------------------------------------------------------------
LEMMA IdleIs == Idle \in TxState /\ Idle.links = {} /\ Idle.rows = {} /\ Idle.pc = "idle"
<1>1. <<>> \in History
  BY DEF History
<1> QED
  BY <1>1 DEF Idle, TxState, NoEvent

LEMMA DoneIs ==
  LET s == [Idle EXCEPT !.pc = "done"] IN s \in TxState /\ s.links = {} /\ s.rows = {} /\ s.pc = "done"
<1>1. <<>> \in History
  BY DEF History
<1> QED
  BY <1>1 DEF Idle, TxState, NoEvent

LEMMA InitSound == Init => AInv
<1> SUFFICES ASSUME Init PROVE AInv
  OBVIOUS
<1>1. /\ audits = {} /\ entries = {} /\ checkpoints = {} /\ overlapped = {}
      /\ tx = [t \in Transactions |-> Idle]
  BY DEF Init
<1>2. Typed
  BY <1>1, IdleIs DEF Typed
<1>3. IsFiniteSet(Idle.links) /\ IsFiniteSet(entries)
  BY <1>1, IdleIs, FS_EmptySet
<1>4. Sound(Idle, audits)
  BY <1>3, IdleIs DEF Sound, Owes
<1>5. \A e : ~Stands(e)
  BY <1>1, IdleIs DEF Stands
<1>6. \A t \in Transactions : tx[t] = Idle
  BY <1>1
<1>7. \A t \in Transactions : Sound(tx[t], audits)
  <2> SUFFICES ASSUME NEW t \in Transactions PROVE Sound(tx[t], audits)
    OBVIOUS
  <2>1. PICK x : x = tx[t]
    OBVIOUS
  <2>2. x = Idle
    BY <2>1, <1>6
  <2> QED
    BY <1>4, <2>1, <2>2
<1> QED
  BY <1>1, <1>2, <1>3, <1>5, <1>7 DEF AInv

-----------------------------------------------------------------------------
(* What each action of a transaction makes of it.                          *)
LEMMA EventIs ==
  ASSUME Typed, NEW t \in Transactions, tx[t].recorded < MaxEvents[t]
  PROVE  tx[t].recorded + 1 \in Nat /\ <<t, tx[t].recorded + 1>> \in Events
<1>1. tx[t].recorded \in Nat /\ MaxEvents[t] \in Nat
  BY ChainAssumption DEF Typed, TxState
<1>2. <<t, tx[t].recorded + 1>> \in {t} \X (1 .. MaxEvents[t])
  BY <1>1
<1> QED
  BY <1>1, <1>2 DEF Events

LEMMA UnchainedIs ==
  ASSUME Typed, NEW t \in Transactions, NEW c \in Campuses, RecordUnchained(t, c)
  PROVE  \E s \in TxState, row \in Rows :
            /\ tx' = [tx EXCEPT ![t] = s]
            /\ s.pc = "open" /\ s.links = tx[t].links /\ s.rows = tx[t].rows \cup {row}
            /\ ~row.chained /\ tx[t].pc \in {"idle", "open"}
            /\ UNCHANGED <<audits, entries, checkpoints, reader, overlapped>>
<1> DEFINE n == tx[t].recorded + 1
           row == [event |-> <<t, n>>, campus |-> c, chained |-> FALSE]
           s == [tx[t] EXCEPT !.pc = "open", !.recorded = n, !.rows = @ \cup {row}]
<1>1. n \in Nat /\ <<t, n>> \in Events
  BY EventIs DEF RecordUnchained
<1>2. row \in Rows /\ ~row.chained
  BY <1>1 DEF Rows
<1>3. tx[t] \in TxState
  BY DEF Typed
<1>4. tx' = [tx EXCEPT ![t] = s]
  BY DEF RecordUnchained, Typed
<1>5. tx[t].pc \in {"idle", "open"} /\ UNCHANGED <<audits, entries, checkpoints, reader, overlapped>>
  BY DEF RecordUnchained
<1> HIDE DEF row, n
<1>6. s \in TxState /\ s.pc = "open" /\ s.links = tx[t].links /\ s.rows = tx[t].rows \cup {row}
  BY <1>1, <1>2, <1>3 DEF TxState
<1> HIDE DEF s
<1> QED
  BY <1>2, <1>4, <1>5, <1>6

LEMMA RecordIs ==
  ASSUME Typed, NEW t \in Transactions, NEW c \in Campuses, Record(t, c)
  PROVE  \E s \in TxState, row \in Rows :
            /\ tx' = [tx EXCEPT ![t] = s]
            /\ s.pc = "read_head" /\ s.links = tx[t].links /\ s.rows = tx[t].rows \cup {row}
            /\ IsOf(row, s) /\ tx[t].pc \in {"idle", "open"}
            /\ UNCHANGED <<audits, entries, checkpoints, reader, overlapped>>
<1> DEFINE n == tx[t].recorded + 1
           row == [event |-> <<t, n>>, campus |-> c, chained |-> TRUE]
           s == [tx[t] EXCEPT !.pc = "read_head", !.recorded = n, !.event = <<t, n>>, !.campus = c,
                              !.rows = @ \cup {row}]
<1>1. n \in Nat /\ <<t, n>> \in Events
  BY EventIs DEF Record
<1>2. row \in Rows /\ row.event = <<t, n>> /\ row.campus = c
  BY <1>1 DEF Rows
<1>3. tx[t] \in TxState
  BY DEF Typed
<1>4. tx' = [tx EXCEPT ![t] = s]
  BY DEF Record, Typed
<1>5. tx[t].pc \in {"idle", "open"} /\ UNCHANGED <<audits, entries, checkpoints, reader, overlapped>>
  BY DEF Record
<1> HIDE DEF row, n
<1>6. /\ s \in TxState /\ s.pc = "read_head" /\ s.links = tx[t].links /\ s.rows = tx[t].rows \cup {row}
      /\ s.event = <<t, n>> /\ s.campus = c
  BY <1>1, <1>2, <1>3 DEF TxState
<1> HIDE DEF s
<1> QED
  BY <1>2, <1>4, <1>5, <1>6 DEF IsOf

LEMMA BackfillIs ==
  ASSUME Typed, NEW t \in Transactions, Backfill(t)
  PROVE  \E s \in TxState, row \in audits :
            /\ tx' = [tx EXCEPT ![t] = s]
            /\ s.pc = "read_head" /\ s.links = tx[t].links /\ s.rows = tx[t].rows
            /\ IsOf(row, s) /\ tx[t].pc \in {"idle", "open"}
            /\ UNCHANGED <<audits, entries, checkpoints, reader, overlapped>>
<1>1. PICK row \in audits :
        tx' = [tx EXCEPT ![t].pc = "read_head", ![t].event = row.event, ![t].campus = row.campus]
  BY DEF Backfill
<1> DEFINE s == [tx[t] EXCEPT !.pc = "read_head", !.event = row.event, !.campus = row.campus]
<1>2. tx[t] \in TxState /\ row.event \in Events /\ row.campus \in Campuses
  BY DEF Typed, Rows
<1>3. tx' = [tx EXCEPT ![t] = s]
  BY <1>1 DEF Typed
<1>4. tx[t].pc \in {"idle", "open"} /\ UNCHANGED <<audits, entries, checkpoints, reader, overlapped>>
  BY DEF Backfill
<1>5. /\ s \in TxState /\ s.pc = "read_head" /\ s.links = tx[t].links /\ s.rows = tx[t].rows
      /\ s.event = row.event /\ s.campus = row.campus
  BY <1>2 DEF TxState
<1> HIDE DEF s
<1> QED
  BY <1>3, <1>4, <1>5 DEF IsOf

LEMMA ReadHeadIs ==
  ASSUME Typed, NEW t \in Transactions, ReadHead(t)
  PROVE  \E s \in TxState :
            /\ tx' = [tx EXCEPT ![t] = s]
            /\ s.pc = "append" /\ s.links = tx[t].links /\ s.rows = tx[t].rows
            /\ s.event = tx[t].event /\ s.campus = tx[t].campus /\ tx[t].pc = "read_head"
            /\ \/ Heads(t) = {} /\ s.prev = <<>> /\ s.index = 0
               \/ \E e \in Heads(t) : s.prev = Hash(e) /\ s.index = e.index + 1
            /\ UNCHANGED <<audits, entries, checkpoints, reader>>
<1>1. tx[t] \in TxState /\ <<>> \in History
  BY DEF Typed, History
<1>2. tx[t].pc = "read_head" /\ UNCHANGED <<audits, entries, checkpoints, reader>>
  BY DEF ReadHead
<1>3. CASE Heads(t) = {}
  <2> DEFINE s == [tx[t] EXCEPT !.pc = "append", !.prev = <<>>, !.index = 0]
  <2>1. tx' = [tx EXCEPT ![t] = s]
    BY <1>3 DEF ReadHead, Typed
  <2>2. /\ s \in TxState /\ s.pc = "append" /\ s.links = tx[t].links /\ s.rows = tx[t].rows
        /\ s.event = tx[t].event /\ s.campus = tx[t].campus /\ s.prev = <<>> /\ s.index = 0
    BY <1>1 DEF TxState
  <2> HIDE DEF s
  <2> QED
    BY <1>2, <1>3, <2>1, <2>2
<1>4. CASE Heads(t) # {}
  <2>1. PICK e \in Heads(t) : tx' = [tx EXCEPT ![t].pc = "append", ![t].prev = Hash(e), ![t].index = e.index + 1]
    BY <1>4 DEF ReadHead
  <2>2. e \in Link
    BY <1>1 DEF Heads, Of, Visible, Typed, TxState
  <2>3. Hash(e) \in History /\ e.index + 1 \in Nat
    BY <2>2, HashIs DEF Link
  <2> DEFINE s == [tx[t] EXCEPT !.pc = "append", !.prev = Hash(e), !.index = e.index + 1]
  <2>4. tx' = [tx EXCEPT ![t] = s]
    BY <2>1 DEF Typed
  <2>5. /\ s \in TxState /\ s.pc = "append" /\ s.links = tx[t].links /\ s.rows = tx[t].rows
        /\ s.event = tx[t].event /\ s.campus = tx[t].campus /\ s.prev = Hash(e) /\ s.index = e.index + 1
    BY <1>1, <2>3 DEF TxState
  <2> HIDE DEF s
  <2> QED
    BY <1>2, <2>4, <2>5
<1> QED
  BY <1>3, <1>4

LEMMA AppendIs ==
  ASSUME Typed, NEW t \in Transactions, AppendEntry(t), tx[t].event \in Events, tx[t].campus \in Campuses
  PROVE  \E s \in TxState :
            /\ tx' = [tx EXCEPT ![t] = s]
            /\ s.rows = tx[t].rows /\ tx[t].pc = "append"
            /\ \/ /\ s.pc = "poisoned" /\ s.links = tx[t].links
                  /\ s.event = tx[t].event /\ s.campus = tx[t].campus
               \/ /\ s.pc = "open" /\ s.links = tx[t].links \cup {NewEntry(t)}
                  /\ NewEntry(t) \in Link
                  /\ \A f : Stands(f) => f.event # tx[t].event
            /\ UNCHANGED <<audits, entries, checkpoints, reader, overlapped>>
<1>1. tx[t] \in TxState
  BY DEF Typed
<1>2. tx[t].pc = "append" /\ UNCHANGED <<audits, entries, checkpoints, reader, overlapped>>
  BY DEF AppendEntry
<1>3. CASE Covers(Visible(t), tx[t].event)
  <2> DEFINE s == [tx[t] EXCEPT !.pc = "poisoned"]
  <2>1. tx' = [tx EXCEPT ![t] = s]
    BY <1>3 DEF AppendEntry, Typed
  <2>2. /\ s \in TxState /\ s.pc = "poisoned" /\ s.links = tx[t].links /\ s.rows = tx[t].rows
        /\ s.event = tx[t].event /\ s.campus = tx[t].campus
    BY <1>1 DEF TxState
  <2> HIDE DEF s
  <2> QED
    BY <1>2, <2>1, <2>2
<1>4. CASE ~Covers(Visible(t), tx[t].event)
  <2> DEFINE e == NewEntry(t)
             s == [tx[t] EXCEPT !.pc = "open", !.links = @ \cup {e}, !.event = NoEvent, !.campus = None]
  <2>1. tx' = [tx EXCEPT ![t] = s]
    BY <1>4 DEF AppendEntry, Typed
  <2>2. e \in Link
    BY <1>1 DEF NewEntry, Link, TxState
  <2>3. \A f : Stands(f) => f.event # tx[t].event
    BY <1>4 DEF AppendEntry, Covers, Visible, Stands
  <2> HIDE DEF e
  <2>4. /\ s \in TxState /\ s.pc = "open" /\ s.links = tx[t].links \cup {e} /\ s.rows = tx[t].rows
    BY <1>1, <2>2 DEF TxState
  <2> HIDE DEF s
  <2> QED
    BY <1>2, <2>1, <2>2, <2>3, <2>4 DEF e
<1> QED
  BY <1>3, <1>4
-----------------------------------------------------------------------------
LEMMA SoundGrows ==
  ASSUME NEW x, NEW A, NEW B, A \subseteq B, Sound(x, A)
  PROVE  Sound(x, B)
  BY DEF Sound

(* One transaction moves and commits nothing: all that can go wrong is     *)
(* with what it has staged.                                                *)
LEMMA StagingPreserves ==
  ASSUME AInv, NEW t \in Transactions, NEW s \in TxState, tx' = [tx EXCEPT ![t] = s],
         Sound(s, audits), UNCHANGED <<audits, entries>>,
         checkpoints' \subseteq Checkpoint, overlapped' \subseteq Campuses,
         \/ s.links \subseteq tx[t].links
         \/ \E x : s.links = tx[t].links \cup {x} /\ \A f : Stands(f) => f.event # x.event
  PROVE  AInv'
<1>1. Typed'
  BY DEF AInv, Typed
<1>2. \A u \in Transactions : tx'[u] = IF u = t THEN s ELSE tx[u]
  BY DEF AInv, Typed
<1>3. \A u \in Transactions : Sound(tx[u], audits)'
  <2> SUFFICES ASSUME NEW u \in Transactions PROVE Sound(tx[u], audits)'
    OBVIOUS
  <2>1. PICK y : y = tx'[u]
    OBVIOUS
  <2>2. PICK z : z = tx[u]
    OBVIOUS
  <2>3. Sound(z, audits)
    BY <2>2 DEF AInv
  <2>4. y = s \/ y = z
    BY <1>2, <2>1, <2>2
  <2>5. Sound(y, audits)
    BY <2>3, <2>4
  <2> QED
    BY <2>1, <2>5 DEF Sound, Owes, Covers
<1>4. CASE s.links \subseteq tx[t].links
  <2>1. \A e : Stands(e)' => Stands(e)
    BY <1>2, <1>4 DEF Stands
  <2> QED
    BY <1>1, <1>3, <2>1 DEF AInv, Covers
<1>5. ASSUME NEW x, s.links = tx[t].links \cup {x}, \A f : Stands(f) => f.event # x.event
      PROVE  AInv'
  <2>1. \A e : Stands(e)' => Stands(e) \/ e = x
    BY <1>2, <1>5 DEF Stands
  <2>2. ASSUME NEW e \in Link, NEW f \in Link, Stands(e)', Stands(f)', e.event = f.event
        PROVE  e = f
    BY <1>5, <2>1, <2>2 DEF AInv
  <2> QED
    BY <1>1, <1>3, <2>2 DEF AInv, Covers
<1> QED
  BY <1>4, <1>5

LEMMA UnchainedSound ==
  ASSUME AInv, NEW t \in Transactions, NEW c \in Campuses, RecordUnchained(t, c) PROVE AInv'
<1>1. Typed /\ Sound(tx[t], audits)
  BY DEF AInv
<1>2. PICK s \in TxState, row \in Rows :
            /\ tx' = [tx EXCEPT ![t] = s]
            /\ s.pc = "open" /\ s.links = tx[t].links /\ s.rows = tx[t].rows \cup {row}
            /\ ~row.chained /\ tx[t].pc \in {"idle", "open"}
            /\ UNCHANGED <<audits, entries, checkpoints, reader, overlapped>>
  BY <1>1, UnchainedIs
<1>3. PICK x : x = tx[t]
  OBVIOUS
<1>4. Sound(s, audits)
  BY <1>1, <1>2, <1>3 DEF Sound, Owes
<1> QED
  BY <1>1, <1>2, <1>4, StagingPreserves DEF Typed

LEMMA RecordSound ==
  ASSUME AInv, NEW t \in Transactions, NEW c \in Campuses, Record(t, c) PROVE AInv'
<1>1. Typed /\ Sound(tx[t], audits)
  BY DEF AInv
<1>2. PICK s \in TxState, row \in Rows :
            /\ tx' = [tx EXCEPT ![t] = s]
            /\ s.pc = "read_head" /\ s.links = tx[t].links /\ s.rows = tx[t].rows \cup {row}
            /\ IsOf(row, s) /\ tx[t].pc \in {"idle", "open"}
            /\ UNCHANGED <<audits, entries, checkpoints, reader, overlapped>>
  BY <1>1, RecordIs
<1>3. PICK x : x = tx[t]
  OBVIOUS
<1>4. s.event \in Events /\ s.campus \in Campuses
  BY <1>2 DEF IsOf, Rows
<1>5. Sound(s, audits)
  BY <1>1, <1>2, <1>3, <1>4 DEF Sound, Owes, IsOf
<1> QED
  BY <1>1, <1>2, <1>5, StagingPreserves DEF Typed

LEMMA BackfillSound ==
  ASSUME AInv, NEW t \in Transactions, Backfill(t) PROVE AInv'
<1>1. Typed /\ Sound(tx[t], audits)
  BY DEF AInv
<1>2. PICK s \in TxState, row \in audits :
            /\ tx' = [tx EXCEPT ![t] = s]
            /\ s.pc = "read_head" /\ s.links = tx[t].links /\ s.rows = tx[t].rows
            /\ IsOf(row, s) /\ tx[t].pc \in {"idle", "open"}
            /\ UNCHANGED <<audits, entries, checkpoints, reader, overlapped>>
  BY <1>1, BackfillIs
<1>3. PICK x : x = tx[t]
  OBVIOUS
<1>4. s.event \in Events /\ s.campus \in Campuses
  BY <1>1, <1>2 DEF IsOf, Rows, Typed
<1>5. Sound(s, audits)
  BY <1>1, <1>2, <1>3, <1>4 DEF Sound, Owes
<1> QED
  BY <1>1, <1>2, <1>5, StagingPreserves DEF Typed

LEMMA ReadHeadSound ==
  ASSUME AInv, NEW t \in Transactions, ReadHead(t) PROVE AInv'
<1>1. Typed /\ Sound(tx[t], audits)
  BY DEF AInv
<1>2. PICK s \in TxState :
            /\ tx' = [tx EXCEPT ![t] = s]
            /\ s.pc = "append" /\ s.links = tx[t].links /\ s.rows = tx[t].rows
            /\ s.event = tx[t].event /\ s.campus = tx[t].campus /\ tx[t].pc = "read_head"
            /\ \/ Heads(t) = {} /\ s.prev = <<>> /\ s.index = 0
               \/ \E e \in Heads(t) : s.prev = Hash(e) /\ s.index = e.index + 1
            /\ UNCHANGED <<audits, entries, checkpoints, reader>>
  BY <1>1, ReadHeadIs
<1>3. s.index = Len(s.prev)
  <2>1. ASSUME NEW e \in Heads(t) PROVE e.index + 1 = Len(Hash(e))
    <3>1. e \in entries \/ e \in tx[t].links
      BY <2>1 DEF Heads, Of, Visible
    <3>2. e \in Link
      BY <1>1, <3>1 DEF Typed, TxState
    <3>3. Placed(e)
      BY <1>1, <3>1 DEF AInv, Sound
    <3> QED
      BY <3>2, <3>3, HashIs DEF Placed
  <2> QED
    BY <1>2, <2>1
<1>4. PICK x : x = tx[t]
  OBVIOUS
<1>5. Sound(s, audits)
  BY <1>1, <1>2, <1>3, <1>4 DEF Sound, Owes, IsOf
<1>6. overlapped' \subseteq Campuses
  BY <1>1, <1>2 DEF ReadHead, Typed, Sound, Owes
<1> QED
  BY <1>1, <1>2, <1>5, <1>6, StagingPreserves DEF Typed

LEMMA AppendSound ==
  ASSUME AInv, NEW t \in Transactions, AppendEntry(t) PROVE AInv'
<1>1. Typed /\ Sound(tx[t], audits) /\ tx[t].pc = "append"
  BY DEF AInv, AppendEntry
<1>2. tx[t].event \in Events /\ tx[t].campus \in Campuses /\ tx[t].index = Len(tx[t].prev)
  BY <1>1 DEF Sound, Owes
<1>3. PICK s \in TxState :
            /\ tx' = [tx EXCEPT ![t] = s]
            /\ s.rows = tx[t].rows /\ tx[t].pc = "append"
            /\ \/ /\ s.pc = "poisoned" /\ s.links = tx[t].links
                  /\ s.event = tx[t].event /\ s.campus = tx[t].campus
               \/ /\ s.pc = "open" /\ s.links = tx[t].links \cup {NewEntry(t)}
                  /\ NewEntry(t) \in Link
                  /\ \A f : Stands(f) => f.event # tx[t].event
            /\ UNCHANGED <<audits, entries, checkpoints, reader, overlapped>>
  BY <1>1, <1>2, AppendIs
<1>4. PICK x : x = tx[t]
  OBVIOUS
<1>5. CASE s.pc = "poisoned" /\ s.links = x.links /\ s.event = x.event /\ s.campus = x.campus
  <2>1. Sound(s, audits)
    BY <1>1, <1>2, <1>3, <1>4, <1>5 DEF Sound, Owes, IsOf
  <2> QED
    BY <1>1, <1>3, <1>4, <1>5, <2>1, StagingPreserves DEF Typed
<1>6. CASE /\ s.pc = "open" /\ s.links = x.links \cup {NewEntry(t)} /\ NewEntry(t) \in Link
           /\ \A f : Stands(f) => f.event # x.event
  <2>1. PICK e : e = NewEntry(t)
    OBVIOUS
  <2>2. e.event = x.event /\ e.campus = x.campus /\ e.index = x.index /\ e.prev = x.prev
    BY <1>4, <2>1 DEF NewEntry
  <2>3. Placed(e) /\ \A row : IsOf(row, x) => IsOf(row, e)
    BY <1>2, <1>4, <2>2 DEF Placed, IsOf
  <2>4. IsFiniteSet(s.links)
    <3>1. IsFiniteSet(x.links)
      BY <1>1, <1>4 DEF Sound
    <3>2. IsFiniteSet(x.links \cup {NewEntry(t)})
      BY <3>1, FS_AddElement
    <3> QED
      BY <1>6, <3>2
  <2>5. s.links = x.links \cup {e} /\ s.rows = x.rows
    BY <1>3, <1>4, <1>6, <2>1
  <2>6. \A f \in s.links : Placed(f) /\ \E row \in audits \cup s.rows : IsOf(row, f)
    BY <1>1, <1>4, <2>3, <2>5 DEF Sound, Owes
  <2>7. \A row \in s.rows : row.chained => Covers(s.links, row.event)
    BY <1>1, <1>4, <2>2, <2>5 DEF Sound, Covers
  <2>8. Sound(s, audits)
    BY <1>6, <2>4, <2>6, <2>7 DEF Sound, Owes
  <2>9. s.links = tx[t].links \cup {e} /\ \A f : Stands(f) => f.event # e.event
    BY <1>4, <1>6, <2>2, <2>5
  <2> QED
    BY <1>1, <1>3, <2>8, <2>9, StagingPreserves DEF Typed
<1> QED
  BY <1>3, <1>4, <1>5, <1>6

LEMMA RollBackSound ==
  ASSUME AInv, NEW t \in Transactions, RollBack(t) PROVE AInv'
<1> DEFINE s == [Idle EXCEPT !.pc = "done"]
<1>1. s \in TxState /\ s.links = {} /\ s.rows = {} /\ s.pc = "done"
  BY DoneIs
<1>2. tx' = [tx EXCEPT ![t] = s] /\ UNCHANGED <<audits, entries, checkpoints, reader, overlapped>>
  BY DEF RollBack
<1> HIDE DEF s
<1>3. Sound(s, audits)
  BY <1>1, FS_EmptySet DEF Sound, Owes
<1> QED
  BY <1>1, <1>2, <1>3, StagingPreserves DEF AInv, Typed

LEMMA CommitSound ==
  ASSUME AInv, NEW t \in Transactions, Commit(t) PROVE AInv'
<1> DEFINE s == [Idle EXCEPT !.pc = "done"]
<1>1. s \in TxState /\ s.links = {} /\ s.rows = {} /\ s.pc = "done"
  BY DoneIs
<1>2. /\ tx' = [tx EXCEPT ![t] = s] /\ tx[t].pc = "open"
      /\ audits' = audits \cup tx[t].rows /\ entries' = entries \cup tx[t].links
      /\ UNCHANGED <<checkpoints, reader, overlapped>>
  BY DEF Commit
<1> HIDE DEF s
<1>3. Typed /\ Sound(tx[t], audits) /\ tx[t] \in TxState
  BY DEF AInv, Typed
<1>4. Typed'
  BY <1>1, <1>2, <1>3 DEF Typed, TxState
<1>5. \A u \in Transactions : tx'[u] = IF u = t THEN s ELSE tx[u]
  BY <1>2, <1>3 DEF Typed
<1>6. PICK B : B = audits'
  OBVIOUS
<1>7. \A u \in Transactions : Sound(tx[u], audits)'
  <2> SUFFICES ASSUME NEW u \in Transactions PROVE Sound(tx[u], audits)'
    OBVIOUS
  <2>1. PICK y : y = tx'[u]
    OBVIOUS
  <2>2. PICK z : z = tx[u]
    OBVIOUS
  <2>3. Sound(z, audits)
    BY <2>2 DEF AInv
  <2>4. Sound(z, B)
    BY <1>2, <1>6, <2>3 DEF Sound
  <2>5. Sound(s, B)
    BY <1>1, FS_EmptySet DEF Sound, Owes
  <2>6. Sound(y, B)
    BY <1>5, <2>1, <2>2, <2>4, <2>5
  <2> QED
    BY <1>6, <2>1, <2>6 DEF Sound, Owes, Covers
<1>8. IsFiniteSet(entries')
  BY <1>2, <1>3, FS_Union DEF AInv, Sound
<1>9. \A e \in entries' : Placed(e) /\ \E row \in audits' : IsOf(row, e)
  BY <1>2, <1>3 DEF AInv, Sound
<1>10. \A row \in audits' : row.chained => \E e \in entries' : e.event = row.event
  BY <1>2, <1>3 DEF AInv, Sound, Owes, Covers
<1>11. \A e : Stands(e)' => Stands(e)
  BY <1>1, <1>2, <1>5 DEF Stands
<1> QED
  BY <1>4, <1>7, <1>8, <1>9, <1>10, <1>11 DEF AInv, Covers
-----------------------------------------------------------------------------
(* What TakeCheckpoint signs.                                              *)
LEMMA CheckpointIs ==
  ASSUME Typed, IsFiniteSet(entries), NEW c \in Campuses, TakeCheckpoint(c)
  PROVE  \E s \in Orderings(Of(c, entries)), k \in Checkpoint :
            /\ k.campus = c /\ Of(c, entries) # {} /\ Len(s) # 0
            /\ k.upto = s[Len(s)].index /\ k.state = Hashes(s)
            /\ checkpoints' = checkpoints \cup {k}
            /\ UNCHANGED <<audits, entries, tx, reader, overlapped>>
<1>1. PICK S : S = Of(c, entries)
  OBVIOUS
<1>2. /\ S # {} /\ UNCHANGED <<audits, entries, tx, reader, overlapped>>
      /\ \E s \in Orderings(S) :
            checkpoints' = checkpoints \cup {[campus |-> c, upto |-> Last(s).index, state |-> Hashes(s)]}
  BY <1>1 DEF TakeCheckpoint, Of, Orderings, SetToSeqs
<1>3. PICK s \in Orderings(S) :
        checkpoints' = checkpoints \cup {[campus |-> c, upto |-> Last(s).index, state |-> Hashes(s)]}
  BY <1>2
<1>4. S \subseteq Link /\ IsFiniteSet(S)
  <2>1. S \subseteq entries
    BY <1>1 DEF Of
  <2> QED
    BY <2>1, FS_Subset DEF Typed
<1>5. /\ Len(s) \in Nat /\ DOMAIN s = 1 .. Len(s) /\ s \in [1 .. Len(s) -> S]
      /\ \A e \in S : \E i \in 1 .. Len(s) : s[i] = e
  BY <1>4, OrderingIs
<1>6. Len(s) # 0
  BY <1>2, <1>5
<1> DEFINE k == [campus |-> c, upto |-> Last(s).index, state |-> Hashes(s)]
<1>7. s[Len(s)] \in Link
  BY <1>4, <1>5, <1>6
<1>8. Hashes(s) \in Seq(History)
  <2>1. Hashes(s) = [i \in 1 .. Len(s) |-> Hash(s[i])]
    BY <1>5 DEF Hashes
  <2>2. \A i \in 1 .. Len(s) : Hash(s[i]) \in History
    BY <1>4, <1>5, HashIs
  <2> QED
    BY <1>5, <2>1, <2>2
<1>9. /\ k \in Checkpoint /\ k.campus = c /\ k.upto = s[Len(s)].index /\ k.state = Hashes(s)
      /\ checkpoints' = checkpoints \cup {k}
  BY <1>3, <1>7, <1>8 DEF Checkpoint, Link, Last
<1>10. s \in Orderings(Of(c, entries))
  BY <1>1 DEF Orderings, SetToSeqs, Of
<1> HIDE DEF k
<1> QED
  BY <1>1, <1>2, <1>6, <1>9, <1>10

LEMMA CheckpointSound ==
  ASSUME AInv, NEW c \in Campuses, TakeCheckpoint(c) PROVE AInv'
<1>1. Typed /\ IsFiniteSet(entries)
  BY DEF AInv
<1>2. checkpoints' \subseteq Checkpoint /\ UNCHANGED <<audits, entries, tx, overlapped>>
  BY <1>1, CheckpointIs DEF Typed
<1> QED
  BY <1>2 DEF AInv, Typed, Stands, Sound, Owes, Covers

LEMMA VerifyChanges == Verify => UNCHANGED <<audits, entries, checkpoints, tx, overlapped>>
  BY DEF Verify, StartVerify, ReadEntries, ReadCheckpoints, ReadRows, Judge

LEMMA QuietSound == ASSUME AInv, UNCHANGED <<audits, entries, checkpoints, tx, overlapped>> PROVE AInv'
  BY DEF AInv, Typed, Stands, Sound, Owes, Covers

LEMMA StepSound == AInv /\ [Next]_vars => AInv'
<1> SUFFICES ASSUME AInv, [Next]_vars PROVE AInv'
  OBVIOUS
<1>1. CASE UNCHANGED vars
  BY <1>1, QuietSound DEF vars
<1>2. ASSUME NEW t \in Transactions, Run(t) PROVE AInv'
  BY <1>2, UnchainedSound, RecordSound, BackfillSound, ReadHeadSound, AppendSound, RollBackSound, CommitSound
  DEF Run
<1>3. ASSUME NEW c \in Campuses, TakeCheckpoint(c) PROVE AInv'
  BY <1>3, CheckpointSound
<1>4. CASE Verify
  BY <1>4, VerifyChanges, QuietSound
<1> QED
  BY <1>1, <1>2, <1>3, <1>4 DEF Next

LEMMA SoundInvariance == Spec => []AInv
  BY InitSound, StepSound, PTL DEF Spec

(* Every reachable state is well typed.                                    *)
THEOREM TypeCorrect == Spec => []Typed
<1>1. AInv => Typed
  BY DEF AInv
<1> QED
  BY SoundInvariance, <1>1, PTL

(* A committed event that was recorded under a tenant has one entry in the *)
(* chain and no event has two, whatever backfills race for it.             *)
THEOREM OneEntry == Spec => []OneEntryPerEvent
<1>1. AInv => OneEntryPerEvent
  <2> SUFFICES ASSUME AInv, NEW row \in audits
               PROVE  LET n == Cardinality({e \in entries : e.event = row.event}) IN
                      IF row.chained THEN n = 1 ELSE n <= 1
    BY DEF OneEntryPerEvent
  <2> DEFINE E == {e \in entries : e.event = row.event}
  <2>1. \A e, f \in E : e = f
    BY DEF AInv, Typed, Stands
  <2>2. row.chained => E # {}
    BY DEF AInv, Covers
  <2>3. CASE E = {}
    <3>1. Cardinality(E) = 0
      BY <2>3, FS_EmptySet
    <3> QED
      BY <2>2, <2>3, <3>1
  <2>4. CASE E # {}
    <3>1. PICK e : E = {e}
      BY <2>1, <2>4
    <3>2. Cardinality(E) = 1
      BY <3>1, FS_Singleton
    <3> QED
      BY <3>2
  <2> QED
    BY <2>3, <2>4
<1> QED
  BY SoundInvariance, <1>1, PTL
-----------------------------------------------------------------------------
(* The chains of campus c: the committed one and what each transaction     *)
(* sees of it.                                                             *)
Views(c) == {Of(c, entries)} \cup {Of(c, Visible(t)) : t \in Transactions}

(* Campus c is appended to by one transaction at a time, everyone sees a   *)
(* chain, whoever is about to append does so at its end, and what was      *)
(* signed is part of it.                                                   *)
Whole(c) ==
    /\ \A t, u \in Transactions : c \in Touches(t) /\ c \in Touches(u) => t = u
    /\ \A S \in Views(c) : Chain(S)
    /\ \A t \in Transactions : tx[t].pc = "append" /\ tx[t].campus = c =>
          \A S, p : S = Of(c, Visible(t)) /\ p = tx[t].prev => Ends(p, S)
    /\ \A k \in Of(c, checkpoints) : \A S : S = Of(c, entries) => Signs(k, S)

(* The inductive invariant behind OnlyOverlapsFork.                        *)
FInv == AInv /\ \A c \in Campuses \ overlapped : Whole(c)

-----------------------------------------------------------------------------
LEMMA InitWhole == Init => FInv
<1> SUFFICES ASSUME Init PROVE FInv
  OBVIOUS
<1>1. /\ entries = {} /\ checkpoints = {} /\ tx = [t \in Transactions |-> Idle]
  BY DEF Init
<1>2. \A t \in Transactions : tx[t].links = {} /\ tx[t].pc = "idle"
  BY <1>1, IdleIs
<1> SUFFICES ASSUME NEW c \in Campuses PROVE Whole(c)
  BY InitSound DEF FInv
<1>3. \A S \in Views(c) : S = {}
  BY <1>1, <1>2 DEF Views, Of, Visible
<1>4. \A t \in Transactions : c \notin Touches(t)
  BY <1>2 DEF Touches
<1>5. Of(c, checkpoints) = {}
  BY <1>1 DEF Of
<1>6. \A S \in Views(c) : Chain(S)
  BY <1>3, NothingEnds
<1> QED
  BY <1>2, <1>4, <1>5, <1>6 DEF Whole

(* What is known of what a transaction sees.                               *)
LEMMA ViewIs ==
  ASSUME AInv, NEW t \in Transactions, NEW c \in Campuses, NEW S, S = Of(c, Visible(t))
  PROVE  /\ S \in SUBSET Link /\ \A f \in S : Placed(f)
         /\ \A e, f \in S : e.campus = f.campus
<1>1. \A f \in S : (f \in entries \/ f \in tx[t].links) /\ f.campus = c
  BY DEF Of, Visible
<1>2. tx[t] \in TxState /\ entries \subseteq Link
  BY DEF AInv, Typed
<1>3. \A f \in tx[t].links : Placed(f)
  BY DEF AInv, Sound
<1> QED
  BY <1>1, <1>2, <1>3 DEF AInv, TxState

(* A transaction that commits nothing, appends nothing and has read no     *)
(* head; it may lose what it has staged.                                   *)
LEMMA QuietWhole ==
  ASSUME AInv, NEW c \in Campuses, Whole(c), NEW t \in Transactions, NEW s \in TxState,
         tx' = [tx EXCEPT ![t] = s], UNCHANGED <<entries, checkpoints>>,
         s.links = tx[t].links \/ s.links = {}, s.pc # "append"
  PROVE  Whole(c)'
<1>1. \A u \in Transactions : tx'[u] = IF u = t THEN s ELSE tx[u]
  BY DEF AInv, Typed
<1>2. \A u \in Transactions : c \in Touches(u)' => c \in Touches(u)
  BY <1>1 DEF Touches
<1>3. \A u \in Transactions : Of(c, Visible(u))' = Of(c, Visible(u)) \/ Of(c, Visible(u))' = Of(c, entries)
  BY <1>1 DEF Of, Visible
<1>4. \A S \in Views(c)' : S \in Views(c)
  BY <1>3 DEF Views, Of
<1>5. ASSUME NEW u \in Transactions, tx'[u].pc = "append", tx'[u].campus = c, NEW S, NEW p,
             S = Of(c, Visible(u))', p = tx'[u].prev
      PROVE  Ends(p, S)
  <2>1. u # t /\ tx'[u] = tx[u]
    BY <1>1, <1>5
  <2>2. S = Of(c, Visible(u)) /\ p = tx[u].prev
    BY <1>5, <2>1 DEF Of, Visible
  <2> QED
    BY <1>5, <2>1, <2>2 DEF Whole
<1>6. ASSUME NEW k \in Of(c, checkpoints)', NEW S, S = Of(c, entries)' PROVE Signs(k, S)
  BY <1>6 DEF Whole, Of
<1> QED
  BY <1>2, <1>4, <1>5, <1>6 DEF Whole

LEMMA ReadHeadWhole ==
  ASSUME AInv, NEW c \in Campuses, Whole(c), NEW t \in Transactions, ReadHead(t), c \notin overlapped'
  PROVE  Whole(c)'
<1>1. Typed
  BY DEF AInv
<1>2. PICK s \in TxState :
            /\ tx' = [tx EXCEPT ![t] = s]
            /\ s.pc = "append" /\ s.links = tx[t].links /\ s.rows = tx[t].rows
            /\ s.event = tx[t].event /\ s.campus = tx[t].campus /\ tx[t].pc = "read_head"
            /\ \/ Heads(t) = {} /\ s.prev = <<>> /\ s.index = 0
               \/ \E e \in Heads(t) : s.prev = Hash(e) /\ s.index = e.index + 1
            /\ UNCHANGED <<audits, entries, checkpoints, reader>>
  BY <1>1, ReadHeadIs
<1>3. \A u \in Transactions : tx'[u] = IF u = t THEN s ELSE tx[u]
  BY <1>1, <1>2 DEF Typed
<1>4. \A u \in Transactions : u # t /\ s.campus = c => c \notin Touches(u)
  BY <1>2 DEF ReadHead
<1>5. \A u, v \in Transactions : c \in Touches(u)' /\ c \in Touches(v)' => u = v
  <2>1. \A u \in Transactions : c \in Touches(u)' => c \in Touches(u) \/ (u = t /\ s.campus = c)
    BY <1>2, <1>3 DEF Touches
  <2> QED
    BY <1>4, <2>1 DEF Whole
<1>6. \A u \in Transactions : Of(c, Visible(u))' = Of(c, Visible(u))
  BY <1>2, <1>3 DEF Of, Visible
<1>7. \A S \in Views(c)' : S \in Views(c)
  BY <1>2, <1>6 DEF Views, Of
<1>8. ASSUME NEW u \in Transactions, tx'[u].pc = "append", tx'[u].campus = c, NEW S, NEW p,
             S = Of(c, Visible(u))', p = tx'[u].prev
      PROVE  Ends(p, S)
  <2>1. S = Of(c, Visible(u)) /\ S \in Views(c)
    BY <1>6, <1>8 DEF Views
  <2>2. Chain(S) /\ S \in SUBSET Link /\ \A f \in S : Placed(f)
    BY <2>1, ViewIs DEF Whole
  <2>3. CASE u # t
    BY <1>3, <1>8, <2>1, <2>3 DEF Whole
  <2>4. CASE u = t
    <3>1. Heads(t) = {e \in S : \A f \in S : f.index <= e.index} /\ p = s.prev
      BY <1>2, <1>3, <1>8, <2>1, <2>4 DEF Heads
    <3>2. CASE S = {}
      BY <1>2, <3>1, <3>2, NothingEnds
    <3>3. CASE S # {}
      <4>1. Heads(t) # {}
        BY <2>2, <3>1, <3>3 DEF Chain
      <4>2. PICK e \in Heads(t) : s.prev = Hash(e)
        BY <1>2, <4>1
      <4>3. e \in S /\ \A f \in S : f.index <= e.index
        BY <3>1, <4>2
      <4>4. Ends(Hash(e), S)
        BY <2>2, <4>3, HeadEnds
      <4>5. p = Hash(e)
        BY <3>1, <4>2
      <4> QED
        BY <4>4, <4>5
    <3> QED
      BY <3>2, <3>3
  <2> QED
    BY <2>3, <2>4
<1>9. ASSUME NEW k \in Of(c, checkpoints)', NEW S, S = Of(c, entries)' PROVE Signs(k, S)
  BY <1>2, <1>9 DEF Whole, Of
<1> QED
  BY <1>5, <1>7, <1>8, <1>9 DEF Whole

LEMMA AppendWhole ==
  ASSUME AInv, NEW c \in Campuses, Whole(c), NEW t \in Transactions, AppendEntry(t)
  PROVE  Whole(c)'
<1>1. Typed /\ Sound(tx[t], audits) /\ tx[t].pc = "append"
  BY DEF AInv, AppendEntry
<1>2. tx[t].event \in Events /\ tx[t].campus \in Campuses /\ tx[t].index = Len(tx[t].prev)
  BY <1>1 DEF Sound, Owes
<1>3. PICK s \in TxState :
            /\ tx' = [tx EXCEPT ![t] = s]
            /\ s.rows = tx[t].rows /\ tx[t].pc = "append"
            /\ \/ /\ s.pc = "poisoned" /\ s.links = tx[t].links
                  /\ s.event = tx[t].event /\ s.campus = tx[t].campus
               \/ /\ s.pc = "open" /\ s.links = tx[t].links \cup {NewEntry(t)}
                  /\ NewEntry(t) \in Link
                  /\ \A f : Stands(f) => f.event # tx[t].event
            /\ UNCHANGED <<audits, entries, checkpoints, reader, overlapped>>
  BY <1>1, <1>2, AppendIs
<1>4. CASE s.pc = "poisoned" /\ s.links = tx[t].links
  BY <1>3, <1>4, QuietWhole
<1>5. CASE s.pc = "open" /\ s.links = tx[t].links \cup {NewEntry(t)} /\ NewEntry(t) \in Link
  <2>1. \A u \in Transactions : tx'[u] = IF u = t THEN s ELSE tx[u]
    BY <1>1, <1>3 DEF Typed
  <2>2. PICK e \in Link : e = NewEntry(t)
    BY <1>5
  <2>3. e.campus = tx[t].campus /\ e.index = tx[t].index /\ e.prev = tx[t].prev /\ Placed(e)
    BY <1>2, <2>2 DEF NewEntry, Placed
  <2>4. \A u \in Transactions : c \in Touches(u)' => c \in Touches(u)
    BY <1>1, <1>5, <2>1, <2>2, <2>3 DEF Touches
  <2>5. \A u \in Transactions : u # t => Of(c, Visible(u))' = Of(c, Visible(u))
    BY <1>3, <2>1 DEF Of, Visible
  <2>6. PICK T : T = Of(c, Visible(t))
    OBVIOUS
  <2>7. Of(c, Visible(t))' = IF e.campus = c THEN T \cup {e} ELSE T
    BY <1>3, <1>5, <2>1, <2>2, <2>6 DEF Of, Visible
  <2>8. Chain(T) /\ T \in SUBSET Link /\ \A f \in T : Placed(f)
    BY <2>6, ViewIs DEF Whole, Views
  <2>9. e.campus = c => Chain(T \cup {e})
    <3> SUFFICES ASSUME e.campus = c PROVE Chain(T \cup {e})
      OBVIOUS
    <3>1. Ends(e.prev, T)
      BY <1>1, <2>3, <2>6 DEF Whole
    <3> QED
      BY <2>3, <2>8, <3>1, ChainGrows
  <2>10. ASSUME NEW S \in Views(c)' PROVE Chain(S)
    <3>1. S \in Views(c) \/ S = Of(c, Visible(t))'
      BY <1>3, <2>5, <2>10 DEF Views, Of
    <3>2. CASE S \in Views(c)
      BY <3>2 DEF Whole
    <3>3. CASE S = Of(c, Visible(t))'
      <4>1. S = T \/ (e.campus = c /\ S = T \cup {e})
        BY <2>7, <3>3
      <4> QED
        BY <2>8, <2>9, <4>1
    <3> QED
      BY <3>1, <3>2, <3>3
  <2>11. ASSUME NEW u \in Transactions, tx'[u].pc = "append", tx'[u].campus = c, NEW S, NEW p,
                S = Of(c, Visible(u))', p = tx'[u].prev
         PROVE  Ends(p, S)
    <3>1. u # t /\ tx'[u] = tx[u]
      BY <1>5, <2>1, <2>11
    <3>2. S = Of(c, Visible(u)) /\ p = tx[u].prev
      BY <2>5, <2>11, <3>1
    <3> QED
      BY <2>11, <3>1, <3>2 DEF Whole
  <2>12. ASSUME NEW k \in Of(c, checkpoints)', NEW S, S = Of(c, entries)' PROVE Signs(k, S)
    BY <1>3, <2>12 DEF Whole, Of
  <2> QED
    BY <2>4, <2>10, <2>11, <2>12 DEF Whole
<1> QED
  BY <1>3, <1>4, <1>5

LEMMA CommitWhole ==
  ASSUME AInv, NEW c \in Campuses, Whole(c), NEW t \in Transactions, Commit(t)
  PROVE  Whole(c)'
<1> DEFINE s == [Idle EXCEPT !.pc = "done"]
<1>1. s \in TxState /\ s.links = {} /\ s.rows = {} /\ s.pc = "done"
  BY DoneIs
<1>2. /\ tx' = [tx EXCEPT ![t] = s]
      /\ entries' = entries \cup tx[t].links /\ checkpoints' = checkpoints
  BY DEF Commit
<1> HIDE DEF s
<1>3. \A u \in Transactions : tx'[u] = IF u = t THEN s ELSE tx[u]
  BY <1>2 DEF AInv, Typed
<1>4. \A u \in Transactions : c \in Touches(u)' => c \in Touches(u) /\ u # t
  BY <1>1, <1>3 DEF Touches
<1>5. Of(c, entries)' = Of(c, Visible(t)) /\ Of(c, Visible(t))' = Of(c, Visible(t))
  BY <1>1, <1>2, <1>3 DEF Of, Visible
<1>6. CASE c \in Touches(t)
  <2>1. \A u \in Transactions : u # t => c \notin Touches(u)
    BY <1>6 DEF Whole
  <2>2. \A u \in Transactions : u # t => Of(c, Visible(u))' = Of(c, Visible(t))
    <3> SUFFICES ASSUME NEW u \in Transactions, u # t PROVE Of(c, Visible(u))' = Of(c, Visible(t))
      OBVIOUS
    <3>1. \A f \in tx[u].links : f.campus # c
      BY <2>1 DEF Touches
    <3>2. tx'[u] = tx[u]
      BY <1>3
    <3> QED
      BY <1>2, <3>1, <3>2 DEF Of, Visible
  <2>3. \A S \in Views(c)' : S \in Views(c)
    BY <1>5, <2>2 DEF Views
  <2>4. \A u \in Transactions : ~(tx'[u].pc = "append" /\ tx'[u].campus = c)
    BY <1>1, <1>3, <2>1 DEF Touches
  <2>5. ASSUME NEW k \in Of(c, checkpoints)', NEW S, S = Of(c, entries)' PROVE Signs(k, S)
    <3>1. PICK T : T = Of(c, entries)
      OBVIOUS
    <3>2. T \subseteq S /\ Signs(k, T)
      BY <1>2, <2>5, <3>1 DEF Whole, Of
    <3> QED
      BY <3>2 DEF Signs
  <2> QED
    BY <1>4, <2>3, <2>4, <2>5 DEF Whole
<1>7. CASE c \notin Touches(t)
  <2>1. \A f \in tx[t].links : f.campus # c
    BY <1>7 DEF Touches
  <2>2. Of(c, entries)' = Of(c, entries)
    BY <1>2, <2>1 DEF Of
  <2>3. \A u \in Transactions : Of(c, Visible(u))' = Of(c, Visible(u))
    <3> SUFFICES ASSUME NEW u \in Transactions PROVE Of(c, Visible(u))' = Of(c, Visible(u))
      OBVIOUS
    <3>1. CASE u = t
      BY <1>5, <3>1
    <3>2. CASE u # t
      <4>1. tx'[u] = tx[u]
        BY <1>3, <3>2
      <4> QED
        BY <1>2, <2>1, <4>1 DEF Of, Visible
    <3> QED
      BY <3>1, <3>2
  <2>4. \A S \in Views(c)' : S \in Views(c)
    BY <2>2, <2>3 DEF Views
  <2>5. ASSUME NEW u \in Transactions, tx'[u].pc = "append", tx'[u].campus = c, NEW S, NEW p,
               S = Of(c, Visible(u))', p = tx'[u].prev
        PROVE  Ends(p, S)
    <3>1. u # t /\ tx'[u] = tx[u]
      BY <1>1, <1>3, <2>5
    <3>2. S = Of(c, Visible(u)) /\ p = tx[u].prev
      BY <2>3, <2>5, <3>1
    <3> QED
      BY <2>5, <3>1, <3>2 DEF Whole
  <2>6. ASSUME NEW k \in Of(c, checkpoints)', NEW S, S = Of(c, entries)' PROVE Signs(k, S)
    <3>1. S = Of(c, entries) /\ k \in Of(c, checkpoints)
      BY <1>2, <2>2, <2>6 DEF Of
    <3> QED
      BY <3>1 DEF Whole
  <2> QED
    BY <1>4, <2>4, <2>5, <2>6 DEF Whole
<1> QED
  BY <1>6, <1>7
-----------------------------------------------------------------------------
(* What is known of the committed entries of a campus.                     *)
LEMMA CommittedIs ==
  ASSUME AInv, NEW c \in Campuses, NEW S, S = Of(c, entries)
  PROVE  /\ S \in SUBSET Link /\ IsFiniteSet(S) /\ \A f \in S : Placed(f)
         /\ \A e, f \in S : e.campus = f.campus
         /\ \A e \in S : \E row \in Of(c, audits) : row.event = e.event
<1>1. S \subseteq entries /\ \A e \in S : e.campus = c
  BY DEF Of
<1>2. IsFiniteSet(S)
  BY <1>1, FS_Subset DEF AInv
<1>3. \A e \in S : \E row \in Of(c, audits) : row.event = e.event
  BY <1>1 DEF AInv, IsOf, Of
<1> QED
  BY <1>1, <1>2, <1>3 DEF AInv, Typed

LEMMA CheckpointWhole ==
  ASSUME AInv, NEW c \in Campuses, Whole(c), NEW d \in Campuses, TakeCheckpoint(d)
  PROVE  Whole(c)'
<1>1. Typed /\ IsFiniteSet(entries)
  BY DEF AInv
<1>2. PICK s \in Orderings(Of(d, entries)), k \in Checkpoint :
            /\ k.campus = d /\ Of(d, entries) # {} /\ Len(s) # 0
            /\ k.upto = s[Len(s)].index /\ k.state = Hashes(s)
            /\ checkpoints' = checkpoints \cup {k}
            /\ UNCHANGED <<audits, entries, tx, reader, overlapped>>
  BY <1>1, CheckpointIs
<1>3. PICK S : S = Of(c, entries)
  OBVIOUS
<1>4. d = c => Signs(k, S)
  <2> SUFFICES ASSUME d = c PROVE Signs(k, S)
    OBVIOUS
  <2>1. S \in SUBSET Link /\ IsFiniteSet(S) /\ (\A f \in S : Placed(f)) /\ \A e, f \in S : e.campus = f.campus
    BY <1>3, CommittedIs
  <2>2. Chain(S) /\ s \in Orderings(S)
    BY <1>2, <1>3 DEF Whole, Views, Orderings, SetToSeqs
  <2>3. /\ Len(s) \in Nat /\ DOMAIN s = 1 .. Len(s) /\ s \in Seq(S)
        /\ \A e \in S : \E i \in 1 .. Len(s) : s[i] = e
    BY <2>1, <2>2, OrderingIs
  <2>4. Straight(s)
    BY <2>1, <2>2, ChainIsStraight
  <2>5. Len(s) \in 1 .. Len(s) /\ k.upto = Len(s) - 1
    BY <1>2, <2>3, <2>4 DEF Straight
  <2>6. Hashes(s) \in Seq(History) /\ Len(Hashes(s)) = Len(s)
    BY <1>2, <2>3 DEF Checkpoint, Hashes
  <2>7. k.upto < Len(s) /\ k.upto + 1 = Len(s)
    BY <2>3, <2>5
  <2>8. k.state = SubSeq(Hashes(s), 1, k.upto + 1)
    BY <1>2, <2>6, <2>7, SubSeqFull
  <2> QED
    BY <2>1, <2>3, <2>4, <2>7, <2>8, StraightSigns
<1>5. ASSUME NEW h \in Of(c, checkpoints)', NEW T, T = Of(c, entries)' PROVE Signs(h, T)
  <2>1. T = S
    BY <1>2, <1>3, <1>5 DEF Of
  <2>2. h \in Of(c, checkpoints) \/ (h = k /\ d = c)
    BY <1>2, <1>5 DEF Of
  <2> QED
    BY <1>3, <1>4, <2>1, <2>2 DEF Whole
<1>6. \A u \in Transactions : Of(c, Visible(u))' = Of(c, Visible(u)) /\ Touches(u)' = Touches(u)
  BY <1>2 DEF Of, Visible, Touches
<1>7. \A T \in Views(c)' : T \in Views(c)
  BY <1>2, <1>6 DEF Views, Of
<1>8. ASSUME NEW u \in Transactions, tx'[u].pc = "append", tx'[u].campus = c, NEW T, NEW p,
             T = Of(c, Visible(u))', p = tx'[u].prev
      PROVE  Ends(p, T)
  <2>1. tx'[u] = tx[u] /\ T = Of(c, Visible(u)) /\ p = tx[u].prev
    BY <1>2, <1>6, <1>8
  <2> QED
    BY <1>8, <2>1 DEF Whole
<1>9. \A t, u \in Transactions : c \in Touches(t)' /\ c \in Touches(u)' => t = u
  BY <1>6 DEF Whole
<1> QED
  BY <1>5, <1>7, <1>8, <1>9 DEF Whole

LEMMA UnchangedWhole ==
  ASSUME NEW c \in Campuses, Whole(c), UNCHANGED <<entries, checkpoints, tx>>
  PROVE  Whole(c)'
<1>1. Views(c)' = Views(c) /\ Of(c, entries)' = Of(c, entries) /\ Of(c, checkpoints)' = Of(c, checkpoints)
  BY DEF Views, Of, Visible
<1>2. \A u \in Transactions : Of(c, Visible(u))' = Of(c, Visible(u)) /\ Touches(u)' = Touches(u)
  BY DEF Of, Visible, Touches
<1>3. ASSUME NEW u \in Transactions, tx'[u].pc = "append", tx'[u].campus = c, NEW T, NEW p,
             T = Of(c, Visible(u))', p = tx'[u].prev
      PROVE  Ends(p, T)
  <2>1. tx'[u] = tx[u] /\ T = Of(c, Visible(u)) /\ p = tx[u].prev
    BY <1>2, <1>3
  <2> QED
    BY <1>3, <2>1 DEF Whole
<1>4. \A t, u \in Transactions : c \in Touches(t)' /\ c \in Touches(u)' => t = u
  BY <1>2 DEF Whole
<1>5. \A k \in Of(c, checkpoints)' : \A S : S = Of(c, entries)' => Signs(k, S)
  BY <1>1 DEF Whole
<1>6. \A S \in Views(c)' : Chain(S)
  BY <1>1 DEF Whole
<1> QED
  BY <1>3, <1>4, <1>5, <1>6 DEF Whole

LEMMA StepWhole == FInv /\ [Next]_vars => FInv'
<1> SUFFICES ASSUME FInv, [Next]_vars PROVE FInv'
  OBVIOUS
<1>1. AInv /\ AInv' /\ Typed
  BY StepSound DEF FInv, AInv
<1>2. overlapped \subseteq overlapped'
  BY DEF Next, Run, Verify, vars, Record, RecordUnchained, Backfill, ReadHead, AppendEntry, Commit, RollBack,
         TakeCheckpoint, StartVerify, ReadEntries, ReadCheckpoints, ReadRows, Judge
<1> SUFFICES ASSUME NEW c \in Campuses, c \notin overlapped' PROVE Whole(c)'
  BY <1>1 DEF FInv
<1>3. Whole(c)
  BY <1>2 DEF FInv
<1>4. CASE UNCHANGED vars
  BY <1>3, <1>4, UnchangedWhole DEF vars
<1>5. CASE Verify
  BY <1>3, <1>5, VerifyChanges, UnchangedWhole
<1>6. ASSUME NEW d \in Campuses, TakeCheckpoint(d) PROVE Whole(c)'
  BY <1>1, <1>3, <1>6, CheckpointWhole
<1>7. ASSUME NEW t \in Transactions, NEW d \in Campuses, RecordUnchained(t, d) PROVE Whole(c)'
  <2>1. \E s \in TxState : /\ tx' = [tx EXCEPT ![t] = s] /\ s.pc = "open" /\ s.links = tx[t].links
                           /\ UNCHANGED <<entries, checkpoints>>
    BY <1>1, <1>7, UnchainedIs
  <2> QED
    BY <1>1, <1>3, <2>1, QuietWhole
<1>8. ASSUME NEW t \in Transactions, NEW d \in Campuses, Record(t, d) PROVE Whole(c)'
  <2>1. \E s \in TxState : /\ tx' = [tx EXCEPT ![t] = s] /\ s.pc = "read_head" /\ s.links = tx[t].links
                           /\ UNCHANGED <<entries, checkpoints>>
    BY <1>1, <1>8, RecordIs
  <2> QED
    BY <1>1, <1>3, <2>1, QuietWhole
<1>9. ASSUME NEW t \in Transactions, Backfill(t) PROVE Whole(c)'
  <2>1. \E s \in TxState : /\ tx' = [tx EXCEPT ![t] = s] /\ s.pc = "read_head" /\ s.links = tx[t].links
                           /\ UNCHANGED <<entries, checkpoints>>
    BY <1>1, <1>9, BackfillIs
  <2> QED
    BY <1>1, <1>3, <2>1, QuietWhole
<1>10. ASSUME NEW t \in Transactions, RollBack(t) PROVE Whole(c)'
  <2>1. \E s \in TxState : /\ tx' = [tx EXCEPT ![t] = s] /\ s.pc = "done" /\ s.links = {}
                           /\ UNCHANGED <<entries, checkpoints>>
    BY <1>10, DoneIs DEF RollBack
  <2> QED
    BY <1>1, <1>3, <2>1, QuietWhole
<1>11. ASSUME NEW t \in Transactions, Run(t) PROVE Whole(c)'
  BY <1>1, <1>3, <1>7, <1>8, <1>9, <1>10, <1>11, ReadHeadWhole, AppendWhole, CommitWhole DEF Run
<1> QED
  BY <1>4, <1>5, <1>6, <1>11 DEF Next

LEMMA WholeInvariance == Spec => []FInv
  BY InitWhole, StepWhole, PTL DEF Spec

-----------------------------------------------------------------------------
(* Intact, in the terms of the proofs.                                     *)
LEMMA IntactIs ==
  ASSUME AInv, NEW c \in Campuses, NEW S, S = Of(c, entries)
  PROVE  Intact(c) <=>
            /\ \A e, f \in S : IsPrefix(Hash(e), Hash(f)) \/ IsPrefix(Hash(f), Hash(e))
            /\ \A e \in S : \A n \in 1 .. e.index : \E f \in S : Hash(f) = SubSeq(e.prev, 1, n)
            /\ \A k \in Of(c, checkpoints) : Signs(k, S)
<1>1. \A e \in S : e.index = Len(e.prev)
  BY CommittedIs DEF Placed
<1>2. ASSUME NEW k
      PROVE  Signs(k, S) <=>
                /\ Len(k.state) = k.upto + 1
                /\ \E e \in {f \in S : f.index = k.upto} :
                      \A n \in 1 .. Len(k.state) : k.state[n] = SubSeq(Hash(e), 1, n)
  BY DEF Signs
<1> QED
  BY <1>1, <1>2 DEF Intact

(* A chain breaks only where two transactions append to it at one time.    *)
THEOREM OverlapsAloneFork == Spec => []OnlyOverlapsFork
<1>1. FInv => OnlyOverlapsFork
  <2> SUFFICES ASSUME FInv, NEW c \in Campuses \ overlapped PROVE Intact(c)
    BY DEF OnlyOverlapsFork
  <2>1. PICK S : S = Of(c, entries)
    OBVIOUS
  <2>2. AInv /\ Whole(c)
    BY DEF FInv
  <2>3. Chain(S) /\ \A k \in Of(c, checkpoints) : Signs(k, S)
    BY <2>1, <2>2 DEF Whole, Views
  <2> QED
    BY <2>1, <2>2, <2>3, IntactIs DEF Chain
<1> QED
  BY WholeInvariance, <1>1, PTL
-----------------------------------------------------------------------------
(* On what is committed the verdict is whether the chain is intact, in     *)
(* whatever order entries of one index were listed.                        *)
LEMMA VerdictIs ==
  ASSUME AInv, NEW c \in Campuses, NEW S, S = Of(c, entries), NEW s \in Orderings(S),
         NEW K, K = Of(c, checkpoints), NEW A, A = Of(c, audits)
  PROVE  Verdict(s, K, A) <=> Intact(c)
<1>1. /\ S \in SUBSET Link /\ IsFiniteSet(S) /\ \A f \in S : Placed(f)
      /\ \A e, f \in S : e.campus = f.campus
      /\ \A e \in S : \E row \in A : row.event = e.event
  BY CommittedIs
<1>2. /\ Len(s) \in Nat /\ DOMAIN s = 1 .. Len(s) /\ s \in Seq(S) /\ s \in [1 .. Len(s) -> S]
      /\ \A e \in S : \E i \in 1 .. Len(s) : s[i] = e
      /\ \A i, j \in 1 .. Len(s) : i < j => s[i].index <= s[j].index
  BY <1>1, OrderingIs
<1>3. K \subseteq Checkpoint
  BY DEF Of, AInv, Typed
<1>4. Verdict(s, K, A) <=>
        /\ Straight(s)
        /\ \A k \in K : k.upto < Len(s) /\ k.state = SubSeq(Hashes(s), 1, k.upto + 1)
  <2>1. \A i \in DOMAIN s : \E row \in A : row.event = s[i].event
    BY <1>1, <1>2
  <2> QED
    BY <2>1 DEF Verdict, Straight
<1>5. Straight(s) => \A k \in K :
        (k.upto < Len(s) /\ k.state = SubSeq(Hashes(s), 1, k.upto + 1)) <=> Signs(k, S)
  BY <1>1, <1>2, <1>3, StraightSigns
<1>6. ASSUME Verdict(s, K, A) PROVE Intact(c)
  <2>1. Straight(s) /\ \A k \in K : Signs(k, S)
    BY <1>4, <1>5, <1>6
  <2>2. Chain(S)
    BY <1>1, <1>2, <2>1, StraightIsChain
  <2> QED
    BY <2>1, <2>2, IntactIs DEF Chain
<1>7. ASSUME Intact(c) PROVE Verdict(s, K, A)
  <2>1. /\ \A e, f \in S : IsPrefix(Hash(e), Hash(f)) \/ IsPrefix(Hash(f), Hash(e))
        /\ \A e \in S : \A n \in 1 .. e.index : \E f \in S : Hash(f) = SubSeq(e.prev, 1, n)
        /\ \A k \in K : Signs(k, S)
    BY <1>7, IntactIs
  <2>2. S # {} => \E e \in S : \A f \in S : f.index <= e.index
    <3> SUFFICES ASSUME S # {} PROVE \A f \in S : f.index <= s[Len(s)].index
      BY <1>2
    <3> SUFFICES ASSUME NEW f \in S PROVE f.index <= s[Len(s)].index
      OBVIOUS
    <3>1. PICK i \in 1 .. Len(s) : s[i] = f
      BY <1>2
    <3>2. i < Len(s) \/ i = Len(s)
      <4>1. Len(s) \in Nat /\ i \in 1 .. Len(s)
        BY <1>2
      <4> QED
        BY ONLY <4>1
    <3>3. f.index \in Nat
      BY <1>1 DEF Link
    <3>4. Len(s) \in 1 .. Len(s)
      BY <1>2, <3>1
    <3>5. i < Len(s) => s[i].index <= s[Len(s)].index
      BY <1>2, <3>1, <3>4
    <3> QED
      BY <3>1, <3>2, <3>3, <3>5
  <2>3. Chain(S)
    BY ONLY <2>1, <2>2 DEF Chain
  <2>4. Straight(s)
    BY <1>1, <2>3, ChainIsStraight
  <2> QED
    BY <1>4, <1>5, <2>1, <2>4
<1> QED
  BY <1>6, <1>7

-----------------------------------------------------------------------------
Snapshots == (SUBSET Link) \X (SUBSET Checkpoint) \X (SUBSET Rows)

ReaderState ==
    [pc : {"idle", "script_entries", "checkpoints", "script_checkpoints", "rows", "judge", "done"},
     campus : Campuses \cup {None}, entries : SUBSET Link, checkpoints : SUBSET Checkpoint,
     rows : SUBSET Rows, start : {<<>>} \cup Snapshots, ok : BOOLEAN]

(* What the verification has read was committed when it read it, and had   *)
(* been already when it began if it had been by then.                      *)
Read(x) ==
    /\ x.campus \in Campuses
    /\ x.start \in Snapshots
    /\ x.start[1] \subseteq Of(x.campus, entries)
    /\ x.start[2] \subseteq Of(x.campus, checkpoints)
    /\ x.start[3] \subseteq Of(x.campus, audits)
    /\ x.pc \in {"checkpoints", "rows", "script_checkpoints", "judge", "done"} =>
          x.start[1] \subseteq x.entries /\ x.entries \subseteq Of(x.campus, entries)
    /\ x.pc \in {"rows", "judge", "done"} =>
          x.start[2] \subseteq x.checkpoints /\ x.checkpoints \subseteq Of(x.campus, checkpoints)
    /\ x.pc \in {"script_entries", "script_checkpoints", "judge", "done"} =>
          x.start[3] \subseteq x.rows /\ x.rows \subseteq Of(x.campus, audits)
    /\ x.pc = "done" =>
          \E s \in Orderings(x.entries) : x.ok <=> Verdict(s, x.checkpoints, x.rows)

(* The inductive invariant behind QuietVerdictIsRight.                     *)
VInv ==
    /\ AInv
    /\ reader \in ReaderState
    /\ reader.pc # "idle" => \A x : x = reader => Read(x)

LEMMA InitReads == Init => VInv
<1>1. Asleep \in ReaderState /\ Asleep.pc = "idle"
  BY DEF Asleep, ReaderState
<1> QED
  BY <1>1, InitSound DEF Init, VInv

(* The committed sets only grow.                                           *)
LEMMA Grows ==
  ASSUME AInv, [Next]_vars
  PROVE  audits \subseteq audits' /\ entries \subseteq entries' /\ checkpoints \subseteq checkpoints'
<1>1. ASSUME NEW c \in Campuses, TakeCheckpoint(c) PROVE UNCHANGED <<audits, entries>> /\ checkpoints \subseteq checkpoints'
  BY <1>1, CheckpointIs DEF AInv
<1> QED
  BY <1>1, VerifyChanges DEF Next, vars, Run, Record, RecordUnchained, Backfill, ReadHead, AppendEntry, Commit, RollBack

LEMMA ReadGrows ==
  ASSUME NEW x, Read(x),
         audits \subseteq audits', entries \subseteq entries', checkpoints \subseteq checkpoints'
  PROVE  Read(x)'
<1>1. /\ Of(x.campus, entries) \subseteq Of(x.campus, entries)'
      /\ Of(x.campus, checkpoints) \subseteq Of(x.campus, checkpoints)'
      /\ Of(x.campus, audits) \subseteq Of(x.campus, audits)'
  BY DEF Of
<1> QED
  BY <1>1 DEF Read

(* The verification starts, or reads on: what it has read is committed.    *)
LEMMA ReadsOn ==
  ASSUME AInv', NEW x \in ReaderState, reader' = x, Read(x)'
  PROVE  VInv'
<1>1. ASSUME NEW y, y = reader' PROVE Read(y)'
  <2>1. y = x
    BY <1>1
  <2> QED
    BY <2>1
<1> QED
  BY <1>1 DEF VInv

LEMMA SnapshotIs ==
  ASSUME NEW E \in SUBSET Link, NEW K \in SUBSET Checkpoint, NEW A \in SUBSET Rows
  PROVE  <<E, K, A>> \in Snapshots /\ <<E, K, A>>[1] = E /\ <<E, K, A>>[2] = K /\ <<E, K, A>>[3] = A
  BY DEF Snapshots

LEMMA StartReads ==
  ASSUME VInv, NEW c \in Campuses, NEW script \in Scripts, StartVerify(c, script), AInv'
  PROVE  VInv'
<1>1. /\ script \in BOOLEAN /\ UNCHANGED <<audits, entries, checkpoints, tx, overlapped>>
      /\ reader' = [Asleep EXCEPT !.campus = c, !.start = Snapshot(c),
                     !.pc = IF script THEN "script_entries" ELSE "checkpoints",
                     !.rows = IF script THEN Of(c, audits) ELSE {},
                     !.entries = IF script THEN {} ELSE Of(c, entries)]
  BY ChainAssumption DEF StartVerify
<1>2. PICK E : E = Of(c, entries)
  OBVIOUS
<1>3. PICK K : K = Of(c, checkpoints)
  OBVIOUS
<1>4. PICK A : A = Of(c, audits)
  OBVIOUS
<1>5. E \in SUBSET Link /\ K \in SUBSET Checkpoint /\ A \in SUBSET Rows
  BY <1>2, <1>3, <1>4 DEF Of, VInv, AInv, Typed
<1>6. <<E, K, A>> \in Snapshots /\ <<E, K, A>>[1] = E /\ <<E, K, A>>[2] = K /\ <<E, K, A>>[3] = A
  BY <1>5, SnapshotIs
<1>7. Snapshot(c) = <<E, K, A>>
  BY <1>2, <1>3, <1>4 DEF Snapshot
<1>8. E = Of(c, entries') /\ K = Of(c, checkpoints') /\ A = Of(c, audits')
  BY <1>1, <1>2, <1>3, <1>4 DEF Of
<1>9. CASE script
  <2> DEFINE x == [pc |-> "script_entries", campus |-> c, entries |-> {}, checkpoints |-> {}, rows |-> A,
                   start |-> <<E, K, A>>, ok |-> TRUE]
  <2>1. reader' = x
    BY <1>1, <1>4, <1>7, <1>9 DEF Asleep
  <2>2. x \in ReaderState
    BY <1>5, <1>6 DEF ReaderState
  <2>3. /\ x.pc = "script_entries" /\ x.campus = c /\ x.start = <<E, K, A>> /\ x.rows = A
    OBVIOUS
  <2> HIDE DEF x
  <2>4. Read(x)'
    BY <1>6, <1>8, <2>3 DEF Read, Of
  <2> QED
    BY <2>1, <2>2, <2>4, ReadsOn
<1>10. CASE ~script
  <2> DEFINE x == [pc |-> "checkpoints", campus |-> c, entries |-> E, checkpoints |-> {}, rows |-> {},
                   start |-> <<E, K, A>>, ok |-> TRUE]
  <2>1. reader' = x
    BY <1>1, <1>2, <1>7, <1>10 DEF Asleep
  <2>2. x \in ReaderState
    BY <1>5, <1>6 DEF ReaderState
  <2>3. /\ x.pc = "checkpoints" /\ x.campus = c /\ x.start = <<E, K, A>> /\ x.entries = E
    OBVIOUS
  <2> HIDE DEF x
  <2>4. Read(x)'
    BY <1>6, <1>8, <2>3 DEF Read, Of
  <2> QED
    BY <2>1, <2>2, <2>4, ReadsOn
<1> QED
  BY <1>9, <1>10

(* The reader moves on from what it has read.                              *)
LEMMA ReaderIs ==
  ASSUME VInv, reader.pc # "idle"
  PROVE  \E x \in ReaderState : x = reader /\ Read(x)
  BY DEF VInv

LEMMA EntriesRead ==
  ASSUME VInv, ReadEntries, AInv' PROVE VInv'
<1>1. /\ reader.pc = "script_entries" /\ UNCHANGED <<audits, entries, checkpoints>>
      /\ reader' = [reader EXCEPT !.pc = "script_checkpoints", !.entries = Of(reader.campus, entries)]
  BY DEF ReadEntries
<1>2. PICK r \in ReaderState : r = reader /\ Read(r)
  BY <1>1, ReaderIs
<1>3. PICK E : E = Of(r.campus, entries)
  OBVIOUS
<1> DEFINE x == [r EXCEPT !.pc = "script_checkpoints", !.entries = E]
<1>4. E \in SUBSET Link /\ r.start[1] \subseteq E /\ E = Of(r.campus, entries')
  BY <1>1, <1>2, <1>3 DEF Of, VInv, AInv, Typed, Read
<1>5. reader' = x
  BY <1>1, <1>2, <1>3
<1>6. /\ x \in ReaderState /\ x.pc = "script_checkpoints" /\ x.campus = r.campus /\ x.start = r.start
      /\ x.rows = r.rows /\ x.entries = E
  BY <1>2, <1>4 DEF ReaderState
<1> HIDE DEF x
<1>7. Read(x)'
  BY <1>1, <1>2, <1>4, <1>6 DEF Read
<1> QED
  BY <1>5, <1>6, <1>7, ReadsOn

LEMMA CheckpointsRead ==
  ASSUME VInv, ReadCheckpoints, AInv' PROVE VInv'
<1>1. /\ reader.pc \in {"checkpoints", "script_checkpoints"} /\ UNCHANGED <<audits, entries, checkpoints>>
      /\ reader' = [reader EXCEPT !.pc = IF reader.pc = "checkpoints" THEN "rows" ELSE "judge",
                                  !.checkpoints = Of(reader.campus, checkpoints)]
  BY DEF ReadCheckpoints
<1>2. PICK r \in ReaderState : r = reader /\ Read(r)
  BY <1>1, ReaderIs
<1>3. PICK K : K = Of(r.campus, checkpoints)
  OBVIOUS
<1>4. PICK p : p = IF r.pc = "checkpoints" THEN "rows" ELSE "judge"
  OBVIOUS
<1> DEFINE x == [r EXCEPT !.pc = p, !.checkpoints = K]
<1>5. K \in SUBSET Checkpoint /\ r.start[2] \subseteq K /\ K = Of(r.campus, checkpoints')
  BY <1>1, <1>2, <1>3 DEF Of, VInv, AInv, Typed, Read
<1>6. reader' = x
  BY <1>1, <1>2, <1>3, <1>4
<1>7. /\ x \in ReaderState /\ x.pc = p /\ x.campus = r.campus /\ x.start = r.start
      /\ x.rows = r.rows /\ x.entries = r.entries /\ x.checkpoints = K
  BY <1>2, <1>4, <1>5 DEF ReaderState
<1> HIDE DEF x
<1>8. Read(x)'
  <2>1. (p = "rows" /\ r.pc = "checkpoints") \/ (p = "judge" /\ r.pc = "script_checkpoints")
    BY <1>1, <1>2, <1>4
  <2> QED
    BY <1>1, <1>2, <1>5, <1>7, <2>1 DEF Read
<1> QED
  BY <1>6, <1>7, <1>8, ReadsOn

LEMMA RowsRead ==
  ASSUME VInv, ReadRows, AInv' PROVE VInv'
<1>1. /\ reader.pc = "rows" /\ UNCHANGED <<audits, entries, checkpoints>>
      /\ reader' = [reader EXCEPT !.pc = "judge", !.rows = Of(reader.campus, audits)]
  BY DEF ReadRows
<1>2. PICK r \in ReaderState : r = reader /\ Read(r)
  BY <1>1, ReaderIs
<1>3. PICK A : A = Of(r.campus, audits)
  OBVIOUS
<1> DEFINE x == [r EXCEPT !.pc = "judge", !.rows = A]
<1>4. A \in SUBSET Rows /\ r.start[3] \subseteq A /\ A = Of(r.campus, audits')
  BY <1>1, <1>2, <1>3 DEF Of, VInv, AInv, Typed, Read
<1>5. reader' = x
  BY <1>1, <1>2, <1>3
<1>6. /\ x \in ReaderState /\ x.pc = "judge" /\ x.campus = r.campus /\ x.start = r.start
      /\ x.rows = A /\ x.entries = r.entries /\ x.checkpoints = r.checkpoints
  BY <1>2, <1>4 DEF ReaderState
<1> HIDE DEF x
<1>7. Read(x)'
  BY <1>1, <1>2, <1>4, <1>6 DEF Read
<1> QED
  BY <1>5, <1>6, <1>7, ReadsOn

LEMMA Judged ==
  ASSUME VInv, Judge, AInv' PROVE VInv'
<1>1. reader.pc = "judge" /\ UNCHANGED <<audits, entries, checkpoints>>
  BY DEF Judge
<1>2. PICK r \in ReaderState : r = reader /\ Read(r)
  BY <1>1, ReaderIs
<1>3. PICK s \in Orderings(r.entries) :
         reader' = [r EXCEPT !.pc = "done", !.ok = Verdict(s, r.checkpoints, r.rows)]
  BY <1>2 DEF Judge
<1>4. Verdict(s, r.checkpoints, r.rows) \in BOOLEAN
  BY DEF Verdict
<1>5. PICK v \in BOOLEAN : v = Verdict(s, r.checkpoints, r.rows)
  BY <1>4
<1> DEFINE x == [r EXCEPT !.pc = "done", !.ok = v]
<1>6. reader' = x
  BY <1>3, <1>5
<1>7. /\ x \in ReaderState /\ x.pc = "done" /\ x.campus = r.campus /\ x.start = r.start
      /\ x.rows = r.rows /\ x.entries = r.entries /\ x.checkpoints = r.checkpoints /\ x.ok = v
  BY <1>2 DEF ReaderState
<1> HIDE DEF x
<1>8. \E z \in Orderings(x.entries) : x.ok <=> Verdict(z, x.checkpoints, x.rows)
  BY <1>3, <1>5, <1>7
<1>9. Read(x)'
  BY <1>1, <1>2, <1>7, <1>8 DEF Read
<1> QED
  BY <1>6, <1>7, <1>9, ReadsOn

LEMMA StepReads == VInv /\ [Next]_vars => VInv'
<1> SUFFICES ASSUME VInv, [Next]_vars PROVE VInv'
  OBVIOUS
<1>1. AInv /\ AInv'
  BY StepSound DEF VInv
<1>2. CASE Verify
  BY <1>1, <1>2, StartReads, EntriesRead, CheckpointsRead, RowsRead, Judged DEF Verify
<1>3. CASE reader' = reader
  <2>1. CASE reader.pc = "idle"
    BY <1>1, <1>3, <2>1 DEF VInv
  <2>2. CASE reader.pc # "idle"
    <3>1. PICK r \in ReaderState : r = reader /\ Read(r)
      BY <2>2, ReaderIs
    <3>2. Read(r)'
      BY <1>1, <3>1, Grows, ReadGrows
    <3> QED
      BY <1>1, <1>3, <3>1, <3>2, ReadsOn
  <2> QED
    BY <2>1, <2>2
<1>4. Verify \/ reader' = reader
  BY DEF Next, vars, Run, TakeCheckpoint, Record, RecordUnchained, Backfill, ReadHead, AppendEntry, Commit, RollBack
<1> QED
  BY <1>2, <1>3, <1>4

LEMMA ReadInvariance == Spec => []VInv
  BY InitReads, StepReads, PTL DEF Spec

(* A verification that nothing was committed under reports exactly whether *)
(* the chain is intact, forks included.                                    *)
THEOREM QuietVerdicts == Spec => []QuietVerdictIsRight
<1>1. VInv => QuietVerdictIsRight
  <2> SUFFICES ASSUME VInv, reader.pc = "done", reader.start = Snapshot(reader.campus)
               PROVE  reader.ok <=> Intact(reader.campus)
    BY DEF QuietVerdictIsRight
  <2>1. PICK r \in ReaderState : r = reader /\ Read(r)
    BY ReaderIs
  <2>2. PICK c \in Campuses : c = r.campus
    BY <2>1 DEF Read
  <2>3. PICK S : S = Of(c, entries)
    OBVIOUS
  <2>4. PICK K : K = Of(c, checkpoints)
    OBVIOUS
  <2>5. PICK A : A = Of(c, audits)
    OBVIOUS
  <2>6. r.start[1] = S /\ r.start[2] = K /\ r.start[3] = A
    BY <2>1, <2>2, <2>3, <2>4, <2>5 DEF Snapshot
  <2>7. r.entries = S /\ r.checkpoints = K /\ r.rows = A
    BY <2>1, <2>2, <2>3, <2>4, <2>5, <2>6 DEF Read
  <2>8. PICK s \in Orderings(S) : r.ok <=> Verdict(s, K, A)
    BY <2>1, <2>7 DEF Read
  <2>9. Verdict(s, K, A) <=> Intact(c)
    BY <2>3, <2>4, <2>5, VerdictIs DEF VInv
  <2> QED
    BY <2>1, <2>2, <2>8, <2>9 DEF Intact
<1> QED
  BY ReadInvariance, <1>1, PTL

(***************************************************************************)
(* Communications.                                                         *)
(***************************************************************************)
(* CommunicationsAssumption, as far as the proofs need it.                 *)
MailGiven ==
    /\ Workers \cap Clients = {} /\ NoValue \notin Messages \cup {"sent", "failed"}
    /\ {"none", "deleted"} \cap Given = {}

MailStatuses == {"pending", "sent", "failed", "read"}

RowStatuses == {"none", "scheduled", "sent", "failed", "partial", "deleted"} \cup Given

MessageRow(x) ==
    /\ x = [status |-> x.status, schedule |-> x.schedule, due |-> x.due, left |-> x.left]
    /\ x.status \in RowStatuses
    /\ x.status = "none" => x.schedule # "pending"

Copies(copy) ==
    /\ copy = [m \in DOMAIN copy |-> copy[m]] /\ DOMAIN copy \subseteq Messages
    /\ \A m \in DOMAIN copy : /\ copy[m] = [row |-> copy[m].row, recipients |-> copy[m].recipients]
                              /\ copy[m].recipients \in [Recipients -> MailStatuses]
                              /\ MessageRow(copy[m].row)

(* A session; it writes recipients of the message it delivers where its    *)
(* copy has them pending.                                                  *)
SessionRow(x) ==
    /\ x = [pc |-> x.pc, kind |-> x.kind, copy |-> x.copy, at |-> x.at, touched |-> x.touched,
            wrote |-> x.wrote, outcome |-> x.outcome, advance |-> x.advance]
    /\ Copies(x.copy)
    /\ x.wrote \in [Recipients -> {NoValue, "sent", "failed"}]
    /\ x.pc \in {"idle", "opened", "next", "touch", "deliver", "advance", "done"}
    /\ x.pc \in {"idle", "done"} => DOMAIN x.copy = {}
    /\ x.pc \in {"opened", "touch", "deliver", "advance"} => x.at \in DOMAIN x.copy
    /\ x.pc = "deliver" =>
          \A r \in Recipients : x.wrote[r] # NoValue => x.copy[x.at].recipients[r] = "pending"
    /\ x.pc # "deliver" => x.wrote = Unwritten

MailShapes ==
    /\ message = [m \in Messages |-> message[m]] /\ \A m \in Messages : MessageRow(message[m])
    /\ recipient \in [Messages -> [Recipients -> MailStatuses]]
    /\ notified \in [Messages -> [Recipients -> Nat]]
    /\ session = [s \in Sessions |-> session[s]] /\ \A s \in Sessions : SessionRow(session[s])

(* Session x has yet to commit the delivery of m.                          *)
Underway(x, m) == m \in DOMAIN x.copy /\ ~(x.pc = "advance" /\ x.at = m)

(* Nobody but readers has touched what it has loaded.                      *)
CopyOK(x, m) ==
    Underway(x, m) =>
        /\ message[m].status = x.copy[m].row.status
        /\ \A r \in Recipients : recipient[m][r] \in {x.copy[m].recipients[r], "read"}
        /\ \A r \in Recipients : x.copy[m].recipients[r] = "pending" => notified[m][r] = 0

CountsOK(m) ==
    \A r \in Recipients :
        /\ notified[m][r] <= 1
        /\ recipient[m][r] = "sent" => notified[m][r] = 1
        /\ recipient[m][r] \in {"pending", "failed"} => notified[m][r] = 0

(* The recipients are what the status says of them.                        *)
StatusFits(status, recipients) ==
    \A r \in Recipients :
        /\ status = "scheduled" => recipients[r] \notin {"sent", "failed"}
        /\ status = "sent"      => recipients[r] \notin {"pending", "failed"}
        /\ status = "failed"    => recipients[r] \notin {"pending", "sent"}
        /\ status = "partial"   => recipients[r] # "pending"

(* A request has committed a first part of what it does to m.              *)
TakenOver(m) == \E c \in Clients : session[c].at = m /\ session[c].pc = "deliver"

MessageOK(m) ==
    /\ message[m].status = "none" =>
          /\ \A r \in Recipients : recipient[m][r] = "pending" /\ notified[m][r] = 0
          /\ \A s \in Sessions : m \notin InHand(s)
    /\ m \notin contested => \A s, t \in Sessions : m \in InHand(s) \cap InHand(t) => s = t
    /\ m \notin contested /\ Exists(m) => CountsOK(m) /\ \A s \in Sessions : CopyOK(session[s], m)
    /\ m \notin contested \cup cut \cup patched /\ ~TakenOver(m) => StatusFits(message[m].status, recipient[m])

(* The inductive invariant.                                                *)
MailInv == MailShapes /\ \A m \in Messages : MessageOK(m)

-----------------------------------------------------------------------------
LEMMA FreshIs ==
    /\ SessionRow(Fresh) /\ SessionRow(Done) /\ DOMAIN Fresh.copy = {} /\ DOMAIN Done.copy = {}
    /\ Fresh.pc = "idle" /\ Done.pc = "done" /\ Fresh.wrote = Unwritten
    /\ Fresh = [pc |-> "idle", kind |-> "none", copy |-> <<>>, at |-> NoValue,
                     touched |-> FALSE, wrote |-> Unwritten, outcome |-> "none", advance |-> NoValue]
<1>1. DOMAIN <<>> = {} /\ <<>> = [m \in DOMAIN <<>> |-> <<>>[m]]
  OBVIOUS
<1>2. Copies(<<>>)
  BY <1>1 DEF Copies
<1>3. /\ Fresh = [pc |-> "idle", kind |-> "none", copy |-> <<>>, at |-> NoValue,
                       touched |-> FALSE, wrote |-> Unwritten, outcome |-> "none", advance |-> NoValue]
      /\ Done = [pc |-> "done", kind |-> "none", copy |-> <<>>, at |-> NoValue,
                      touched |-> FALSE, wrote |-> Unwritten, outcome |-> "none", advance |-> NoValue]
  <2>1. PICK e, t, u : e = <<>> /\ t = FALSE /\ u = Unwritten
    OBVIOUS
  <2>2. PICK x : x = [pc |-> "idle", kind |-> "none", copy |-> e, at |-> NoValue,
                      touched |-> t, wrote |-> u, outcome |-> "none", advance |-> NoValue]
    OBVIOUS
  <2>3. [x EXCEPT !.pc = "done"]
        = [pc |-> "done", kind |-> "none", copy |-> e, at |-> NoValue,
           touched |-> t, wrote |-> u, outcome |-> "none", advance |-> NoValue]
    BY <2>2
  <2>4. x = Fresh
    BY <2>1, <2>2, Zenon DEF Fresh
  <2>5. [Fresh EXCEPT !.pc = "done"]
        = [pc |-> "done", kind |-> "none", copy |-> e, at |-> NoValue,
           touched |-> t, wrote |-> u, outcome |-> "none", advance |-> NoValue]
    BY <2>3, <2>4, Zenon
  <2> QED
    BY <2>1, <2>2, <2>4, <2>5, Zenon DEF Done
<1>4. Unwritten \in [Recipients -> {NoValue, "sent", "failed"}]
  BY DEF Unwritten
<1> QED
  BY <1>1, <1>2, <1>3, <1>4 DEF SessionRow

LEMMA InitMail == MailInit => MailInv
<1> SUFFICES ASSUME MailInit PROVE MailInv
  OBVIOUS
<1>1. PICK scheduled \in SUBSET Messages : message = [m \in Messages |->
            IF m \in scheduled THEN Row(m, "scheduled", "pending") ELSE Row(m, "none", "none")]
  BY DEF MailInit
<1>2. \A m \in Messages : /\ MessageRow(message[m])
                          /\ message[m].status \in {"scheduled", "none"}
  BY <1>1 DEF Row, MessageRow, RowStatuses
<1>3. \A m \in Messages, r \in Recipients : recipient[m][r] = "pending" /\ notified[m][r] = 0
  BY DEF MailInit
<1>4. \A s \in Sessions : session[s] = Fresh /\ InHand(s) = {}
  BY FreshIs DEF MailInit, InHand
<1>5. MailShapes
  BY <1>1, <1>2, <1>4, FreshIs DEF MailInit, MailShapes, MailStatuses
<1>6. ASSUME NEW m \in Messages PROVE MessageOK(m)
  <2>1. CountsOK(m) /\ StatusFits(message[m].status, recipient[m])
    BY <1>2, <1>3 DEF CountsOK, StatusFits
  <2>2. \A s \in Sessions : CopyOK(session[s], m)
    BY <1>4 DEF CopyOK, Underway, InHand
  <2> QED
    BY <1>3, <1>4, <2>1, <2>2 DEF MessageOK
<1> QED
  BY <1>5, <1>6 DEF MailInv

(* A message that a step leaves alone.                                     *)
LEMMA Untouched ==
  ASSUME MailInv, NEW m \in Messages,
         message'[m].status = message[m].status, recipient'[m] = recipient[m], notified'[m] = notified[m],
         contested \subseteq contested', cut \subseteq cut', m \notin patched' => m \notin patched,
         \A t \in Sessions : /\ m \in InHand(t)' => m \in InHand(t)
                             /\ Underway(session'[t], m) => /\ Underway(session[t], m)
                                                            /\ session'[t].copy[m] = session[t].copy[m],
         TakenOver(m) /\ m \notin cut' => TakenOver(m)'
  PROVE  MessageOK(m)'
<1>1. MessageOK(m)
  BY DEF MailInv
<1>2. CountsOK(m) => CountsOK(m)'
  BY DEF CountsOK
<1>3. ASSUME NEW s \in Sessions, CopyOK(session[s], m) PROVE CopyOK(session[s], m)'
  BY <1>3 DEF CopyOK
<1>4. Exists(m)' = Exists(m)
  BY DEF Exists
<1> QED
  BY <1>1, <1>2, <1>3, <1>4 DEF MessageOK

(* A message that session s loads, and no other does.                      *)
LEMMA Loaded ==
  ASSUME MailInv, NEW m \in Messages, NEW s \in Sessions, message[m].status # "none",
         UNCHANGED <<message, recipient, notified, patched, cut>>, contested \subseteq contested',
         m \notin contested' => \A t \in Sessions \ {s} : m \notin InHand(t),
         \A t \in Sessions \ {s} : session'[t] = session[t],
         session'[s].copy[m] = Load(m), session[s].pc = "idle", session'[s].pc # "deliver"
  PROVE  MessageOK(m)'
<1>1. MessageOK(m)
  BY DEF MailInv
<1>2. CountsOK(m)' = CountsOK(m) /\ Exists(m)' = Exists(m)
  BY DEF CountsOK, Exists
<1>3. \A t \in Sessions \ {s} : CopyOK(session[t], m) => CopyOK(session[t], m)'
  BY DEF CopyOK
<1>4. CountsOK(m) => CopyOK(session[s], m)'
  BY DEF CopyOK, CountsOK, Load
<1>5. TakenOver(m) => TakenOver(m)'
  BY DEF TakenOver, Sessions
<1>6. m \notin contested' => \A a, b \in Sessions : m \in InHand(a)' \cap InHand(b)' => a = b
  BY DEF InHand
<1> QED
  BY <1>1, <1>2, <1>3, <1>4, <1>5, <1>6 DEF MessageOK

-----------------------------------------------------------------------------
LEMMA OneSession ==
  ASSUME MailInv, NEW s \in Sessions, NEW x, SessionRow(x), session' = [session EXCEPT ![s] = x]
  PROVE  /\ session' = [t \in Sessions |-> session'[t]] /\ session'[s] = x
         /\ \A t \in Sessions \ {s} : session'[t] = session[t]
         /\ \A t \in Sessions : SessionRow(session'[t])
<1>1. session = [t \in Sessions |-> session[t]] /\ \A t \in Sessions : SessionRow(session[t])
  BY DEF MailInv, MailShapes
<1> QED
  BY <1>1

(* A session commits nothing and has no more in hand than it had.          *)
LEMMA GoesOn ==
  ASSUME MailInv, NEW s \in Sessions, NEW x, SessionRow(x), session' = [session EXCEPT ![s] = x],
         UNCHANGED <<message, recipient, notified, contested, patched>>, cut \subseteq cut',
         \A m \in DOMAIN x.copy : /\ m \in InHand(s) /\ x.copy[m] = session[s].copy[m]
                                  /\ Underway(x, m) => Underway(session[s], m),
         s \in Clients /\ session[s].pc = "deliver" =>
             \/ x.pc = "deliver" /\ x.at = session[s].at
             \/ session[s].at \in cut'
  PROVE  MailInv'
<1>1. /\ session' = [t \in Sessions |-> session'[t]] /\ session'[s] = x
      /\ \A t \in Sessions \ {s} : session'[t] = session[t]
      /\ \A t \in Sessions : SessionRow(session'[t])
  BY OneSession
<1>2. MailShapes'
  BY <1>1 DEF MailInv, MailShapes
<1>3. ASSUME NEW m \in Messages PROVE MessageOK(m)'
  <2>1. \A t \in Sessions : /\ m \in InHand(t)' => m \in InHand(t)
                            /\ Underway(session'[t], m) => /\ Underway(session[t], m)
                                                           /\ session'[t].copy[m] = session[t].copy[m]
    <3> SUFFICES ASSUME NEW t \in Sessions
                 PROVE  /\ m \in InHand(t)' => m \in InHand(t)
                        /\ Underway(session'[t], m) => /\ Underway(session[t], m)
                                                       /\ session'[t].copy[m] = session[t].copy[m]
      OBVIOUS
    <3>1. CASE t = s
      BY <1>1, <3>1 DEF InHand, Underway
    <3>2. CASE t # s
      BY <1>1, <3>2 DEF InHand
    <3> QED
      BY <3>1, <3>2
  <2>2. TakenOver(m) /\ m \notin cut' => TakenOver(m)'
    BY <1>1 DEF TakenOver, Sessions
  <2> QED
    BY <2>1, <2>2, Untouched
<1> QED
  BY <1>2, <1>3 DEF MailInv

LEMMA SessionIs ==
  ASSUME MailInv, NEW s \in Sessions
  PROVE  SessionRow(session[s]) /\ session = [t \in Sessions |-> session[t]]
  BY DEF MailInv, MailShapes

LEMMA DeliverToKeeps ==
  ASSUME MailGiven, MailInv, NEW s \in Sessions, NEW r \in Recipients, DeliverTo(s, r)
  PROVE  MailInv'
<1>1. PICK y, result, w : /\ y = session[s] /\ result \in {"sent", "failed"}
                          /\ w = [y.wrote EXCEPT ![r] = result]
                          /\ session' = [session EXCEPT ![s].wrote[r] = result]
  BY DEF DeliverTo
<1>2. PICK x : x = [y EXCEPT !.wrote = w]
  OBVIOUS
<1>3. SessionRow(y) /\ y.pc = "deliver" /\ y.copy[y.at].recipients[r] = "pending"
  BY <1>1, SessionIs DEF DeliverTo, Remaining
<1>4. session' = [session EXCEPT ![s] = x]
  BY <1>1, <1>2, <1>3, SessionIs DEF SessionRow
<1>5. /\ x.pc = y.pc /\ x.copy = y.copy /\ x.at = y.at /\ x.wrote = w
      /\ x = [pc |-> x.pc, kind |-> x.kind, copy |-> x.copy, at |-> x.at, touched |-> x.touched,
              wrote |-> x.wrote, outcome |-> x.outcome, advance |-> x.advance]
  BY <1>2, <1>3 DEF SessionRow
<1>6. /\ w \in [Recipients -> {NoValue, "sent", "failed"}]
      /\ \A q \in Recipients : w[q] = IF q = r THEN result ELSE y.wrote[q]
  BY <1>1, <1>3 DEF SessionRow
<1>7. SessionRow(x)
  BY <1>3, <1>5, <1>6 DEF SessionRow
<1>8. \A m \in DOMAIN x.copy : /\ m \in InHand(s) /\ x.copy[m] = session[s].copy[m]
                               /\ Underway(x, m) => Underway(session[s], m)
  BY <1>1, <1>5 DEF InHand, Underway
<1> QED
  BY <1>1, <1>3, <1>4, <1>5, <1>7, <1>8, GoesOn DEF DeliverTo

LEMMA RollbackKeeps ==
  ASSUME MailInv, NEW s \in Sessions, Rollback(s)
  PROVE  MailInv'
<1>1. PICK x : x = IF s \in Workers THEN Fresh ELSE Done
  OBVIOUS
<1>2. session' = [session EXCEPT ![s] = x] /\ UNCHANGED <<message, recipient, notified, contested, patched>>
  BY <1>1 DEF Rollback
<1>3. SessionRow(x) /\ DOMAIN x.copy = {}
  BY <1>1, FreshIs
<1>4. cut \subseteq cut' /\ (s \in Clients /\ session[s].pc = "deliver" => session[s].at \in cut')
  BY DEF Rollback
<1> QED
  BY <1>2, <1>3, <1>4, GoesOn

LEMMA WorkerKeeps ==
  ASSUME MailGiven, MailInv, NEW w \in Workers, NextMessage(w) \/ TouchMessage(w) \/ AdvanceSchedule(w)
  PROVE  MailInv'
<1>1. PICK y : y = session[w]
  OBVIOUS
<1>2. SessionRow(y) /\ w \in Sessions /\ w \notin Clients
  BY <1>1, SessionIs DEF Sessions, MailGiven
<1>3. CASE NextMessage(w)
  <2>1. PICK m, x : m \in DOMAIN y.copy /\ x = [y EXCEPT !.pc = "touch", !.at = m] /\ y.pc = "next"
                    /\ session' = [session EXCEPT ![w].pc = "touch", ![w].at = m]
    BY <1>1, <1>3 DEF NextMessage, InHand
  <2>2. session' = [session EXCEPT ![w] = x]
    BY <1>1, <1>2, <2>1, SessionIs DEF SessionRow
  <2>3. /\ x.pc = "touch" /\ x.copy = y.copy /\ x.at = m /\ x.wrote = y.wrote
        /\ x = [pc |-> x.pc, kind |-> x.kind, copy |-> x.copy, at |-> x.at, touched |-> x.touched,
                wrote |-> x.wrote, outcome |-> x.outcome, advance |-> x.advance]
    BY <1>2, <2>1 DEF SessionRow
  <2>4. SessionRow(x)
    BY <1>2, <2>1, <2>3 DEF SessionRow
  <2>5. \A k \in DOMAIN x.copy : /\ k \in InHand(w) /\ x.copy[k] = session[w].copy[k]
                                 /\ Underway(x, k) => Underway(session[w], k)
    BY <1>1, <2>1, <2>3 DEF InHand, Underway
  <2> QED
    BY <1>2, <1>3, <2>2, <2>4, <2>5, GoesOn DEF NextMessage
<1>4. CASE TouchMessage(w)
  <2>1. PICK x : x = [y EXCEPT !.pc = "deliver", !.touched = TRUE]
    OBVIOUS
  <2>2. y.pc = "touch" /\ session' = [session EXCEPT ![w].pc = "deliver", ![w].touched = TRUE]
    BY <1>1, <1>4 DEF TouchMessage
  <2>3. session' = [session EXCEPT ![w] = x]
    BY <1>1, <1>2, <2>1, <2>2, SessionIs DEF SessionRow
  <2>4. /\ x.pc = "deliver" /\ x.copy = y.copy /\ x.at = y.at /\ x.wrote = y.wrote
        /\ x = [pc |-> x.pc, kind |-> x.kind, copy |-> x.copy, at |-> x.at, touched |-> x.touched,
                wrote |-> x.wrote, outcome |-> x.outcome, advance |-> x.advance]
    BY <1>2, <2>1 DEF SessionRow
  <2>5. SessionRow(x)
    BY <1>2, <2>2, <2>4 DEF SessionRow, Unwritten
  <2>6. \A k \in DOMAIN x.copy : /\ k \in InHand(w) /\ x.copy[k] = session[w].copy[k]
                                 /\ Underway(x, k) => Underway(session[w], k)
    BY <1>1, <2>2, <2>4 DEF InHand, Underway
  <2> QED
    BY <1>2, <1>4, <2>3, <2>5, <2>6, GoesOn DEF TouchMessage
<1>5. CASE AdvanceSchedule(w)
  <2>1. PICK m, f, a : /\ m = y.at /\ f = [k \in DOMAIN y.copy \ {m} |-> y.copy[k]]
                       /\ y.pc = "advance"
                       /\ session' = [session EXCEPT ![w] =
                             [y EXCEPT !.pc = "next", !.at = NoValue, !.copy = f, !.advance = a]]
    <3>1. PICK a : session' = [session EXCEPT ![w] =
                     [session[w] EXCEPT !.pc = "next", !.at = NoValue,
                                        !.copy = [k \in InHand(w) \ {session[w].at} |-> session[w].copy[k]],
                                        !.advance = a]]
      BY <1>5, Zenon DEF AdvanceSchedule
    <3>2. PICK f : f = [k \in DOMAIN y.copy \ {y.at} |-> y.copy[k]]
      OBVIOUS
    <3>3. f = [k \in InHand(w) \ {session[w].at} |-> session[w].copy[k]]
      BY <1>1, <3>2, Zenon DEF InHand
    <3>4. y.pc = "advance"
      BY <1>1, <1>5, Zenon DEF AdvanceSchedule
    <3>5. session' = [session EXCEPT ![w] = [y EXCEPT !.pc = "next", !.at = NoValue, !.copy = f, !.advance = a]]
      BY <1>1, <3>1, <3>3, Zenon
    <3> QED
      BY <3>2, <3>4, <3>5, Zenon
  <2>2. PICK x : x = [y EXCEPT !.pc = "next", !.at = NoValue, !.copy = f, !.advance = a]
    OBVIOUS
  <2>3. /\ x.pc = "next" /\ x.copy = f /\ x.at = NoValue /\ x.wrote = y.wrote
        /\ x = [pc |-> x.pc, kind |-> x.kind, copy |-> x.copy, at |-> x.at, touched |-> x.touched,
                wrote |-> x.wrote, outcome |-> x.outcome, advance |-> x.advance]
    BY <1>2, <2>2 DEF SessionRow
  <2>4. Copies(f) /\ DOMAIN f = DOMAIN y.copy \ {m} /\ \A k \in DOMAIN f : f[k] = y.copy[k]
    BY <1>2, <2>1 DEF SessionRow, Copies
  <2>5. SessionRow(x)
    BY <1>2, <2>1, <2>3, <2>4 DEF SessionRow
  <2>6. \A k \in DOMAIN x.copy : /\ k \in InHand(w) /\ x.copy[k] = session[w].copy[k]
                                 /\ Underway(x, k) => Underway(session[w], k)
    BY <1>1, <2>1, <2>3, <2>4 DEF InHand, Underway
  <2> QED
    BY <1>2, <1>5, <2>1, <2>2, <2>5, <2>6, GoesOn DEF AdvanceSchedule
<1> QED
  BY <1>3, <1>4, <1>5

-----------------------------------------------------------------------------
(* A step of one session that changes one message.                         *)
ChangesOne(s, x, m) ==
    /\ s \in Sessions /\ SessionRow(x) /\ session' = [session EXCEPT ![s] = x]
    /\ m \in Messages /\ contested \subseteq contested' /\ cut \subseteq cut' /\ patched \ {m} \subseteq patched'
    /\ message' = [k \in Messages |-> message'[k]] /\ \A k \in Messages : MessageRow(message'[k])
    /\ recipient' \in [Messages -> [Recipients -> MailStatuses]]
    /\ notified' \in [Messages -> [Recipients -> Nat]]
    /\ \A k \in Messages \ {m} : /\ message'[k].status = message[k].status
                                 /\ recipient'[k] = recipient[k] /\ notified'[k] = notified[k]
    /\ \A k \in DOMAIN x.copy \ {m} : Underway(session[s], k) /\ x.copy[k] = session[s].copy[k]
    /\ (s \in Clients /\ session[s].pc = "deliver") => session[s].at = m

LEMMA OneMessage ==
  ASSUME MailInv, NEW s, NEW x, NEW m, ChangesOne(s, x, m), MessageOK(m)'
  PROVE  MailInv'
<1> USE DEF ChangesOne
<1>1. /\ session' = [t \in Sessions |-> session'[t]] /\ session'[s] = x
      /\ \A t \in Sessions \ {s} : session'[t] = session[t]
      /\ \A t \in Sessions : SessionRow(session'[t])
  BY OneSession
<1>2. MailShapes'
  BY <1>1 DEF MailShapes
<1>3. ASSUME NEW k \in Messages \ {m} PROVE MessageOK(k)'
  <2>1. \A t \in Sessions : /\ k \in InHand(t)' => k \in InHand(t)
                            /\ Underway(session'[t], k) => /\ Underway(session[t], k)
                                                           /\ session'[t].copy[k] = session[t].copy[k]
    <3> SUFFICES ASSUME NEW t \in Sessions
                 PROVE  /\ k \in InHand(t)' => k \in InHand(t)
                        /\ Underway(session'[t], k) => /\ Underway(session[t], k)
                                                       /\ session'[t].copy[k] = session[t].copy[k]
      OBVIOUS
    <3>1. CASE t = s
      BY <1>1, <3>1 DEF InHand, Underway
    <3>2. CASE t # s
      BY <1>1, <3>2 DEF InHand
    <3> QED
      BY <3>1, <3>2
  <2>2. TakenOver(k) /\ k \notin cut' => TakenOver(k)'
    BY <1>1 DEF TakenOver, Sessions
  <2> QED
    BY <2>1, <2>2, Untouched
<1> QED
  BY <1>2, <1>3 DEF MailInv

LEMMA IdleHolds ==
  ASSUME MailInv, NEW c \in Sessions, session[c].pc = "idle"
  PROVE  InHand(c) = {}
  BY SessionIs DEF SessionRow, InHand

(* Shapes of the tables, for a step that changes one message.              *)
LEMMA TablesAre ==
  ASSUME MailInv
  PROVE  /\ message = [k \in Messages |-> message[k]] /\ \A k \in Messages : MessageRow(message[k])
         /\ recipient \in [Messages -> [Recipients -> MailStatuses]]
         /\ notified \in [Messages -> [Recipients -> Nat]]
  BY DEF MailInv, MailShapes

(* Edits of a message row that keep what the proofs know of it.            *)
LEMMA RowIs ==
  ASSUME NEW x, NEW f, NEW g, NEW h, NEW i, x = [status |-> f, schedule |-> g, due |-> h, left |-> i],
         f \in RowStatuses, f = "none" => g # "pending"
  PROVE  MessageRow(x) /\ x.status = f
<1>1. x.status = f /\ x.schedule = g
  OBVIOUS
<1>2. x = [status |-> x.status, schedule |-> x.schedule, due |-> x.due, left |-> x.left]
  OBVIOUS
<1> QED
  BY <1>1, <1>2 DEF MessageRow

LEMMA RowHas ==
  ASSUME NEW y, MessageRow(y)
  PROVE  \E f, g, h, i : /\ y = [status |-> f, schedule |-> g, due |-> h, left |-> i]
                         /\ y.status = f /\ y.schedule = g
                         /\ f \in RowStatuses
                         /\ f = "none" => g # "pending"
  BY DEF MessageRow

EditOf(y, p, q, x) == \/ x = [y EXCEPT !.due = p]
                      \/ x = [y EXCEPT !.due = p, !.left = q]
                      \/ x = [y EXCEPT !.schedule = p] /\ p # "pending"

Restates(y, p, st, x) == \/ x = [y EXCEPT !.status = st]
                         \/ x = [y EXCEPT !.status = st, !.schedule = p]

LEMMA RowEdited ==
  ASSUME NEW y, MessageRow(y), NEW p, NEW q, NEW x, EditOf(y, p, q, x)
  PROVE  MessageRow(x) /\ x.status = y.status
<1>1. PICK f, g, h, i : /\ y = [status |-> f, schedule |-> g, due |-> h, left |-> i] /\ y.status = f
                        /\ f \in RowStatuses
                        /\ f = "none" => g # "pending"
  BY RowHas
<1>2. CASE x = [y EXCEPT !.due = p]
  <2>1. x = [status |-> f, schedule |-> g, due |-> p, left |-> i]
    BY <1>1, <1>2
  <2> QED
    BY <1>1, <2>1, RowIs
<1>3. CASE x = [y EXCEPT !.due = p, !.left = q]
  <2>1. x = [status |-> f, schedule |-> g, due |-> p, left |-> q]
    BY <1>1, <1>3
  <2> QED
    BY <1>1, <2>1, RowIs
<1>4. CASE x = [y EXCEPT !.schedule = p] /\ p # "pending"
  <2>1. x = [status |-> f, schedule |-> p, due |-> h, left |-> i]
    BY <1>1, <1>4
  <2> QED
    BY <1>1, <1>4, <2>1, RowIs
<1> QED
  BY <1>2, <1>3, <1>4 DEF EditOf

LEMMA RowRestated ==
  ASSUME NEW y, MessageRow(y), NEW p, NEW st \in RowStatuses \ {"none"}, NEW x,
         Restates(y, p, st, x)
  PROVE  MessageRow(x) /\ x.status = st
<1>1. PICK f, g, h, i : y = [status |-> f, schedule |-> g, due |-> h, left |-> i]
  BY RowHas
<1>2. CASE x = [y EXCEPT !.status = st]
  <2>1. x = [status |-> st, schedule |-> g, due |-> h, left |-> i]
    BY <1>1, <1>2
  <2> QED
    BY <2>1, RowIs
<1>3. CASE x = [y EXCEPT !.status = st, !.schedule = p]
  <2>1. x = [status |-> st, schedule |-> p, due |-> h, left |-> i]
    BY <1>1, <1>3
  <2> QED
    BY <2>1, RowIs
<1> QED
  BY <1>2, <1>3 DEF Restates

LEMMA ScheduleKeeps ==
  ASSUME MailGiven, MailInv, NEW c \in Clients, NEW m \in Messages, Schedule(c, m)
  PROVE  MailInv'
<1>1. /\ c \in Sessions /\ session[c].pc = "idle" /\ message[m].status = "none"
      /\ UNCHANGED <<recipient, notified, contested, patched, cut>> /\ session' = [session EXCEPT ![c] = Done]
  BY DEF Schedule, Sessions
<1>2. message' = [message EXCEPT ![m] = [message[m] EXCEPT !.status = "scheduled", !.schedule = "pending"]]
  <2>1. message' = [message EXCEPT ![m].status = "scheduled", ![m].schedule = "pending"]
    BY DEF Schedule
  <2> QED
    BY <2>1, TablesAre DEF MessageRow
<1>3. /\ message' = [k \in Messages |-> message'[k]] /\ \A k \in Messages : MessageRow(message'[k])
      /\ message'[m].status = "scheduled" /\ \A k \in Messages \ {m} : message'[k] = message[k]
  <2>1. PICK d : d = [message[m] EXCEPT !.status = "scheduled", !.schedule = "pending"]
    OBVIOUS
  <2>2. MessageRow(d) /\ d.status = "scheduled"
    <3>1. Restates(message[m], "pending", "scheduled", d)
      BY <2>1 DEF Restates
    <3> QED
      BY <3>1, TablesAre, RowRestated DEF RowStatuses
  <2>3. message' = [message EXCEPT ![m] = d]
    BY <1>2, <2>1
  <2> QED
    BY <2>2, <2>3, TablesAre
<1>4. /\ \A r \in Recipients : recipient[m][r] = "pending" /\ notified[m][r] = 0
      /\ \A t \in Sessions : m \notin InHand(t)
  BY <1>1 DEF MailInv, MessageOK
<1>5. \A t \in Sessions : m \notin InHand(t)'
  <2>1. session'[c] = Done /\ \A t \in Sessions \ {c} : session'[t] = session[t]
    BY <1>1, SessionIs
  <2> QED
    BY <1>4, <2>1, FreshIs DEF InHand
<1>6. MessageOK(m)'
  BY <1>1, <1>3, <1>4, <1>5 DEF MessageOK, CountsOK, CopyOK, Underway, InHand, StatusFits
<1> QED
  BY <1>1, <1>3, <1>6, FreshIs, TablesAre, OneMessage DEF ChangesOne

LEMMA DeleteKeeps ==
  ASSUME MailGiven, MailInv, NEW c \in Clients, NEW m \in Messages, DeleteMessage(c, m)
  PROVE  MailInv'
<1>1. /\ c \in Sessions /\ session[c].pc = "idle" /\ message' = [message EXCEPT ![m] = Row(m, "deleted", "none")]
      /\ recipient' = [recipient EXCEPT ![m] = [r \in Recipients |-> "pending"]]
      /\ notified' = [notified EXCEPT ![m] = [r \in Recipients |-> 0]]
      /\ UNCHANGED <<contested, patched, cut>> /\ session' = [session EXCEPT ![c] = Done]
  BY DEF DeleteMessage, Sessions
<1>2. /\ message' = [k \in Messages |-> message'[k]] /\ \A k \in Messages : MessageRow(message'[k])
      /\ message'[m].status = "deleted" /\ \A k \in Messages \ {m} : message'[k] = message[k]
  BY <1>1, TablesAre DEF MessageRow, Row, RowStatuses
<1>3. /\ recipient' \in [Messages -> [Recipients -> MailStatuses]]
      /\ notified' \in [Messages -> [Recipients -> Nat]]
      /\ \A k \in Messages \ {m} : recipient'[k] = recipient[k] /\ notified'[k] = notified[k]
  BY <1>1, TablesAre DEF MailStatuses
<1>4. \A t \in Sessions : m \in InHand(t)' => m \in InHand(t)
  <2>1. session'[c] = Done /\ \A t \in Sessions \ {c} : session'[t] = session[t]
    BY <1>1, SessionIs
  <2> QED
    BY <2>1, FreshIs DEF InHand
<1>5. MessageOK(m)'
  BY <1>1, <1>2, <1>4 DEF MailInv, MessageOK, Exists, StatusFits
<1> QED
  BY <1>1, <1>2, <1>3, <1>5, FreshIs, OneMessage DEF ChangesOne

LEMMA MarkAsReadKeeps ==
  ASSUME MailGiven, MailInv, NEW c \in Clients, NEW m \in Messages, NEW r \in Recipients, MarkAsRead(c, m, r)
  PROVE  MailInv'
<1>1. /\ c \in Sessions /\ session[c].pc = "idle" /\ Exists(m)
      /\ recipient' = [recipient EXCEPT ![m][r] = "read"]
      /\ UNCHANGED <<message, notified, contested, patched, cut>> /\ session' = [session EXCEPT ![c] = Done]
  BY DEF MarkAsRead, Sessions
<1>2. /\ recipient' \in [Messages -> [Recipients -> MailStatuses]]
      /\ \A k \in Messages \ {m} : recipient'[k] = recipient[k]
      /\ \A q \in Recipients : recipient'[m][q] = IF q = r THEN "read" ELSE recipient[m][q]
  BY <1>1, TablesAre DEF MailStatuses
<1>3. session'[c] = Done /\ \A t \in Sessions \ {c} : session'[t] = session[t]
  BY <1>1, SessionIs
<1>4. DOMAIN session'[c].copy = {} /\ InHand(c) = {} /\ \A t \in Sessions : InHand(t)' = InHand(t)
  BY <1>1, <1>3, FreshIs, IdleHolds DEF InHand
<1>5. MessageOK(m)
  BY DEF MailInv
<1>6. CountsOK(m) => CountsOK(m)'
  BY <1>1, <1>2 DEF CountsOK
<1>7. ASSUME NEW t \in Sessions, CopyOK(session[t], m) PROVE CopyOK(session[t], m)'
  <2>1. CASE t = c
    BY <1>4, <2>1 DEF CopyOK, Underway
  <2>2. CASE t # c
    BY <1>1, <1>2, <1>3, <1>7, <2>2 DEF CopyOK, Underway
  <2> QED
    BY <2>1, <2>2
<1>8. TakenOver(m) => TakenOver(m)'
  BY <1>1, <1>3 DEF TakenOver, Sessions
<1>9. StatusFits(message[m].status, recipient[m]) => StatusFits(message[m].status, recipient[m])'
  BY <1>1, <1>2 DEF StatusFits
<1>10. MessageOK(m)'
  BY <1>1, <1>4, <1>5, <1>6, <1>7, <1>8, <1>9 DEF MessageOK, Exists
<1> QED
  BY <1>1, <1>2, <1>4, <1>10, FreshIs, TablesAre, OneMessage DEF ChangesOne

(* The schedule of a message says nothing of its recipients.               *)
LEMMA AdvancedIs ==
  ASSUME MailInv, NEW a, NEW b, b = Advanced(a)
  PROVE  /\ b = [k \in Messages |-> b[k]]
         /\ \A k \in Messages : MessageRow(b[k]) /\ b[k].status = message[k].status
<1>1. CASE a = NoValue
  BY <1>1, TablesAre DEF Advanced
<1>2. CASE a # NoValue
  <2>1. PICK y, d, no : /\ no = FALSE /\ y = message[a.of]
                        /\ d = IF a.schedule = "pending" THEN [y EXCEPT !.due = no, !.left = a.left]
                               ELSE [y EXCEPT !.schedule = a.schedule]
    OBVIOUS
  <2>2. b = [message EXCEPT ![a.of] = d]
    BY <1>2, <2>1 DEF Advanced
  <2>3. ASSUME a.of \in Messages PROVE MessageRow(d) /\ d.status = y.status
    <3>1. MessageRow(y)
      BY <2>1, <2>3, TablesAre
    <3>2. CASE a.schedule = "pending"
      <4>1. EditOf(y, no, a.left, d)
        BY <2>1, <3>2 DEF EditOf
      <4> QED
        BY <3>1, <4>1, RowEdited
    <3>3. CASE a.schedule # "pending"
      <4>1. EditOf(y, a.schedule, no, d)
        BY <2>1, <3>3 DEF EditOf
      <4> QED
        BY <3>1, <4>1, RowEdited
    <3> QED
      BY <3>2, <3>3
  <2> QED
    BY <2>1, <2>2, <2>3, TablesAre
<1> QED
  BY <1>1, <1>2

LEMMA FinishDispatchKeeps ==
  ASSUME MailGiven, MailInv, NEW w \in Workers, FinishDispatch(w)
  PROVE  MailInv'
<1>1. /\ w \in Sessions /\ w \notin Clients /\ message' = Advanced(session[w].advance)
      /\ session' = [session EXCEPT ![w] = Fresh] /\ UNCHANGED <<recipient, notified, contested, patched, cut>>
  BY DEF FinishDispatch, Sessions, MailGiven
<1>2. /\ message' = [k \in Messages |-> message'[k]]
      /\ \A k \in Messages : MessageRow(message'[k]) /\ message'[k].status = message[k].status
  BY <1>1, AdvancedIs
<1>3. session'[w] = Fresh /\ \A t \in Sessions \ {w} : session'[t] = session[t]
  BY <1>1, SessionIs
<1>4. ASSUME NEW m \in Messages PROVE MessageOK(m)'
  <2>1. \A t \in Sessions : /\ m \in InHand(t)' => m \in InHand(t)
                            /\ Underway(session'[t], m) => /\ Underway(session[t], m)
                                                           /\ session'[t].copy[m] = session[t].copy[m]
    BY <1>3, FreshIs DEF InHand, Underway
  <2>2. TakenOver(m) => TakenOver(m)'
    BY <1>1, <1>3 DEF TakenOver, Sessions
  <2> QED
    BY <1>1, <1>2, <2>1, <2>2, Untouched
<1>5. MailShapes'
  BY <1>1, <1>2, FreshIs, OneSession, TablesAre DEF MailShapes
<1> QED
  BY <1>4, <1>5 DEF MailInv

LEMMA ComeDueKeeps ==
  ASSUME MailInv, NEW m \in Messages, ComeDue(m)
  PROVE  MailInv'
<1>1. message' = [message EXCEPT ![m].due = TRUE] /\ UNCHANGED <<recipient, notified, session, contested, patched, cut>>
  BY DEF ComeDue
<1>2. /\ message' = [k \in Messages |-> message'[k]]
      /\ \A k \in Messages : MessageRow(message'[k]) /\ message'[k].status = message[k].status
  <2>1. PICK d, yes : yes = TRUE /\ d = [message[m] EXCEPT !.due = yes]
    OBVIOUS
  <2>2. MessageRow(d) /\ d.status = message[m].status
    <3>1. EditOf(message[m], yes, yes, d)
      BY <2>1 DEF EditOf
    <3> QED
      BY <3>1, TablesAre, RowEdited
  <2>3. message' = [message EXCEPT ![m] = d]
    BY <1>1, <2>1, TablesAre
  <2> QED
    BY <2>2, <2>3, TablesAre
<1>3. ASSUME NEW k \in Messages PROVE MessageOK(k)'
  BY <1>1, <1>2, Untouched DEF InHand, TakenOver
<1>4. MailShapes'
  BY <1>1, <1>2 DEF MailInv, MailShapes
<1> QED
  BY <1>3, <1>4 DEF MailInv

-----------------------------------------------------------------------------
(* An idle session that loads messages.                                    *)
LEMMA LoadsAre ==
  ASSUME MailInv, NEW M \in SUBSET Messages, NEW f, f = [k \in M |-> Load(k)]
  PROVE  Copies(f) /\ DOMAIN f = M /\ \A k \in M : f[k] = Load(k)
<1>1. DOMAIN f = M /\ \A k \in M : f[k] = Load(k)
  OBVIOUS
<1>2. ASSUME NEW k \in M
      PROVE  /\ f[k] = [row |-> f[k].row, recipients |-> f[k].recipients]
             /\ f[k].row = message[k] /\ f[k].recipients = recipient[k]
  BY <1>1 DEF Load
<1>3. \A k \in M : MessageRow(message[k]) /\ recipient[k] \in [Recipients -> MailStatuses]
  BY TablesAre
<1>4. f = [k \in DOMAIN f |-> f[k]]
  BY <1>1
<1> QED
  BY <1>1, <1>2, <1>3, <1>4 DEF Copies

LEMMA OpensKeeps ==
  ASSUME MailInv, NEW s \in Sessions, NEW x, SessionRow(x), session' = [session EXCEPT ![s] = x],
         session[s].pc = "idle", x.pc # "deliver",
         \A k \in DOMAIN x.copy : x.copy[k] = Load(k) /\ message[k].status # "none",
         Overlap(s, DOMAIN x.copy), UNCHANGED <<message, recipient, notified, patched, cut>>
  PROVE  MailInv'
<1>1. /\ session' = [t \in Sessions |-> session'[t]] /\ session'[s] = x
      /\ \A t \in Sessions \ {s} : session'[t] = session[t]
      /\ \A t \in Sessions : SessionRow(session'[t])
  BY OneSession
<1>2. MailShapes'
  BY <1>1 DEF MailInv, MailShapes
<1>3. contested \subseteq contested'
  BY DEF Overlap
<1>4. ASSUME NEW m \in Messages PROVE MessageOK(m)'
  <2>1. CASE m \in DOMAIN x.copy
    <3>1. m \notin contested' => \A t \in Sessions \ {s} : m \notin InHand(t)
      BY <2>1 DEF Overlap
    <3> QED
      BY <1>1, <1>3, <2>1, <3>1, Loaded
  <2>2. CASE m \notin DOMAIN x.copy
    <3>1. \A t \in Sessions : /\ m \in InHand(t)' => m \in InHand(t)
                              /\ Underway(session'[t], m) => /\ Underway(session[t], m)
                                                             /\ session'[t].copy[m] = session[t].copy[m]
      <4> SUFFICES ASSUME NEW t \in Sessions
                   PROVE  /\ m \in InHand(t)' => m \in InHand(t)
                          /\ Underway(session'[t], m) => /\ Underway(session[t], m)
                                                         /\ session'[t].copy[m] = session[t].copy[m]
        OBVIOUS
      <4>1. CASE t = s
        BY <1>1, <2>2, <4>1 DEF InHand, Underway
      <4>2. CASE t # s
        BY <1>1, <4>2 DEF InHand
      <4> QED
        BY <4>1, <4>2
    <3>2. TakenOver(m) => TakenOver(m)'
      BY <1>1 DEF TakenOver, Sessions
    <3> QED
      BY <1>3, <3>1, <3>2, Untouched
  <2> QED
    BY <2>1, <2>2
<1> QED
  BY <1>2, <1>4 DEF MailInv

(* The sessions that begin with what they loaded.                          *)
LEMMA FreshRow ==
  \E e, t, w : /\ w = Unwritten
               /\ Fresh = [pc |-> "idle", kind |-> "none", copy |-> e, at |-> NoValue, touched |-> t,
                                wrote |-> w, outcome |-> "none", advance |-> NoValue]
<1>1. PICK e, t, w : e = <<>> /\ t = FALSE /\ w = Unwritten
  OBVIOUS
<1>2. Fresh = [pc |-> "idle", kind |-> "none", copy |-> e, at |-> NoValue, touched |-> t,
                    wrote |-> w, outcome |-> "none", advance |-> NoValue]
  BY <1>1, Zenon DEF Fresh
<1> QED
  BY <1>1, <1>2, Zenon

Begins(x, pc, kind, at, f) ==
    \/ x = [Fresh EXCEPT !.pc = pc, !.kind = kind, !.at = at, !.copy = f]
    \/ at = NoValue /\ x = [Fresh EXCEPT !.pc = pc, !.kind = kind, !.copy = f]

LEMMA Begun ==
  ASSUME NEW pc, NEW kind, NEW at, NEW f, Copies(f), NEW x,
         Begins(x, pc, kind, at, f),
         pc \in {"opened", "next", "deliver"}, pc # "next" => at \in DOMAIN f
  PROVE  SessionRow(x) /\ x.pc = pc /\ x.copy = f /\ x.at = at
<1>1. PICK e, t, w : /\ w = Unwritten
                     /\ Fresh = [pc |-> "idle", kind |-> "none", copy |-> e, at |-> NoValue, touched |-> t,
                                      wrote |-> w, outcome |-> "none", advance |-> NoValue]
  BY FreshRow, Zenon
<1>2. PICK y : y = Fresh
  OBVIOUS
<1>3. y = [pc |-> "idle", kind |-> "none", copy |-> e, at |-> NoValue, touched |-> t,
           wrote |-> w, outcome |-> "none", advance |-> NoValue]
  BY <1>1, <1>2, Zenon
<1>4. \/ x = [y EXCEPT !.pc = pc, !.kind = kind, !.at = at, !.copy = f]
      \/ at = NoValue /\ x = [y EXCEPT !.pc = pc, !.kind = kind, !.copy = f]
  BY <1>2, Zenon DEF Begins
<1>5. x = [pc |-> pc, kind |-> kind, copy |-> f, at |-> at, touched |-> t,
           wrote |-> w, outcome |-> "none", advance |-> NoValue]
  <2>1. CASE x = [y EXCEPT !.pc = pc, !.kind = kind, !.at = at, !.copy = f]
    BY <1>3, <2>1
  <2>2. CASE at = NoValue /\ x = [y EXCEPT !.pc = pc, !.kind = kind, !.copy = f]
    BY <1>3, <2>2
  <2> QED
    BY <1>4, <2>1, <2>2
<1>6. /\ x.pc = pc /\ x.kind = kind /\ x.copy = f /\ x.at = at /\ x.touched = t /\ x.wrote = w
      /\ x.outcome = "none" /\ x.advance = NoValue
  BY <1>5
<1>8. x = [pc |-> x.pc, kind |-> x.kind, copy |-> x.copy, at |-> x.at, touched |-> x.touched,
           wrote |-> x.wrote, outcome |-> x.outcome, advance |-> x.advance]
  BY <1>5, <1>6, Zenon
<1>7. Unwritten \in [Recipients -> {NoValue, "sent", "failed"}] /\ \A r \in Recipients : Unwritten[r] = NoValue
  BY DEF Unwritten
<1> QED
  BY <1>1, <1>6, <1>7, <1>8 DEF SessionRow, Begins

LEMMA OpenDispatchKeeps ==
  ASSUME MailGiven, MailInv, NEW w \in Workers, OpenDispatch(w)
  PROVE  MailInv'
<1>1. PICK f : f = [m \in Due |-> Load(m)]
  OBVIOUS
<1>2. /\ Due \in SUBSET Messages /\ \A m \in Due : message[m].schedule = "pending"
      /\ w \in Sessions
  BY DEF Due, Sessions
<1>3. Copies(f) /\ DOMAIN f = Due /\ \A m \in Due : f[m] = Load(m)
  BY <1>1, <1>2, LoadsAre
<1>4. PICK x : x = [Fresh EXCEPT !.pc = "next", !.kind = "dispatch", !.copy = f]
  OBVIOUS
<1>5. Begins(x, "next", "dispatch", NoValue, f)
  BY <1>4, Zenon DEF Begins
<1>6. SessionRow(x) /\ x.pc = "next" /\ x.copy = f
  BY <1>3, <1>5, Begun
<1>7. /\ session[w].pc = "idle" /\ session' = [session EXCEPT ![w] = x] /\ Overlap(w, Due)
      /\ UNCHANGED <<message, recipient, notified, patched, cut>>
  BY <1>1, <1>4, Zenon DEF OpenDispatch
<1>8. \A m \in Due : message[m].status # "none"
  BY <1>2, TablesAre DEF MessageRow
<1> QED
  BY <1>2, <1>3, <1>6, <1>7, <1>8, OpensKeeps

LEMMA OpenRequestKeeps ==
  ASSUME MailGiven, MailInv, NEW c \in Clients, NEW m \in Messages, NEW kind, OpenRequest(c, kind, m)
  PROVE  MailInv'
<1>1. PICK f : f = [k \in {m} |-> Load(m)]
  OBVIOUS
<1>2. Copies(f) /\ DOMAIN f = {m} /\ f[m] = Load(m)
  <2>1. PICK M, g : M = {m} /\ g = [k \in M |-> Load(k)]
    OBVIOUS
  <2>2. Copies(g) /\ DOMAIN g = M /\ \A k \in M : g[k] = Load(k)
    BY <2>1, LoadsAre
  <2>3. f = g
    BY <1>1, <2>1
  <2> QED
    BY <2>1, <2>2, <2>3
<1>3. PICK x : x = [Fresh EXCEPT !.pc = "opened", !.kind = kind, !.at = m, !.copy = f]
  OBVIOUS
<1>4. SessionRow(x) /\ x.pc = "opened" /\ x.copy = f
  <2>1. Begins(x, "opened", kind, m, f)
    BY <1>3, Zenon DEF Begins
  <2> QED
    BY <1>2, <2>1, Begun
<1>5. /\ session[c].pc = "idle" /\ Exists(m) /\ Overlap(c, {m}) /\ UNCHANGED <<message, recipient, notified, patched, cut>>
      /\ session' = [session EXCEPT ![c] = x]
  BY <1>1, <1>3, Zenon DEF OpenRequest
<1>6. c \in Sessions /\ message[m].status # "none"
  BY <1>5 DEF Sessions, Exists
<1> QED
  BY <1>2, <1>4, <1>5, <1>6, OpensKeeps

(* A message is created as sent, with its delivery begun.                  *)
LEMMA SendKeeps ==
  ASSUME MailGiven, MailInv, NEW c \in Clients, NEW m \in Messages, Send(c, m)
  PROVE  MailInv'
<1>1. PICK d, f, x : /\ d = [message[m] EXCEPT !.status = "sent"]
                     /\ f = [k \in {m} |-> [row |-> d, recipients |-> recipient[m]]]
                     /\ x = [Fresh EXCEPT !.pc = "deliver", !.kind = "send", !.at = m, !.copy = f]
  OBVIOUS
<1>2. MessageRow(d) /\ d.status = "sent"
  <2>1. Restates(message[m], "none", "sent", d)
    BY <1>1 DEF Restates
  <2> QED
    BY <2>1, TablesAre, RowRestated DEF RowStatuses
<1>3. /\ c \in Sessions /\ session[c].pc = "idle" /\ message[m].status = "none"
      /\ UNCHANGED <<recipient, notified, contested, patched, cut>>
      /\ message' = [message EXCEPT ![m].status = "sent"]
  BY DEF Send, Sessions
<1>4. message' = [message EXCEPT ![m] = d]
  BY <1>1, <1>3, TablesAre
<1>5. /\ message' = [k \in Messages |-> message'[k]] /\ \A k \in Messages : MessageRow(message'[k])
      /\ message'[m] = d /\ \A k \in Messages \ {m} : message'[k] = message[k]
  BY <1>2, <1>4, TablesAre
<1>6. session' = [session EXCEPT ![c] = x]
  BY <1>1, <1>5, Zenon DEF Send
<1>7. /\ DOMAIN f = {m} /\ f = [k \in DOMAIN f |-> f[k]]
      /\ f[m] = [row |-> d, recipients |-> recipient[m]]
      /\ f[m] = [row |-> f[m].row, recipients |-> f[m].recipients]
      /\ f[m].row = d /\ f[m].recipients = recipient[m]
  BY <1>1
<1>8. Copies(f)
  BY <1>2, <1>7, TablesAre DEF Copies
<1>9. SessionRow(x) /\ x.pc = "deliver" /\ x.copy = f /\ x.at = m
  <2>1. Begins(x, "deliver", "send", m, f)
    BY <1>1, Zenon DEF Begins
  <2> QED
    BY <1>7, <1>8, <2>1, Begun
<1>10. /\ session'[c] = x /\ \A t \in Sessions \ {c} : session'[t] = session[t]
  BY <1>3, <1>6, SessionIs
<1>11. /\ \A r \in Recipients : recipient[m][r] = "pending" /\ notified[m][r] = 0
       /\ \A t \in Sessions : m \notin InHand(t)
  BY <1>3 DEF MailInv, MessageOK
<1>12. /\ \A t \in Sessions \ {c} : m \notin InHand(t)' /\ CopyOK(session[t], m)'
       /\ TakenOver(m)' /\ CopyOK(session[c], m)'
  BY <1>2, <1>3, <1>5, <1>7, <1>9, <1>10, <1>11 DEF InHand, CopyOK, Underway, TakenOver
<1>13. CountsOK(m)'
  BY <1>3, <1>11 DEF CountsOK
<1>14. MessageOK(m)'
  BY <1>2, <1>5, <1>12, <1>13 DEF MessageOK
<1>20. ChangesOne(c, x, m)
  BY <1>3, <1>5, <1>6, <1>7, <1>9, TablesAre DEF ChangesOne
<1> QED
  BY <1>14, <1>20, OneMessage

-----------------------------------------------------------------------------
(* A request takes a message over: it has the copy e of it from then on.   *)
GoesToDeliver(y, e, g, x) == g = [y.copy EXCEPT ![y.at] = e] /\ x = [y EXCEPT !.pc = "deliver", !.copy = g]

LEMMA TakesOver ==
  ASSUME NEW y, SessionRow(y), y.pc = "opened", NEW e, NEW g, NEW x, GoesToDeliver(y, e, g, x),
         e = [row |-> e.row, recipients |-> e.recipients], MessageRow(e.row),
         e.recipients \in [Recipients -> MailStatuses]
  PROVE  /\ SessionRow(x) /\ x.pc = "deliver" /\ x.at = y.at /\ DOMAIN x.copy = DOMAIN y.copy
         /\ y.at \in DOMAIN y.copy /\ y.at \in Messages /\ x.copy[y.at] = e
         /\ \A k \in DOMAIN y.copy \ {y.at} : x.copy[k] = y.copy[k]
<1> g = [y.copy EXCEPT ![y.at] = e] /\ x = [y EXCEPT !.pc = "deliver", !.copy = g]
  BY DEF GoesToDeliver
<1>1. /\ x.pc = "deliver" /\ x.copy = g /\ x.at = y.at /\ x.wrote = y.wrote
      /\ x = [pc |-> x.pc, kind |-> x.kind, copy |-> x.copy, at |-> x.at, touched |-> x.touched,
              wrote |-> x.wrote, outcome |-> x.outcome, advance |-> x.advance]
  BY DEF SessionRow
<1>2. /\ y.at \in DOMAIN y.copy /\ y.at \in Messages /\ y.wrote = Unwritten
      /\ y.wrote \in [Recipients -> {NoValue, "sent", "failed"}] /\ Copies(y.copy)
  BY DEF SessionRow, Copies
<1>3. /\ DOMAIN g = DOMAIN y.copy /\ g = [k \in DOMAIN g |-> g[k]] /\ g[y.at] = e
      /\ \A k \in DOMAIN y.copy \ {y.at} : g[k] = y.copy[k]
  BY <1>2 DEF Copies
<1>4. Copies(g)
  BY <1>2, <1>3 DEF Copies
<1>5. \A r \in Recipients : y.wrote[r] = NoValue
  BY <1>2 DEF Unwritten
<1> QED
  BY <1>1, <1>2, <1>3, <1>4, <1>5 DEF SessionRow

LEMMA SendNowKeeps ==
  ASSUME MailGiven, MailInv, NEW c \in Clients, SendNow(c)
  PROVE  MailInv'
<1>1. PICK m, y, q : y = session[c] /\ m = y.at /\ q = y.copy[m].recipients
  OBVIOUS
<1>1a. PICK rr, e, g, x : /\ rr = [y.copy[m].row EXCEPT !.status = "sent"] /\ e = [y.copy[m] EXCEPT !.row = rr]
                         /\ g = [y.copy EXCEPT ![m] = e] /\ x = [y EXCEPT !.pc = "deliver", !.copy = g]
  OBVIOUS
<1>2. SessionRow(y) /\ c \in Sessions /\ session = [t \in Sessions |-> session[t]]
  BY <1>1, SessionIs DEF Sessions
<1>3. /\ y.pc = "opened" /\ Exists(m) /\ UNCHANGED <<recipient, notified, contested, patched, cut>>
      /\ session' = [session EXCEPT ![c].pc = "deliver", ![c].copy[m].row.status = "sent"]
  BY <1>1 DEF SendNow
<1>4. /\ m \in DOMAIN y.copy /\ m \in Messages /\ q \in [Recipients -> MailStatuses]
      /\ y.copy[m] = [row |-> y.copy[m].row, recipients |-> q] /\ MessageRow(y.copy[m].row)
  BY <1>1, <1>2, <1>3 DEF SessionRow, Copies
<1>5. MessageRow(rr) /\ rr.status = "sent"
  <2>1. Restates(y.copy[m].row, "none", "sent", rr)
    BY <1>1a, Zenon DEF Restates
  <2> QED
    BY <1>4, <2>1, RowRestated DEF RowStatuses
<1>6. e = [row |-> rr, recipients |-> q] /\ e.row = rr /\ e.recipients = q
  BY <1>1a, <1>4
<1>7. session' = [session EXCEPT ![c] = x]
  BY <1>1a, <1>1, <1>2, <1>3, <1>4 DEF SessionRow
<1>8. /\ SessionRow(x) /\ x.pc = "deliver" /\ x.at = m /\ DOMAIN x.copy = DOMAIN y.copy /\ x.copy[m] = e
      /\ \A k \in DOMAIN y.copy \ {m} : x.copy[k] = y.copy[k]
  <2>1. GoesToDeliver(y, e, g, x)
    BY <1>1a, <1>1, Zenon DEF GoesToDeliver
  <2>2. /\ MessageRow(e.row) /\ e.recipients \in [Recipients -> MailStatuses]
        /\ e = [row |-> e.row, recipients |-> e.recipients]
    BY <1>4, <1>5, <1>6
  <2> QED
    BY <1>1, <1>2, <1>3, <2>1, <2>2, TakesOver
<1>9. PICK st, p, d : /\ st = (IF y.copy[m].row.status # "sent" THEN "sent" ELSE message[m].status)
                      /\ d = [message[m] EXCEPT !.status = st, !.schedule = p]
                      /\ message' = [message EXCEPT ![m] = d]
  BY <1>1, Zenon DEF SendNow
<1>10. MessageRow(d) /\ d.status = st /\ st \in RowStatuses \ {"none"}
  <2>1. st \in RowStatuses \ {"none"}
    BY <1>3, <1>4, <1>9, TablesAre DEF Exists, MessageRow, RowStatuses
  <2>2. Restates(message[m], p, st, d)
    BY <1>9, Zenon DEF Restates
  <2> QED
    <3>1. MessageRow(message[m])
      BY <1>4, TablesAre
    <3>2. MessageRow(d) /\ d.status = st
      BY <2>1, <2>2, <3>1, RowRestated
    <3> QED
      BY <2>1, <3>2
<1>11. /\ message' = [k \in Messages |-> message'[k]] /\ \A k \in Messages : MessageRow(message'[k])
       /\ message'[m].status = st /\ \A k \in Messages \ {m} : message'[k] = message[k]
  BY <1>4, <1>9, <1>10, TablesAre
<1>12. session'[c] = x /\ \A t \in Sessions \ {c} : session'[t] = session[t]
  BY <1>2, <1>7
<1>13. MessageOK(m) /\ m \in InHand(c) /\ \A t \in Sessions : InHand(t)' = InHand(t)
  BY <1>1, <1>4, <1>8, <1>12 DEF MailInv, InHand
<1>14. TakenOver(m)'
  BY <1>8, <1>12 DEF TakenOver
<1>15. ASSUME m \notin contested PROVE CountsOK(m)' /\ \A t \in Sessions : CopyOK(session[t], m)'
  <2>1. /\ CountsOK(m) /\ CopyOK(session[c], m) /\ Underway(session[c], m)
        /\ \A t \in Sessions \ {c} : m \notin InHand(t)'
    BY <1>1, <1>2, <1>3, <1>4, <1>13, <1>15 DEF MessageOK, Underway
  <2>2. st = "sent"
    BY <1>1, <1>9, <2>1 DEF CopyOK
  <2>3. CopyOK(session[c], m)'
    <3>1. session'[c].copy[m].row.status = "sent" /\ session'[c].copy[m].recipients = y.copy[m].recipients
      BY <1>1, <1>5, <1>6, <1>8, <1>12
    <3>2. /\ \A r \in Recipients : recipient[m][r] \in {y.copy[m].recipients[r], "read"}
          /\ \A r \in Recipients : y.copy[m].recipients[r] = "pending" => notified[m][r] = 0
      BY <1>1, <2>1 DEF CopyOK
    <3> QED
      BY <1>3, <1>11, <2>2, <3>1, <3>2 DEF CopyOK
  <2>4. \A t \in Sessions \ {c} : CopyOK(session[t], m)'
    BY <2>1 DEF CopyOK, Underway, InHand
  <2>5. CountsOK(m)'
    BY <1>3, <2>1 DEF CountsOK
  <2> QED
    BY <2>3, <2>4, <2>5
<1>16. MessageOK(m)'
  BY <1>2, <1>3, <1>10, <1>11, <1>13, <1>14, <1>15 DEF MessageOK
<1>17. \A k \in DOMAIN x.copy \ {m} : Underway(session[c], k) /\ x.copy[k] = session[c].copy[k]
  BY <1>1, <1>3, <1>8 DEF Underway
<1>18. /\ c \in Clients /\ session[c].pc = "deliver" => session[c].at = m
       /\ contested \subseteq contested' /\ cut \subseteq cut' /\ patched \subseteq patched'
       /\ recipient' \in [Messages -> [Recipients -> MailStatuses]]
       /\ notified' \in [Messages -> [Recipients -> Nat]]
       /\ message' = [k \in Messages |-> message'[k]] /\ \A k \in Messages : MessageRow(message'[k])
       /\ \A k \in Messages \ {m} : /\ message'[k].status = message[k].status
                                    /\ recipient'[k] = recipient[k] /\ notified'[k] = notified[k]
  BY <1>1, <1>3, <1>11, TablesAre
<1>19. c \in Sessions /\ m \in Messages /\ SessionRow(x)
  BY <1>2, <1>4, <1>8
<1>20. ChangesOne(c, x, m)
  BY <1>7, <1>17, <1>18, <1>19 DEF ChangesOne
<1> QED
  BY <1>16, <1>20, OneMessage

LEMMA RetryKeeps ==
  ASSUME MailGiven, MailInv, NEW c \in Clients, RetryFailed(c)
  PROVE  MailInv'
<1>1. PICK m, y, rr : y = session[c] /\ m = y.at /\ rr = y.copy[m].row
  OBVIOUS
<1>1a. PICK q, p, e, g, x :
            /\ q = [r \in Recipients |-> IF r \in Failed(m) THEN "pending" ELSE y.copy[m].recipients[r]]
            /\ p = [r \in Recipients |-> IF r \in Resets(c) THEN "pending" ELSE recipient[m][r]]
            /\ e = [y.copy[m] EXCEPT !.recipients = q]
            /\ g = [y.copy EXCEPT ![m] = e] /\ x = [y EXCEPT !.pc = "deliver", !.copy = g]
  OBVIOUS
<1>2. SessionRow(y) /\ c \in Sessions /\ session = [t \in Sessions |-> session[t]]
  BY <1>1, SessionIs DEF Sessions
<1>3. /\ y.pc = "opened" /\ Exists(m) /\ UNCHANGED <<message, notified, contested, patched, cut>>
      /\ recipient' = [recipient EXCEPT ![m] = p]
      /\ session' = [session EXCEPT ![c].pc = "deliver", ![c].copy[m].recipients = q]
  BY <1>1a, <1>1 DEF RetryFailed
<1>4. /\ m \in DOMAIN y.copy /\ m \in Messages /\ y.copy[m].recipients \in [Recipients -> MailStatuses]
      /\ y.copy[m] = [row |-> rr, recipients |-> y.copy[m].recipients] /\ MessageRow(rr)
  BY <1>1, <1>2, <1>3 DEF SessionRow, Copies
<1>5. /\ q \in [Recipients -> MailStatuses] /\ p \in [Recipients -> MailStatuses]
      /\ \A r \in Recipients : /\ q[r] = IF r \in Failed(m) THEN "pending" ELSE y.copy[m].recipients[r]
                               /\ p[r] = IF r \in Resets(c) THEN "pending" ELSE recipient[m][r]
  BY <1>1a, <1>4, TablesAre DEF MailStatuses
<1>6. e = [row |-> rr, recipients |-> q] /\ e.row = rr /\ e.recipients = q
  BY <1>1a, <1>4
<1>7. session' = [session EXCEPT ![c] = x]
  BY <1>1a, <1>1, <1>2, <1>3, <1>4 DEF SessionRow
<1>8. /\ SessionRow(x) /\ x.pc = "deliver" /\ x.at = m /\ DOMAIN x.copy = DOMAIN y.copy /\ x.copy[m] = e
      /\ \A k \in DOMAIN y.copy \ {m} : x.copy[k] = y.copy[k]
  <2>1. GoesToDeliver(y, e, g, x)
    BY <1>1a, <1>1, Zenon DEF GoesToDeliver
  <2>2. /\ MessageRow(e.row) /\ e.recipients \in [Recipients -> MailStatuses]
        /\ e = [row |-> e.row, recipients |-> e.recipients]
    BY <1>4, <1>5, <1>6
  <2> QED
    BY <1>1, <1>2, <1>3, <2>1, <2>2, TakesOver
<1>9. /\ recipient' \in [Messages -> [Recipients -> MailStatuses]] /\ recipient'[m] = p
      /\ \A k \in Messages \ {m} : recipient'[k] = recipient[k]
  BY <1>3, <1>4, <1>5, TablesAre
<1>12. session'[c] = x /\ \A t \in Sessions \ {c} : session'[t] = session[t]
  BY <1>2, <1>7
<1>13. MessageOK(m) /\ m \in InHand(c) /\ \A t \in Sessions : InHand(t)' = InHand(t)
  BY <1>1, <1>4, <1>8, <1>12 DEF MailInv, InHand
<1>14. TakenOver(m)'
  BY <1>8, <1>12 DEF TakenOver
<1>15. ASSUME m \notin contested PROVE CountsOK(m)' /\ \A t \in Sessions : CopyOK(session[t], m)'
  <2>1. /\ CountsOK(m) /\ CopyOK(session[c], m) /\ Underway(session[c], m)
        /\ \A t \in Sessions \ {c} : m \notin InHand(t)'
    BY <1>1, <1>2, <1>3, <1>4, <1>13, <1>15 DEF MessageOK, Underway
  <2>2. \A r \in Recipients :
           /\ r \in Failed(m) <=> recipient[m][r] = "failed"
           /\ r \in Resets(c) <=> r \in Failed(m) /\ y.copy[m].recipients[r] # "pending"
    BY <1>1 DEF Failed, Resets
  <2>3. CopyOK(session[c], m)'
    <3>1. session'[c].copy[m].row = y.copy[m].row /\ session'[c].copy[m].recipients = q
      BY <1>1, <1>6, <1>8, <1>12
    <3>2. /\ message[m].status = y.copy[m].row.status
          /\ \A r \in Recipients : recipient[m][r] \in {y.copy[m].recipients[r], "read"}
          /\ \A r \in Recipients : y.copy[m].recipients[r] = "pending" => notified[m][r] = 0
      BY <1>1, <2>1 DEF CopyOK
    <3>3. \A r \in Failed(m) : notified[m][r] = 0
      BY <2>1, <2>2 DEF CountsOK, Failed
    <3>4. \A r \in Recipients : p[r] \in {q[r], "read"} /\ (q[r] = "pending" => notified[m][r] = 0)
      BY <1>5, <2>2, <3>2, <3>3
    <3> QED
      BY <1>3, <1>9, <3>1, <3>2, <3>4 DEF CopyOK
  <2>4. \A t \in Sessions \ {c} : CopyOK(session[t], m)'
    BY <2>1 DEF CopyOK, Underway, InHand
  <2>5. CountsOK(m)'
    BY <1>3, <1>5, <1>9, <2>1, <2>2 DEF CountsOK
  <2> QED
    BY <2>3, <2>4, <2>5
<1>16. MessageOK(m)'
  BY <1>2, <1>3, <1>13, <1>14, <1>15 DEF MessageOK, Exists
<1>17. \A k \in DOMAIN x.copy \ {m} : Underway(session[c], k) /\ x.copy[k] = session[c].copy[k]
  BY <1>1, <1>3, <1>8 DEF Underway
<1>18. /\ c \in Clients /\ session[c].pc = "deliver" => session[c].at = m
       /\ contested \subseteq contested' /\ cut \subseteq cut' /\ patched \subseteq patched'
       /\ recipient' \in [Messages -> [Recipients -> MailStatuses]]
       /\ notified' \in [Messages -> [Recipients -> Nat]]
       /\ message' = [k \in Messages |-> message'[k]] /\ \A k \in Messages : MessageRow(message'[k])
       /\ \A k \in Messages \ {m} : /\ message'[k].status = message[k].status
                                    /\ recipient'[k] = recipient[k] /\ notified'[k] = notified[k]
  BY <1>1, <1>3, <1>9, TablesAre
<1>19. c \in Sessions /\ m \in Messages /\ SessionRow(x)
  BY <1>2, <1>4, <1>8
<1>20. ChangesOne(c, x, m)
  BY <1>7, <1>17, <1>18, <1>19 DEF ChangesOne
<1> QED
  BY <1>16, <1>20, OneMessage

(* A status given by hand is on record as such until the next delivery.    *)
LEMMA UpdateMessageKeeps ==
  ASSUME MailGiven, MailInv, NEW c \in Clients, Patch(c)
  PROVE  MailInv'
<1>1. PICK m, y, status : /\ y = session[c] /\ m = y.at /\ UpdateMessage(c, status)
                          /\ status \in Given \cup {y.copy[m].row.status}
  BY DEF Patch
<1>2. SessionRow(y) /\ c \in Sessions /\ session = [t \in Sessions |-> session[t]]
  BY <1>1, SessionIs DEF Sessions
<1>3. PICK st : /\ st = (IF status # y.copy[m].row.status THEN status ELSE message[m].status)
                /\ y.pc = "opened" /\ Exists(m) /\ UNCHANGED <<recipient, notified, contested, cut>>
                /\ message' = [message EXCEPT ![m].status = st] /\ session' = [session EXCEPT ![c] = Done]
                /\ patched' = (IF status # y.copy[m].row.status THEN patched \cup {m} ELSE patched)
  BY <1>1 DEF UpdateMessage
<1>4. m \in DOMAIN y.copy /\ m \in Messages /\ y.pc # "deliver"
  BY <1>1, <1>2, <1>3 DEF SessionRow, Copies
<1>5. st \in RowStatuses \ {"none"} /\ (m \notin patched' => st = message[m].status)
  BY <1>1, <1>3, <1>4, TablesAre DEF MailGiven, Exists, MessageRow, RowStatuses
<1>6. PICK d : d = [message[m] EXCEPT !.status = st]
  OBVIOUS
<1>7. MessageRow(d) /\ d.status = st
  <2>1. Restates(message[m], st, st, d)
    BY <1>6, Zenon DEF Restates
  <2>2. MessageRow(message[m])
    BY <1>4, TablesAre
  <2> QED
    BY <1>5, <2>1, <2>2, RowRestated
<1>8. /\ message' = [k \in Messages |-> message'[k]] /\ \A k \in Messages : MessageRow(message'[k])
      /\ message'[m].status = st /\ \A k \in Messages \ {m} : message'[k] = message[k]
  <2>1. message' = [message EXCEPT ![m] = d]
    BY <1>3, <1>4, <1>6, TablesAre
  <2> QED
    BY <1>4, <1>7, <2>1, TablesAre
<1>9. session'[c] = Done /\ \A t \in Sessions \ {c} : session'[t] = session[t]
  BY <1>2, <1>3
<1>10. /\ MessageOK(m) /\ m \in InHand(c)
       /\ m \notin InHand(c)' /\ \A t \in Sessions : InHand(t)' \subseteq InHand(t)
  BY <1>1, <1>4, <1>9, FreshIs DEF MailInv, InHand
<1>11. TakenOver(m) => TakenOver(m)'
  BY <1>1, <1>4, <1>9 DEF TakenOver, Sessions
<1>12. ASSUME m \notin contested PROVE CountsOK(m)' /\ \A t \in Sessions : CopyOK(session[t], m)'
  <2>1. CountsOK(m) /\ \A t \in Sessions : m \notin InHand(t)'
    BY <1>2, <1>3, <1>10, <1>12 DEF MessageOK
  <2>2. CountsOK(m)'
    BY <1>3, <2>1 DEF CountsOK
  <2>3. \A t \in Sessions : CopyOK(session[t], m)'
    BY <2>1 DEF CopyOK, Underway, InHand
  <2> QED
    BY <2>2, <2>3
<1>13. m \notin patched' => m \notin patched
  BY <1>3
<1>14. m \notin contested \cup cut \cup patched' /\ ~TakenOver(m)' => StatusFits(message'[m].status, recipient'[m])
  BY <1>3, <1>5, <1>8, <1>10, <1>11, <1>13 DEF MessageOK
<1>15. MessageOK(m)'
  <2>1. message'[m].status # "none"
    BY <1>5, <1>8
  <2>2. m \notin contested' => \A s, t \in Sessions : m \in InHand(s)' \cap InHand(t)' => s = t
    BY <1>3, <1>10 DEF MessageOK
  <2> QED
    BY <1>3, <1>12, <1>14, <2>1, <2>2 DEF MessageOK
<1>16. ChangesOne(c, Done, m)
  BY <1>1, <1>2, <1>3, <1>4, <1>8, FreshIs, TablesAre DEF ChangesOne
<1> QED
  BY <1>15, <1>16, OneMessage

-----------------------------------------------------------------------------
(* What a session has after it has committed a delivery.                   *)
Delivers(y, x, t, u, v) == x = [y EXCEPT !.pc = "advance", !.touched = t, !.wrote = u, !.outcome = v, !.advance = NoValue]

LEMMA DeliveredIs ==
  ASSUME NEW y, SessionRow(y), y.pc = "deliver", NEW t, NEW v, NEW x, Delivers(y, x, t, Unwritten, v)
  PROVE  SessionRow(x) /\ x.pc = "advance" /\ x.at = y.at /\ x.copy = y.copy
<1>1. PICK u : u = Unwritten
  OBVIOUS
<1>2. x = [y EXCEPT !.pc = "advance", !.touched = t, !.wrote = u, !.outcome = v, !.advance = NoValue]
  BY <1>1, Zenon DEF Delivers
<1>3. /\ x.pc = "advance" /\ x.copy = y.copy /\ x.at = y.at /\ x.wrote = u
      /\ x = [pc |-> x.pc, kind |-> x.kind, copy |-> x.copy, at |-> x.at, touched |-> x.touched,
              wrote |-> x.wrote, outcome |-> x.outcome, advance |-> x.advance]
  BY <1>2 DEF SessionRow
<1>4. Unwritten \in [Recipients -> {NoValue, "sent", "failed"}] /\ \A r \in Recipients : Unwritten[r] = NoValue
  BY DEF Unwritten
<1> QED
  BY <1>1, <1>3, <1>4 DEF SessionRow

(* The verdict fits the recipients a delivery leaves behind.               *)
LEMMA VerdictFits ==
  ASSUME NEW s \in Sessions, Remaining(s) = {}, NEW p,
         \A r \in Recipients : session[s].wrote[r] \in {NoValue, "sent", "failed"},
         \A r \in Recipients : p[r] \in {Outcomes(s)[r], "read"}
  PROVE  StatusFits(DeliveryVerdict(s), p) /\ DeliveryVerdict(s) \in {"failed", "partial", "sent"}
<1>1. \A r \in Recipients : Outcomes(s)[r] = IF session[s].wrote[r] # NoValue THEN session[s].wrote[r]
                                             ELSE session[s].copy[session[s].at].recipients[r]
  BY DEF Outcomes
<1>2. \A r \in Recipients : Outcomes(s)[r] # "pending"
  BY <1>1 DEF Remaining
<1>3. CASE \A r \in Recipients : Outcomes(s)[r] = "failed"
  <2>1. DeliveryVerdict(s) = "failed"
    BY <1>3 DEF DeliveryVerdict
  <2> QED
    BY <1>3, <2>1 DEF StatusFits
<1>4. CASE \E r, q \in Recipients : Outcomes(s)[r] = "failed" /\ Outcomes(s)[q] # "failed"
  <2>1. DeliveryVerdict(s) = "partial"
    BY <1>4 DEF DeliveryVerdict
  <2> QED
    BY <1>2, <2>1 DEF StatusFits
<1>5. CASE \A r \in Recipients : Outcomes(s)[r] # "failed"
  <2>1. DeliveryVerdict(s) = "sent" \/ Recipients = {}
    BY <1>5 DEF DeliveryVerdict
  <2> QED
    BY <1>2, <1>3, <1>5, <2>1 DEF StatusFits
<1> QED
  BY <1>3, <1>4, <1>5

LEMMA FinishDeliveryKeeps ==
  ASSUME MailGiven, MailInv, NEW c \in Sessions, FinishDelivery(c)
  PROVE  MailInv'
<1>1. PICK m, y, v, a, b : /\ y = session[c] /\ m = y.at /\ v = DeliveryVerdict(c)
                           /\ a = y.advance /\ b = Advanced(a)
  OBVIOUS
<1>2. SessionRow(y) /\ c \in Sessions /\ session = [t \in Sessions |-> session[t]]
  BY <1>1, SessionIs
<1>3. /\ y.pc = "deliver" /\ Exists(m) /\ Remaining(c) = {} /\ UNCHANGED <<contested, cut>>
      /\ patched' = patched \ {m}
  BY <1>1 DEF FinishDelivery
<1>4. /\ m \in DOMAIN y.copy /\ m \in Messages /\ y.copy[m].recipients \in [Recipients -> MailStatuses]
      /\ y.wrote \in [Recipients -> {NoValue, "sent", "failed"}]
      /\ \A r \in Recipients : y.wrote[r] # NoValue => y.copy[m].recipients[r] = "pending"
  BY <1>1, <1>2, <1>3 DEF SessionRow, Copies
<1>5. PICK p, n : /\ p = [r \in Recipients |-> IF y.wrote[r] # NoValue THEN y.wrote[r] ELSE recipient[m][r]]
                  /\ n = [r \in Recipients |-> IF y.wrote[r] = "sent" THEN notified[m][r] + 1 ELSE notified[m][r]]
                  /\ recipient' = [recipient EXCEPT ![m] = p] /\ notified' = [notified EXCEPT ![m] = n]
  BY <1>1 DEF FinishDelivery
<1>6. PICK st : /\ st = (IF v # y.copy[m].row.status \/ v # Assumed(c) THEN v ELSE b[m].status)
                /\ message' = [b EXCEPT ![m].status = st]
  BY <1>1 DEF FinishDelivery
<1>7. PICK t, x : /\ t = FALSE /\ session' = [session EXCEPT ![c] = x]
                  /\ x = (IF c \in Clients THEN Done
                          ELSE [y EXCEPT !.pc = "advance", !.touched = t, !.wrote = Unwritten,
                                         !.outcome = v, !.advance = NoValue])
  BY <1>1, Zenon DEF FinishDelivery
<1>8. SessionRow(x) /\ DOMAIN x.copy \subseteq DOMAIN y.copy /\ (\A k \in DOMAIN x.copy : x.copy[k] = y.copy[k])
      /\ ~Underway(x, m) /\ x.pc # "deliver"
  <2>1. CASE c \in Clients
    BY <1>7, <2>1, FreshIs DEF Underway
  <2>2. CASE c \notin Clients
    <3>1. Delivers(y, x, t, Unwritten, v)
      BY <1>7, <2>2, Zenon DEF Delivers
    <3> QED
      BY <1>1, <1>2, <1>3, <3>1, DeliveredIs DEF Underway
  <2> QED
    BY <2>1, <2>2
<1>9. /\ b = [k \in Messages |-> b[k]]
      /\ \A k \in Messages : MessageRow(b[k]) /\ b[k].status = message[k].status
  BY <1>1, AdvancedIs
<1>10. \A r \in Recipients : /\ p[r] = IF y.wrote[r] # NoValue THEN y.wrote[r] ELSE recipient[m][r]
                             /\ n[r] = IF y.wrote[r] = "sent" THEN notified[m][r] + 1 ELSE notified[m][r]
  BY <1>5
<1>11. /\ recipient' \in [Messages -> [Recipients -> MailStatuses]] /\ recipient'[m] = p
       /\ notified' \in [Messages -> [Recipients -> Nat]] /\ notified'[m] = n
       /\ \A k \in Messages \ {m} : recipient'[k] = recipient[k] /\ notified'[k] = notified[k]
  <2>1. p \in [Recipients -> MailStatuses] /\ n \in [Recipients -> Nat]
    BY <1>4, <1>5, TablesAre DEF MailStatuses
  <2> QED
    BY <1>4, <1>5, <2>1, TablesAre
<1>12. v \in {"failed", "partial", "sent"}
  BY <1>1 DEF DeliveryVerdict
<1>13. PICK d : d = [b[m] EXCEPT !.status = st]
  OBVIOUS
<1>14. MessageRow(d) /\ d.status = st /\ st \in RowStatuses \ {"none"}
  <2>1. st \in RowStatuses \ {"none"}
    BY <1>3, <1>4, <1>6, <1>9, <1>12, TablesAre DEF Exists, MessageRow, RowStatuses
  <2>2. Restates(b[m], st, st, d)
    BY <1>13, Zenon DEF Restates
  <2>3. MessageRow(b[m])
    BY <1>4, <1>9
  <2>4. MessageRow(d) /\ d.status = st
    BY <2>1, <2>2, <2>3, RowRestated
  <2> QED
    BY <2>1, <2>4
<1>15. /\ message' = [k \in Messages |-> message'[k]] /\ \A k \in Messages : MessageRow(message'[k])
       /\ message'[m].status = st /\ \A k \in Messages \ {m} : message'[k].status = message[k].status
  <2>1. message' = [b EXCEPT ![m] = d]
    BY <1>4, <1>6, <1>9, <1>13
  <2> QED
    BY <1>4, <1>9, <1>14, <2>1
<1>16. session'[c] = x /\ \A u \in Sessions \ {c} : session'[u] = session[u]
  BY <1>2, <1>7
<1>17. MessageOK(m) /\ m \in InHand(c) /\ \A u \in Sessions : InHand(u)' \subseteq InHand(u)
  BY <1>1, <1>4, <1>8, <1>16 DEF MailInv, InHand
<1>18. ASSUME m \notin contested
       PROVE  /\ CountsOK(m)' /\ \A u \in Sessions : CopyOK(session[u], m)'
              /\ StatusFits(message'[m].status, recipient'[m])
  <2>1. /\ CountsOK(m) /\ CopyOK(session[c], m) /\ Underway(session[c], m)
        /\ \A u \in Sessions \ {c} : m \notin InHand(u)'
    BY <1>1, <1>2, <1>3, <1>4, <1>17, <1>18 DEF MessageOK, Underway
  <2>2. /\ message[m].status = y.copy[m].row.status
        /\ \A r \in Recipients : recipient[m][r] \in {y.copy[m].recipients[r], "read"}
        /\ \A r \in Recipients : y.copy[m].recipients[r] = "pending" => notified[m][r] = 0
    BY <1>1, <2>1 DEF CopyOK
  <2>3. \A u \in Sessions : CopyOK(session[u], m)'
    BY <1>8, <1>16, <2>1 DEF CopyOK, Underway, InHand
  <2>4. CountsOK(m)'
    <3> SUFFICES ASSUME NEW r \in Recipients
                 PROVE  /\ n[r] <= 1 /\ (p[r] = "sent" => n[r] = 1)
                        /\ p[r] \in {"pending", "failed"} => n[r] = 0
      BY <1>11 DEF CountsOK
    <3>1. CASE y.wrote[r] = NoValue
      BY <1>10, <2>1, <3>1 DEF CountsOK, MailGiven
    <3>2. CASE y.wrote[r] \in {"sent", "failed"}
      BY <1>4, <1>10, <2>2, <3>2 DEF MailGiven
    <3> QED
      BY <1>4, <3>1, <3>2
  <2>5. st = v
    BY <1>4, <1>6, <1>9, <2>2
  <2>6. \A r \in Recipients : p[r] \in {Outcomes(c)[r], "read"}
    BY <1>1, <1>10, <2>2 DEF Outcomes
  <2>7. StatusFits(v, p)
    BY <1>1, <1>3, <1>4, <2>6, VerdictFits
  <2> QED
    BY <1>11, <1>15, <2>3, <2>4, <2>5, <2>7
<1>19. MessageOK(m)'
  BY <1>3, <1>14, <1>15, <1>17, <1>18 DEF MessageOK
<1>20. ChangesOne(c, x, m)
  <2>1. \A k \in DOMAIN x.copy \ {m} : Underway(session[c], k) /\ x.copy[k] = session[c].copy[k]
    BY <1>1, <1>3, <1>8 DEF Underway
  <2> QED
    BY <1>1, <1>3, <1>4, <1>7, <1>8, <1>11, <1>15, <2>1 DEF ChangesOne
<1> QED
  BY <1>19, <1>20, OneMessage

LEMMA StepMail ==
  ASSUME MailGiven, MailInv, [MailNext]_mailVars
  PROVE  MailInv'
<1>1. ASSUME NEW s \in Sessions, Step(s) PROVE MailInv'
  <2>1. CASE \E r \in Recipients : DeliverTo(s, r)
    BY <2>1, DeliverToKeeps
  <2>2. CASE FinishDelivery(s)
    BY <2>2, FinishDeliveryKeeps
  <2>3. CASE MeetDeleted(s) \/ BreakDeadlock(s)
    BY <2>3, RollbackKeeps DEF MeetDeleted, BreakDeadlock
  <2>4. CASE s \in Workers /\ OpenDispatch(s)
    BY <2>4, OpenDispatchKeeps
  <2>5. CASE s \in Workers /\ (NextMessage(s) \/ TouchMessage(s) \/ AdvanceSchedule(s))
    BY <2>5, WorkerKeeps
  <2>6. CASE s \in Workers /\ FinishDispatch(s)
    BY <2>6, FinishDispatchKeeps
  <2>7. CASE s \in Clients /\ SendNow(s)
    BY <2>7, SendNowKeeps
  <2>8. CASE s \in Clients /\ RetryFailed(s)
    BY <2>8, RetryKeeps
  <2>9. CASE s \in Clients /\ Patch(s)
    BY <2>9, UpdateMessageKeeps
  <2> QED
    BY <1>1, <2>1, <2>2, <2>3, <2>4, <2>5, <2>6, <2>7, <2>8, <2>9 DEF Step
<1>2. ASSUME NEW s \in Sessions, Crash(s) PROVE MailInv'
  BY <1>2, RollbackKeeps DEF Crash
<1>3. ASSUME NEW c \in Clients, NEW m \in Messages, Ask(c, m) PROVE MailInv'
  <2>1. CASE Schedule(c, m)
    BY <2>1, ScheduleKeeps
  <2>2. CASE Send(c, m)
    BY <2>2, SendKeeps
  <2>3. CASE DeleteMessage(c, m)
    BY <2>3, DeleteKeeps
  <2>4. CASE \E r \in Recipients : MarkAsRead(c, m, r)
    BY <2>4, MarkAsReadKeeps
  <2>5. CASE \E kind \in {"send_now", "retry", "patch"} : OpenRequest(c, kind, m)
    BY <2>5, OpenRequestKeeps
  <2> QED
    BY <1>3, <2>1, <2>2, <2>3, <2>4, <2>5 DEF Ask
<1>4. ASSUME NEW m \in Messages, ComeDue(m) PROVE MailInv'
  BY <1>4, ComeDueKeeps
<1>5. ASSUME UNCHANGED mailVars PROVE MailInv'
  <2>1. MailShapes'
    BY <1>5 DEF mailVars, MailInv, MailShapes
  <2>2. ASSUME NEW m \in Messages PROVE MessageOK(m)'
    BY <1>5, Untouched DEF mailVars, InHand, TakenOver
  <2> QED
    BY <2>1, <2>2 DEF MailInv
<1> QED
  BY <1>1, <1>2, <1>3, <1>4, <1>5 DEF MailNext

LEMMA MailHolds == MailSpec => []MailInv
<1>0. MailGiven
  BY CommunicationsAssumption DEF MailGiven
<1>1. MailInv /\ [MailNext]_mailVars => MailInv'
  BY <1>0, StepMail
<1> QED
  BY InitMail, <1>1, PTL DEF MailSpec

(* dispatch_due_schedules says a worker restart or a duplicate job cannot  *)
(* deliver twice: it cannot, whatever dies, deadlocks or is retried, as    *)
(* long as no two sessions have the message in hand.                       *)
THEOREM MailOnce == MailSpec => []NotifiedOnce
<1>1. MailInv => NotifiedOnce
  BY DEF MailInv, MessageOK, CountsOK, NotifiedOnce
<1> QED
  BY MailHolds, <1>1, PTL

(* Message.status is what _deliver's verdict says of the recipients        *)
(* whenever nobody works on the message.                                   *)
THEOREM StatusIsTrue == MailSpec => []StatusTells
<1>1. ASSUME MailInv PROVE StatusTells
  <2>1. ASSUME NEW m \in Messages \ (contested \cup cut \cup patched), \A s \in Sessions : m \notin InHand(s)
        PROVE  StatusFits(message[m].status, recipient[m])
    <3>1. ~TakenOver(m)
      <4> SUFFICES ASSUME NEW c \in Clients, session[c].at = m, session[c].pc = "deliver" PROVE FALSE
        BY DEF TakenOver
      <4>1. c \in Sessions /\ SessionRow(session[c])
        BY <1>1, SessionIs DEF Sessions
      <4>2. m \in DOMAIN session[c].copy
        BY <4>1 DEF SessionRow
      <4> QED
        BY <2>1, <4>1, <4>2 DEF InHand
    <3> QED
      BY <1>1, <2>1, <3>1 DEF MailInv, MessageOK
  <2> QED
    BY <2>1 DEF StatusTells, StatusFits
<1> QED
  BY MailHolds, <1>1, PTL
=============================================================================
