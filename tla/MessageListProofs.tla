-------------------------- MODULE MessageListProofs --------------------------
(***************************************************************************)
(* What holds of MessageList for every set of addresses, every value of    *)
(* when and every number of messages.  The lemmas on Linked are about two  *)
(* link functions and the ranks of the cells, and about no variable.       *)
(***************************************************************************)
EXTENDS MessageList, FiniteSetTheorems, TLAPS

-----------------------------------------------------------------------------
(* Chained, of any links.                                                  *)
Linked(Q, nxt, bef, rank) ==
  /\ \A c \in Q \cup {Head} :
       /\ nxt[c] \in Q \cup {Tail}
       /\ bef[nxt[c]] = c
       /\ rank[nxt[c]] < rank[c]
       /\ \A m \in Q : rank[m] < rank[c] => rank[m] <= rank[nxt[c]]
  /\ \A c \in Q \cup {Tail} :
       bef[c] \in Q \cup {Head} /\ nxt[bef[c]] = c

Ranks == [c \in Cells |-> Rank(c)]

(* Ranks tell the cells of a list apart, and the list is between the sentinels. *)
Ordered(Q, rank) ==
  /\ \A m, n \in Q : rank[m] = rank[n] => m = n
  /\ \A m \in Q : rank[Tail] < rank[m] /\ rank[m] < rank[Head]

(* Linking in a cell that is newer than all others.                        *)
LEMMA LinkKeeps ==
  ASSUME NEW Q \in SUBSET Addresses,
         NEW nxt \in [Cells -> Cells], NEW bef \in [Cells -> Cells],
         NEW rank \in [Cells -> Int], NEW rank2 \in [Cells -> Int],
         NEW m \in Addresses, m \notin Q,
         Linked(Q, nxt, bef, rank), Ordered(Q, rank),
         \A c \in Q \cup {Tail} : rank2[c] = rank[c],
         rank2[m] = rank[Head], rank2[Head] > rank[Head]
  PROVE  /\ Linked(Q \cup {m},
                   [nxt EXCEPT ![m] = nxt[Head], ![Head] = m],
                   [bef EXCEPT ![nxt[Head]] = m, ![m] = Head], rank2)
         /\ Ordered(Q \cup {m}, rank2)
<1> DEFINE first == nxt[Head]
           nxt2 == [nxt EXCEPT ![m] = first, ![Head] = m]
           bef2 == [bef EXCEPT ![first] = m, ![m] = Head]
<1>1. first \in Q \cup {Tail} /\ first \in Cells /\ first # m /\ first # Head /\ m # Head /\ m # Tail
  BY SentinelsDiffer DEF Linked, Cells
<1>2. /\ nxt2[Head] = m /\ nxt2[m] = first
      /\ \A c \in Q : nxt2[c] = nxt[c]
      /\ bef2[m] = Head /\ bef2[first] = m
      /\ \A c \in (Q \cup {Tail}) \ {first} : bef2[c] = bef[c]
  BY <1>1, SentinelsDiffer DEF Cells
<1>3. \A c \in Q : nxt[c] # first
  BY SentinelsDiffer, <1>1 DEF Linked
<1>4. /\ \A c \in Q : rank[c] \in Int /\ rank2[c] = rank[c] /\ rank[c] < rank[Head] /\ rank[Tail] < rank[c]
      /\ rank[Head] \in Int /\ rank[Tail] \in Int /\ rank2[Tail] = rank[Tail]
      /\ rank2[Head] \in Int
      /\ rank[Tail] < rank[Head] /\ rank[first] < rank[Head] /\ rank2[first] = rank[first]
  <2>1. rank[Tail] < rank[Head]
    BY <1>1 DEF Cells, Linked, Ordered
  <2>2. QED
    BY <2>1, <1>1 DEF Cells, Linked, Ordered
<1>5. Ordered(Q \cup {m}, rank2)
  BY <1>4, <1>1 DEF Ordered
<1> HIDE DEF nxt2, bef2
<1>6. ASSUME NEW c \in Q \cup {m} \cup {Head}
      PROVE  /\ nxt2[c] \in Q \cup {m} \cup {Tail}
             /\ bef2[nxt2[c]] = c
             /\ rank2[nxt2[c]] < rank2[c]
             /\ \A n \in Q \cup {m} : rank2[n] < rank2[c] => rank2[n] <= rank2[nxt2[c]]
  <2>1. CASE c = Head
    BY <2>1, <1>1, <1>2, <1>4
  <2>2. CASE c = m
    <3>1. \A n \in Q : rank[n] <= rank[first]
      BY <1>4 DEF Linked
    <3>2. QED
      BY <2>2, <3>1, <1>1, <1>2, <1>4
  <2>3. CASE c \in Q
    <3> DEFINE d == nxt[c]
    <3>1. /\ d \in Q \cup {Tail} /\ bef[d] = c /\ rank[d] < rank[c]
          /\ \A n \in Q : rank[n] < rank[c] => rank[n] <= rank[d]
      BY <2>3 DEF Linked
    <3>2. nxt2[c] = d /\ d # first /\ bef2[d] = bef[d]
      BY <2>3, <1>2, <1>3, <3>1
    <3>3. rank2[d] = rank[d] /\ rank2[c] = rank[c] /\ rank2[m] > rank2[c]
      BY <2>3, <1>4, <3>1
    <3> HIDE DEF d
    <3>4. QED
      BY <2>3, <1>4, <3>1, <3>2, <3>3
  <2>4. QED
    BY <2>1, <2>2, <2>3
<1>7. ASSUME NEW c \in Q \cup {m} \cup {Tail}
      PROVE  bef2[c] \in Q \cup {m} \cup {Head} /\ nxt2[bef2[c]] = c
  <2>1. CASE c = m
    BY <2>1, <1>2
  <2>2. CASE c = first
    BY <2>2, <1>2
  <2>3. CASE c # m /\ c # first
    <3>1. bef2[c] = bef[c] /\ bef[c] \in Q \cup {Head} /\ nxt[bef[c]] = c
      BY <2>3, <1>2 DEF Linked
    <3>2. bef[c] # Head
      BY <3>1, <2>3
    <3>3. QED
      BY <3>1, <3>2, <1>2
  <2>4. QED
    BY <2>1, <2>2, <2>3
<1>8. Linked(Q \cup {m}, nxt2, bef2, rank2)
  BY <1>6, <1>7 DEF Linked
<1>9. QED
  BY <1>5, <1>8 DEF nxt2, bef2

(* Unlinking a cell of the list.                                           *)
LEMMA UnlinkKeeps ==
  ASSUME NEW Q \in SUBSET Addresses,
         NEW nxt \in [Cells -> Cells], NEW bef \in [Cells -> Cells],
         NEW rank \in [Cells -> Int],
         NEW m \in Q,
         Linked(Q, nxt, bef, rank), Ordered(Q, rank)
  PROVE  /\ Linked(Q \ {m}, [nxt EXCEPT ![bef[m]] = nxt[m]],
                            [bef EXCEPT ![nxt[m]] = bef[m]], rank)
         /\ Ordered(Q \ {m}, rank)
<1> DEFINE b == bef[m]
           n == nxt[m]
           nxt2 == [nxt EXCEPT ![b] = n]
           bef2 == [bef EXCEPT ![n] = b]
<1>1. /\ b \in Q \cup {Head} /\ nxt[b] = m
      /\ n \in Q \cup {Tail} /\ bef[n] = m
      /\ rank[n] < rank[m] /\ rank[m] < rank[b]
      /\ m # Head /\ m # Tail
  BY SentinelsDiffer DEF Linked
<1>2. \A c \in Q \cup {Head, Tail} : c \in Cells /\ rank[c] \in Int
  BY DEF Cells
<1>3. b # m /\ n # m
  BY <1>1, <1>2
<1>4. /\ nxt2[b] = n /\ bef2[n] = b
      /\ \A c \in (Q \cup {Head}) \ {b} : nxt2[c] = nxt[c]
      /\ \A c \in (Q \cup {Tail}) \ {n} : bef2[c] = bef[c]
  BY <1>1, <1>2
<1>5. Ordered(Q \ {m}, rank)
  BY DEF Ordered
<1>6. \A o \in Q \ {m} : rank[o] # rank[m]
  BY DEF Ordered
<1> HIDE DEF nxt2, bef2
<1>7. ASSUME NEW c \in (Q \ {m}) \cup {Head}
      PROVE  /\ nxt2[c] \in (Q \ {m}) \cup {Tail}
             /\ bef2[nxt2[c]] = c
             /\ rank[nxt2[c]] < rank[c]
             /\ \A o \in Q \ {m} : rank[o] < rank[c] => rank[o] <= rank[nxt2[c]]
  <2>1. CASE c = b
    <3>1. \A o \in Q \ {m} : rank[o] < rank[b] => rank[o] <= rank[m]
      BY <1>1 DEF Linked
    <3>2. \A o \in Q \ {m} : rank[o] < rank[m] => rank[o] <= rank[n]
      BY DEF Linked
    <3>3. \A o \in Q \ {m} : rank[o] < rank[b] => rank[o] <= rank[n]
      BY <3>1, <3>2, <1>6, <1>2, <1>1
    <3>4. rank[n] < rank[b]
      BY <1>1, <1>2
    <3> HIDE DEF b, n
    <3>5. QED
      BY <2>1, <3>3, <3>4, <1>1, <1>3, <1>4
  <2>2. CASE c # b
    <3> DEFINE d == nxt[c]
    <3>1. /\ d \in Q \cup {Tail} /\ bef[d] = c /\ rank[d] < rank[c]
          /\ \A o \in Q : rank[o] < rank[c] => rank[o] <= rank[d]
      BY DEF Linked
    <3>2. d # m /\ d # n
      BY <3>1, <2>2, <1>1
    <3>3. nxt2[c] = d /\ bef2[d] = c
      BY <3>1, <3>2, <2>2, <1>4
    <3> HIDE DEF d
    <3>4. QED
      BY <3>1, <3>2, <3>3, <1>1
  <2>3. QED
    BY <2>1, <2>2
<1>8. ASSUME NEW c \in (Q \ {m}) \cup {Tail}
      PROVE  bef2[c] \in (Q \ {m}) \cup {Head} /\ nxt2[bef2[c]] = c
  <2>1. CASE c = n
    BY <2>1, <1>1, <1>3, <1>4
  <2>2. CASE c # n
    <3>1. bef2[c] = bef[c] /\ bef[c] \in Q \cup {Head} /\ nxt[bef[c]] = c
      BY <2>2, <1>4 DEF Linked
    <3>2. bef[c] # m /\ bef[c] # b
      BY <3>1, <2>2, <1>1
    <3>3. QED
      BY <3>1, <3>2, <1>4
  <2>3. QED
    BY <2>1, <2>2
<1>9. Linked(Q \ {m}, nxt2, bef2, rank)
  BY <1>7, <1>8 DEF Linked
<1>10. QED
  BY <1>5, <1>9 DEF nxt2, bef2

-----------------------------------------------------------------------------
(* The inductive invariant.                                                *)

(* The messages in the list were put in at different times.                *)
Stamped ==
  /\ \A m \in queued : stamp[m] \in 1 .. inserted
  /\ \A m, n \in queued : stamp[m] = stamp[n] => m = n

Before(m, n) == when[m] <= when[n] /\ (when[m] = when[n] => stamp[m] <= stamp[n])

(* What the loops have established when they come to index: the scan that  *)
(* no message behind index is due before temp, the search that temp is     *)
(* still ahead of it.                                                      *)
Settled ==
  /\ at = "scan" =>
       /\ \A n \in queued : Rank(n) < Rank(index) => Before(temp, n)
       /\ Rank(temp) <= Rank(index)
  /\ at = "remove" => IsEarliest(temp) /\ Rank(temp) <= Rank(index)

IInv == TypeOK /\ Chained /\ SizeCounts /\ LoopsStayInList /\ Stamped /\ Settled

LEMMA RanksOfCells ==
  ASSUME TypeOK, Stamped
  PROVE  /\ Ranks \in [Cells -> Int]
         /\ \A c \in Cells : Ranks[c] = Rank(c)
         /\ Rank(Head) = inserted + 1 /\ Rank(Tail) = 0
         /\ \A m \in Addresses : Rank(m) = stamp[m]
         /\ Ordered(queued, Ranks)
<1>1. \A c \in Cells : Rank(c) \in Int
  BY DEF Rank, TypeOK, Cells
<1>2. /\ Rank(Head) = inserted + 1 /\ Rank(Tail) = 0
      /\ \A m \in Addresses : Rank(m) = stamp[m]
  BY SentinelsDiffer DEF Rank
<1>3. /\ Ranks \in [Cells -> Int]
      /\ \A c \in Cells : Ranks[c] = Rank(c)
  BY <1>1 DEF Ranks
<1>4. \A m \in queued : m \in Cells /\ m \in Addresses /\ stamp[m] \in 1 .. inserted
  BY DEF TypeOK, Cells, Stamped
<1>5. Head \in Cells /\ Tail \in Cells /\ inserted \in Nat
  BY DEF Cells, TypeOK
<1>6. Ordered(queued, Ranks)
  BY <1>2, <1>3, <1>4, <1>5 DEF Ordered, Stamped
<1>7. QED
  BY <1>2, <1>3, <1>6

LEMMA ChainedIsLinked ==
  ASSUME TypeOK, Stamped
  PROVE  Chained <=> Linked(queued, mNext, mBefore, Ranks)
<1>1. queued \cup {Head, Tail} \subseteq Cells /\ \A c \in Cells : Ranks[c] = Rank(c)
  BY RanksOfCells DEF TypeOK, Cells
<1>2. ASSUME \A c \in queued \cup {Head} : mNext[c] \in queued \cup {Tail}
      PROVE  Chained <=> Linked(queued, mNext, mBefore, Ranks)
  <2>1. \A c \in queued \cup {Head} : Ranks[c] = Rank(c) /\ Ranks[mNext[c]] = Rank(mNext[c])
    BY <1>1, <1>2
  <2>2. \A m \in queued : Ranks[m] = Rank(m)
    BY <1>1
  <2>3. QED
    BY <2>1, <2>2 DEF Chained, Linked
<1>3. QED
  BY <1>2 DEF Chained, Linked

LEMMA InitHolds == Init => IInv
<1> SUFFICES ASSUME Init PROVE IInv
  OBVIOUS
<1>1. Head \in Cells /\ Tail \in Cells /\ Head # Tail
  BY SentinelsDiffer DEF Cells
<1>2. TypeOK
  BY <1>1, BoundsAreNumbers DEF Init, TypeOK
<1>3. /\ mNext[Head] = Tail /\ mBefore[Head] = Tail
      /\ mNext[Tail] = Head /\ mBefore[Tail] = Head /\ queued = {} /\ inserted = 0
  BY <1>1 DEF Init
<1>4. Chained
  BY <1>1, <1>3 DEF Chained, Rank
<1>5. SizeCounts
  BY FS_EmptySet DEF Init, SizeCounts
<1>6. LoopsStayInList /\ Stamped /\ Settled
  BY DEF Init, LoopsStayInList, Stamped, Settled
<1>7. QED
  BY <1>2, <1>4, <1>5, <1>6 DEF IInv

(* Taking one message out of the list, by whichever loop.                  *)
TakesOut(m) ==
  /\ mNext' = [mNext EXCEPT ![mBefore[m]] = mNext[m]]
  /\ mBefore' = [mBefore EXCEPT ![mNext[m]] = mBefore[m]]
  /\ mQueueSize' = mQueueSize - 1
  /\ queued' = queued \ {m}
  /\ UNCHANGED <<when, stamp, inserted>>

LEMMA TakingOut ==
  ASSUME IInv, NEW m \in queued, TakesOut(m)
  PROVE  /\ mNext' \in [Cells -> Cells] /\ mBefore' \in [Cells -> Cells]
         /\ mQueueSize' \in Nat /\ queued' \subseteq Addresses
         /\ Chained' /\ SizeCounts' /\ Stamped'
<1>1. /\ queued \in SUBSET Addresses
      /\ mNext \in [Cells -> Cells] /\ mBefore \in [Cells -> Cells]
  BY DEF IInv, TypeOK
<1>2. /\ mNext' \in [Cells -> Cells] /\ mBefore' \in [Cells -> Cells]
      /\ queued' \subseteq Addresses
  BY <1>1 DEF TakesOut, Cells
<1>3. SizeCounts' /\ mQueueSize' \in Nat
  <2>1. IsFiniteSet(queued)
    BY <1>1, AddressesFinite, FS_Subset
  <2>2. Cardinality(queued \ {m}) = Cardinality(queued) - 1 /\ IsFiniteSet(queued \ {m})
    BY <2>1, FS_RemoveElement
  <2>3. Cardinality(queued \ {m}) \in Nat
    BY <2>2, FS_CardinalityType
  <2>4. QED
    BY <2>2, <2>3 DEF TakesOut, SizeCounts, IInv
<1>4. Stamped'
  BY DEF TakesOut, Stamped, IInv
<1>5. Ranks' = Ranks
  BY DEF TakesOut, Ranks, Rank
<1>6. Ranks \in [Cells -> Int] /\ Ordered(queued, Ranks)
  BY RanksOfCells DEF IInv
<1>7. Linked(queued, mNext, mBefore, Ranks)
  BY ChainedIsLinked DEF IInv
<1>8. Linked(queued', mNext', mBefore', Ranks)
  BY <1>1, <1>6, <1>7, UnlinkKeeps DEF TakesOut
<1>9. \A c \in queued' \cup {Head, Tail} : c \in Cells
  BY <1>2 DEF Cells
<1>10. Chained'
  <2>1. \A c \in Cells : Ranks[c] = Rank(c)'
    <3>1. \A c \in Cells : Ranks[c] = Rank(c)
      BY RanksOfCells DEF IInv
    <3>2. QED
      BY <3>1 DEF Rank, TakesOut
  <2>2. \A c \in queued' \cup {Head} : mNext'[c] \in queued' \cup {Tail}
    BY <1>8 DEF Linked
  <2>3. \A c \in queued' \cup {Head} :
           Ranks[c] = Rank(c)' /\ Ranks[mNext'[c]] = Rank(mNext[c])'
    <3>1. \A c \in Cells : mNext'[c] \in Cells
      BY <1>2
    <3>2. QED
      BY <3>1, <1>9, <2>1 DEF Rank
  <2>4. \A o \in queued' : Ranks[o] = Rank(o)'
    BY <2>1, <1>9
  <2>5. QED
    BY <1>8, <2>3, <2>4 DEF Linked, Chained
<1>11. QED
  BY <1>2, <1>3, <1>4, <1>10

(* Putting one message in.                                                 *)
LEMMA PuttingIn ==
  ASSUME IInv, NEW m \in Addresses, NEW due \in Times, QueueAtFront(m, due)
  PROVE  IInv'
<1>1. /\ queued \in SUBSET Addresses /\ m \notin queued
      /\ mNext \in [Cells -> Cells] /\ mBefore \in [Cells -> Cells]
      /\ inserted \in Nat /\ inserted < MaxInserts /\ MaxInserts \in Nat
      /\ stamp \in [Addresses -> 0 .. inserted]
      /\ m \in Cells /\ Head \in Cells /\ mNext[Head] \in Cells
      /\ m # Head /\ m # Tail
  BY BoundsAreNumbers, SentinelsDiffer DEF IInv, TypeOK, QueueAtFront, Cells
<1>2. /\ mNext' \in [Cells -> Cells] /\ mBefore' \in [Cells -> Cells]
      /\ queued' \subseteq Addresses /\ inserted' = inserted + 1
  BY <1>1 DEF QueueAtFront, LinkFirst
<1>3. stamp' \in [Addresses -> 0 .. inserted'] /\ stamp'[m] = inserted + 1
      /\ \A n \in Addresses \ {m} : stamp'[n] = stamp[n]
  <2>1. stamp' = [stamp EXCEPT ![m] = inserted + 1]
    BY DEF QueueAtFront
  <2>2. \A n \in Addresses : stamp[n] \in 0 .. inserted'
    BY <1>1, <1>2
  <2>3. inserted + 1 \in 0 .. inserted'
    BY <1>1, <1>2
  <2>4. QED
    BY <2>1, <2>2, <2>3, <1>1
<1>4. TypeOK'
  <2>1. when' \in [Addresses -> Int]
    BY BoundsAreNumbers DEF QueueAtFront, IInv, TypeOK
  <2>2. inserted' \in 0 .. MaxInserts
    BY <1>1, <1>2
  <2>3. QED
    BY <1>2, <1>3, <2>1, <2>2 DEF IInv, TypeOK, QueueAtFront
<1>5. Stamped'
  <2>1. \A n \in queued' : n = m \/ n \in queued
    BY DEF QueueAtFront
  <2>2. \A n \in queued : n # m /\ stamp[n] \in 1 .. inserted /\ stamp'[n] = stamp[n]
    BY <1>1, <1>3 DEF IInv, Stamped
  <2>3. \A n \in queued : stamp'[n] # stamp'[m]
    BY <2>2, <1>1, <1>3
  <2>4. \A n, o \in queued : stamp[n] = stamp[o] => n = o
    BY DEF IInv, Stamped
  <2>5. \A n \in queued' : stamp'[n] \in 1 .. inserted'
    BY <2>1, <2>2, <1>1, <1>2, <1>3
  <2>6. \A n, o \in queued' : stamp'[n] = stamp'[o] => n = o
    BY <2>1, <2>2, <2>3, <2>4
  <2>7. QED
    BY <2>5, <2>6 DEF Stamped
<1>6. SizeCounts'
  <2>1. IsFiniteSet(queued)
    BY <1>1, AddressesFinite, FS_Subset
  <2>2. Cardinality(queued \cup {m}) = Cardinality(queued) + 1
    BY <2>1, <1>1, FS_AddElement
  <2>3. QED
    BY <2>2 DEF QueueAtFront, SizeCounts, IInv
<1>7. Chained'
  <2>1. /\ Ranks \in [Cells -> Int] /\ Ordered(queued, Ranks)
        /\ \A c \in Cells : Ranks[c] = Rank(c)
        /\ Rank(Head) = inserted + 1 /\ Rank(Tail) = 0
        /\ \A n \in Addresses : Rank(n) = stamp[n]
    BY RanksOfCells DEF IInv
  <2>2. /\ Ranks' \in [Cells -> Int]
        /\ \A c \in Cells : Ranks'[c] = Rank(c)'
        /\ Rank(Head)' = inserted' + 1 /\ Rank(Tail)' = 0
        /\ \A n \in Addresses : Rank(n)' = stamp'[n]
    <3>1. \A c \in Cells : Rank(c)' \in Int
      BY <1>2, <1>3, <1>1 DEF Rank, Cells
    <3>2. Rank(Head)' = inserted' + 1 /\ Rank(Tail)' = 0
      BY SentinelsDiffer DEF Rank
    <3>3. \A n \in Addresses : Rank(n)' = stamp'[n]
      BY SentinelsDiffer DEF Rank
    <3>4. Ranks' \in [Cells -> Int] /\ \A c \in Cells : Ranks'[c] = Rank(c)'
      BY <3>1 DEF Ranks
    <3>5. QED
      BY <3>2, <3>3, <3>4
  <2>3. /\ \A c \in queued \cup {Tail} : Ranks'[c] = Ranks[c]
        /\ Ranks'[m] = Ranks[Head] /\ Ranks'[Head] > Ranks[Head]
    <3>1. \A c \in queued : c \in Cells /\ c \in Addresses /\ c # m
      BY <1>1 DEF Cells
    <3>2. \A c \in queued : Ranks'[c] = stamp'[c] /\ Ranks[c] = stamp[c] /\ stamp'[c] = stamp[c]
      BY <3>1, <2>1, <2>2, <1>3
    <3>3. Ranks'[Tail] = 0 /\ Ranks[Tail] = 0 /\ Ranks'[m] = inserted + 1
          /\ Ranks[Head] = inserted + 1 /\ Ranks'[Head] = inserted + 2
      BY <2>1, <2>2, <1>1, <1>2, <1>3 DEF Cells
    <3>4. QED
      BY <3>2, <3>3, <1>1
  <2>4. Linked(queued, mNext, mBefore, Ranks)
    BY ChainedIsLinked DEF IInv
  <2>5. Linked(queued', mNext', mBefore', Ranks')
    <3>1. Linked(queued \cup {m}, [mNext EXCEPT ![m] = mNext[Head], ![Head] = m],
                 [mBefore EXCEPT ![mNext[Head]] = m, ![m] = Head], Ranks')
      BY <1>1, <2>1, <2>2, <2>3, <2>4, LinkKeeps
    <3>2. QED
      BY <3>1 DEF QueueAtFront, LinkFirst
  <2>6. \A c \in queued' \cup {Head} :
           /\ c \in Cells /\ Ranks'[c] = Rank(c)'
           /\ Ranks'[mNext'[c]] = Rank(mNext[c])'
    <3>1. \A c \in Cells : mNext'[c] \in Cells
      BY <1>2
    <3>2. QED
      BY <3>1, <1>2, <2>2 DEF Cells, Rank
  <2>7. QED
    BY <2>5, <2>6 DEF Linked, Chained
<1>8. LoopsStayInList' /\ Settled'
  BY DEF QueueAtFront, LoopsStayInList, Settled, IInv
<1>9. QED
  BY <1>4, <1>5, <1>6, <1>7, <1>8 DEF IInv

(* Steps that change no link, no size and no message.                      *)
Links == <<mNext, mBefore, mQueueSize, when, queued, stamp, inserted>>

LEMMA SameLinks ==
  ASSUME IInv, UNCHANGED Links
  PROVE  Chained' /\ SizeCounts' /\ Stamped'
BY DEF Links, IInv, Chained, SizeCounts, Stamped, Rank

LEMMA BeginScanKeeps == IInv /\ BeginScan => IInv'
<1> SUFFICES ASSUME IInv, BeginScan PROVE IInv'
  OBVIOUS
<1>1. Chained' /\ SizeCounts' /\ Stamped'
  BY SameLinks DEF BeginScan, Links
<1> DEFINE last == mBefore[Tail]
<1>2. last \in queued /\ mNext[last] = Tail
  <2>1. queued # {}
    BY FS_EmptySet DEF BeginScan, IInv, SizeCounts
  <2>2. last \in queued \cup {Head} /\ mNext[last] = Tail
    BY DEF IInv, Chained
  <2>3. ASSUME last = Head PROVE FALSE
    <3>1. PICK m \in queued : TRUE
      BY <2>1
    <3>2. Rank(m) < Rank(Head) /\ Rank(Tail) < Rank(m) /\ Rank(m) \in Int
      BY RanksOfCells, <3>1 DEF IInv, Stamped, TypeOK
    <3>3. Rank(m) <= Rank(Tail)
      BY <2>2, <2>3, <3>2 DEF IInv, Chained
    <3>4. QED
      BY <3>2, <3>3, RanksOfCells DEF IInv
  <2>4. QED
    BY <2>2, <2>3
<1>3. TypeOK'
  BY <1>2 DEF IInv, TypeOK, BeginScan, Cells
<1>4. LoopsStayInList'
  BY <1>2 DEF IInv, BeginScan, LoopsStayInList
<1>5. \A n \in queued : ~(Rank(n) < Rank(last))
  <2>1. \A n \in queued : Rank(n) = stamp[n] /\ stamp[n] \in 1 .. inserted
    BY RanksOfCells DEF IInv, TypeOK, Stamped
  <2>2. \A n \in queued : Rank(n) < Rank(last) => Rank(n) <= 0
    BY <1>2, RanksOfCells DEF IInv, Chained
  <2>3. QED
    BY <2>1, <2>2
<1>6. Settled'
  <2>1. index' = last /\ temp' = last /\ at' = "scan" /\ queued' = queued
    BY DEF BeginScan
  <2>2. \A c \in Cells : Rank(c)' = Rank(c)
    BY DEF BeginScan, Rank
  <2>3. Rank(last) \in Int /\ last \in Cells
    BY <1>2, RanksOfCells DEF IInv, TypeOK, Cells
  <2>4. Rank(index)' = Rank(last) /\ Rank(temp)' = Rank(last)
    BY <2>1 DEF Rank, BeginScan
  <2>5. \A n \in queued : Rank(n)' = Rank(n)
    BY DEF Rank, BeginScan
  <2>6. QED
    BY <2>1, <2>3, <2>4, <2>5, <1>5 DEF Settled
<1>7. QED
  BY <1>1, <1>3, <1>4, <1>6 DEF IInv

LEMMA ScanNextKeeps == IInv /\ ScanNext => IInv'
<1> SUFFICES ASSUME IInv, ScanNext PROVE IInv'
  OBVIOUS
<1>1. Chained' /\ SizeCounts' /\ Stamped'
  BY SameLinks DEF ScanNext, Links
<1> DEFINE up == mBefore[index]
<1>2. index \in queued /\ temp \in queued /\ up \in queued \cup {Head} /\ mNext[up] = index
  BY DEF ScanNext, IInv, LoopsStayInList, Chained
<1>3. TypeOK'
  BY <1>2 DEF IInv, TypeOK, ScanNext, Cells
<1>4. LoopsStayInList'
  BY <1>2 DEF IInv, ScanNext, LoopsStayInList
<1>5. /\ \A n \in queued : Rank(n) = stamp[n] /\ Rank(n) \in Nat /\ when[n] \in Int
      /\ Rank(up) \in Nat /\ Rank(index) < Rank(up)
      /\ \A n \in queued : Rank(n) < Rank(up) => Rank(n) <= Rank(index)
  <2>1. \A n \in queued : Rank(n) = stamp[n] /\ Rank(n) \in Nat /\ when[n] \in Int
    BY RanksOfCells DEF IInv, TypeOK, Stamped
  <2>2. Rank(up) \in Nat
    BY <1>2, <2>1, RanksOfCells DEF IInv, TypeOK
  <2>3. QED
    BY <2>1, <2>2, <1>2 DEF IInv, Chained
<1>6. \A n \in queued : Rank(n) < Rank(up) => Rank(n) < Rank(index) \/ n = index
  <2>1. \A n \in queued : Rank(n) = Rank(index) => n = index
    BY <1>2, <1>5 DEF IInv, Stamped
  <2>2. QED
    BY <2>1, <1>2, <1>5
<1>7. /\ \A n \in queued : Rank(n) < Rank(index) => Before(temp, n)
      /\ Rank(temp) <= Rank(index)
  BY DEF IInv, Settled, ScanNext
<1>8. at' = "scan" /\ index' = up /\ queued' = queued /\ when' = when /\ stamp' = stamp
  BY DEF ScanNext
<1>9. /\ \A n \in queued : Rank(n)' = Rank(n)
      /\ Rank(index)' = Rank(up)
      /\ Rank(temp)' = IF IsEarlier(index) THEN Rank(index) ELSE Rank(temp)
  BY DEF ScanNext, Rank
<1> HIDE DEF up
<1>10. ASSUME NEW n \in queued, Rank(n) < Rank(up)
       PROVE  Before(temp', n)
  <2>1. CASE IsEarlier(index)
    <3>1. temp' = index /\ when[index] < when[temp]
      BY <2>1 DEF ScanNext, IsEarlier
    <3>2. QED
      BY <3>1, <1>2, <1>5, <1>6, <1>7, <1>10 DEF Before
  <2>2. CASE ~IsEarlier(index)
    <3>1. temp' = temp /\ ~(when[index] < when[temp])
      BY <2>2 DEF ScanNext, IsEarlier
    <3>2. QED
      BY <3>1, <1>2, <1>5, <1>6, <1>7, <1>10 DEF Before
  <2>3. QED
    BY <2>1, <2>2
<1>11. Rank(temp)' <= Rank(index)'
  BY <1>2, <1>5, <1>7, <1>9
<1>12. \A n \in queued' : Rank(n)' < Rank(index)' => Before(temp, n)'
  BY <1>8, <1>9, <1>10 DEF Before
<1>13. Settled'
  BY <1>8, <1>11, <1>12 DEF Settled
<1>14. QED
  BY <1>1, <1>3, <1>4, <1>13 DEF IInv

LEMMA ScanEndsDueKeeps == IInv /\ ScanEndsDue => IInv'
<1> SUFFICES ASSUME IInv, ScanEndsDue PROVE IInv'
  OBVIOUS
<1>1. Chained' /\ SizeCounts' /\ Stamped'
  BY SameLinks DEF ScanEndsDue, Links
<1> DEFINE first == mNext[Head]
<1>2. temp \in queued /\ first \in queued \cup {Tail}
  BY DEF ScanEndsDue, IInv, LoopsStayInList, Chained
<1>3. /\ \A n \in queued : Rank(n) = stamp[n] /\ stamp[n] \in 1 .. inserted
      /\ Rank(Head) = inserted + 1 /\ Rank(Tail) = 0 /\ inserted \in Nat
  BY RanksOfCells DEF IInv, TypeOK, Stamped
<1>4. Rank(temp) <= Rank(first)
  BY <1>2, <1>3 DEF IInv, Chained
<1>5. first \in queued
  BY <1>2, <1>3, <1>4
<1>6. TypeOK'
  BY <1>5 DEF IInv, TypeOK, ScanEndsDue, Cells
<1>7. LoopsStayInList'
  BY <1>2, <1>5 DEF IInv, ScanEndsDue, LoopsStayInList
<1>8. \A n \in queued : Before(temp, n)
  BY <1>3 DEF IInv, Settled, ScanEndsDue
<1>9. Settled'
  <2>1. /\ at' = "remove" /\ temp' = temp /\ index' = first
        /\ queued' = queued /\ when' = when /\ stamp' = stamp
    BY DEF ScanEndsDue
  <2>2. Rank(temp)' = Rank(temp) /\ Rank(index)' = Rank(first)
    BY DEF ScanEndsDue, Rank
  <2>3. IsEarliest(temp)'
    BY <1>8, <2>1 DEF IsEarliest, Before
  <2>4. QED
    BY <1>4, <2>1, <2>2, <2>3 DEF Settled
<1>10. QED
  BY <1>1, <1>6, <1>7, <1>9 DEF IInv

LEMMA RemoveNextKeeps == IInv /\ RemoveNext => IInv'
<1> SUFFICES ASSUME IInv, RemoveNext PROVE IInv'
  OBVIOUS
<1>1. Chained' /\ SizeCounts' /\ Stamped'
  BY SameLinks DEF RemoveNext, Links
<1> DEFINE older == mNext[index]
<1>2. /\ index \in queued /\ temp \in queued /\ index # temp
      /\ older \in queued \cup {Tail} /\ Rank(temp) <= Rank(index)
  BY DEF RemoveNext, IInv, LoopsStayInList, Chained, Settled
<1>3. /\ \A n \in queued : Rank(n) = stamp[n] /\ stamp[n] \in 1 .. inserted
      /\ Rank(Tail) = 0 /\ inserted \in Nat
  BY RanksOfCells DEF IInv, TypeOK, Stamped
<1>4. Rank(temp) < Rank(index)
  BY <1>2, <1>3 DEF IInv, Stamped
<1>5. Rank(temp) <= Rank(older)
  BY <1>2, <1>4 DEF IInv, Chained
<1>6. older \in queued
  BY <1>2, <1>3, <1>5
<1>7. TypeOK'
  BY <1>6 DEF IInv, TypeOK, RemoveNext, Cells
<1>8. LoopsStayInList'
  BY <1>2, <1>6 DEF IInv, RemoveNext, LoopsStayInList
<1>9. Settled'
  <2>1. /\ at' = "remove" /\ temp' = temp /\ index' = older
        /\ queued' = queued /\ when' = when /\ stamp' = stamp
    BY DEF RemoveNext
  <2>2. Rank(temp)' = Rank(temp) /\ Rank(index)' = Rank(older)
    BY DEF RemoveNext, Rank
  <2>3. IsEarliest(temp)'
    BY <2>1 DEF IsEarliest, IInv, Settled, RemoveNext
  <2>4. QED
    BY <1>5, <2>1, <2>2, <2>3 DEF Settled
<1>10. QED
  BY <1>1, <1>7, <1>8, <1>9 DEF IInv

(* The search always ends at its message.                                  *)
LEMMA RemoveFinds ==
  ASSUME IInv, RemoveEnds
  PROVE  index = temp /\ temp \in queued /\ TakesOut(temp)
<1>1. index \in queued /\ temp \in queued /\ index # Tail
  BY SentinelsDiffer DEF IInv, LoopsStayInList, RemoveEnds, TypeOK
<1>2. QED
  BY <1>1 DEF RemoveEnds, TakesOut, Unlink

LEMMA RemoveEndsKeeps == IInv /\ RemoveEnds => IInv'
<1> SUFFICES ASSUME IInv, RemoveEnds PROVE IInv'
  OBVIOUS
<1>1. /\ temp \in queued /\ queued' = queued \ {temp} /\ handed' = handed \cup {temp}
      /\ at' = "idle" /\ UNCHANGED <<when, index, temp, stamp, inserted>>
  BY RemoveFinds DEF TakesOut, RemoveEnds
<1>2. /\ mNext' \in [Cells -> Cells] /\ mBefore' \in [Cells -> Cells]
      /\ mQueueSize' \in Nat /\ queued' \subseteq Addresses
      /\ Chained' /\ SizeCounts' /\ Stamped'
  BY RemoveFinds, TakingOut
<1>3. TypeOK'
  BY <1>1, <1>2 DEF IInv, TypeOK
<1>4. LoopsStayInList' /\ Settled'
  BY <1>1 DEF IInv, LoopsStayInList, Settled
<1>5. QED
  BY <1>2, <1>3, <1>4 DEF IInv

(* The first message is before the head, so a clear takes it out as the    *)
(* search does.                                                            *)
LEMMA ClearNextKeeps == IInv /\ ClearNext => IInv'
<1> SUFFICES ASSUME IInv, ClearNext PROVE IInv'
  OBVIOUS
<1>1. index = mNext[Head] /\ index \in queued /\ mBefore[index] = Head
  BY DEF IInv, LoopsStayInList, ClearNext, Chained
<1>2. TakesOut(index)
  BY <1>1 DEF ClearNext, UnlinkFirst, TakesOut
<1>3. /\ mNext' \in [Cells -> Cells] /\ mBefore' \in [Cells -> Cells]
      /\ mQueueSize' \in Nat /\ queued' \subseteq Addresses
      /\ Chained' /\ SizeCounts' /\ Stamped'
  BY <1>1, <1>2, TakingOut
<1>4. index' \in Cells
  BY <1>3 DEF ClearNext, Cells
<1>5. TypeOK'
  BY <1>3, <1>4 DEF IInv, TypeOK, ClearNext
<1>6. LoopsStayInList' /\ Settled'
  BY DEF IInv, LoopsStayInList, Settled, ClearNext
<1>7. QED
  BY <1>3, <1>5, <1>6 DEF IInv

LEMMA OtherStepsKeep ==
  ASSUME IInv,
         \/ ScanEndsEarly \/ BeginClear \/ ClearEnds \/ Delete
         \/ \E m \in Addresses : DeleteHandled(m)
         \/ UNCHANGED vars
  PROVE  IInv'
<1>1. UNCHANGED Links
  BY DEF ScanEndsEarly, BeginClear, ClearEnds, Delete, DeleteHandled, vars, Links
<1>2. Chained' /\ SizeCounts' /\ Stamped'
  BY <1>1, SameLinks
<1>3. CASE ScanEndsEarly \/ ClearEnds \/ Delete
  BY <1>2, <1>3 DEF IInv, TypeOK, LoopsStayInList, Settled, ScanEndsEarly, ClearEnds, Delete
<1>4. CASE BeginClear
  <2>1. mNext[Head] \in Cells
    BY DEF IInv, TypeOK, Cells
  <2>2. QED
    BY <1>2, <1>4, <2>1 DEF IInv, TypeOK, LoopsStayInList, Settled, BeginClear
<1>5. CASE \E m \in Addresses : DeleteHandled(m)
  BY <1>2, <1>5 DEF IInv, TypeOK, LoopsStayInList, Settled, DeleteHandled
<1>6. CASE UNCHANGED vars
  BY <1>2, <1>6 DEF IInv, TypeOK, LoopsStayInList, Settled, IsEarliest, Before, Rank, vars
<1>7. QED
  BY <1>3, <1>4, <1>5, <1>6

LEMMA Inductive == Spec => []IInv
<1>1. IInv /\ [Next]_vars => IInv'
  <2> SUFFICES ASSUME IInv, [Next]_vars PROVE IInv'
    OBVIOUS
  <2>1. CASE \E m \in Addresses, due \in Times : QueueAtFront(m, due)
    BY <2>1, PuttingIn
  <2>2. CASE BeginScan
    BY <2>2, BeginScanKeeps
  <2>3. CASE ScanNext
    BY <2>3, ScanNextKeeps
  <2>4. CASE ScanEndsDue
    BY <2>4, ScanEndsDueKeeps
  <2>5. CASE RemoveNext
    BY <2>5, RemoveNextKeeps
  <2>6. CASE RemoveEnds
    BY <2>6, RemoveEndsKeeps
  <2>7. CASE ClearNext
    BY <2>7, ClearNextKeeps
  <2>8. CASE \/ ScanEndsEarly \/ BeginClear \/ ClearEnds \/ Delete
             \/ \E m \in Addresses : DeleteHandled(m)
             \/ UNCHANGED vars
    BY <2>8, OtherStepsKeep
  <2>9. QED
    BY <2>1, <2>2, <2>3, <2>4, <2>5, <2>6, <2>7, <2>8 DEF Next, LoopStep
<1>2. QED
  BY <1>1, InitHolds, PTL DEF Spec

-----------------------------------------------------------------------------
(* Every variable stays in its set.                                        *)
THEOREM TypesHold == Spec => []TypeOK
<1>1. IInv => TypeOK
  BY DEF IInv
<1>2. QED
  BY <1>1, Inductive, PTL

(* The links hold the queued messages, from the newest to the oldest, all  *)
(* of them and nothing else.                                               *)
THEOREM LinksHoldTheQueue == Spec => []Chained
<1>1. IInv => Chained
  BY DEF IInv
<1>2. QED
  BY <1>1, Inductive, PTL

(* mQueueSize is the number of queued messages.                            *)
THEOREM SizeIsRight == Spec => []SizeCounts
<1>1. IInv => SizeCounts
  BY DEF IInv
<1>2. QED
  BY <1>1, Inductive, PTL

(* The loops that follow the links read only messages of the list.         *)
THEOREM NoLoopLeavesTheList == Spec => []LoopsStayInList
<1>1. IInv => LoopsStayInList
  BY DEF IInv
<1>2. QED
  BY <1>1, Inductive, PTL

(* getNextMessage takes the message that is due earliest and, among those  *)
(* due at the same time, the one that was put in first.                    *)
THEOREM EarliestIsTaken == Spec => TakesEarliest
<1>1. ASSUME IInv, [Next]_vars
      PROVE  [at = "remove" => \A m \in queued \ queued' : IsEarliest(m)]_vars
  <2> SUFFICES ASSUME at = "remove", NEW m \in queued \ queued' PROVE IsEarliest(m)
    OBVIOUS
  <2>1. IsEarliest(temp)
    BY <1>1 DEF IInv, Settled
  <2>2. CASE RemoveEnds
    BY <1>1, <2>1, <2>2, RemoveFinds DEF TakesOut
  <2>3. CASE RemoveNext
    BY <2>3 DEF RemoveNext
  <2>4. QED
    BY <1>1, <2>2, <2>3 DEF Next, LoopStep, vars, QueueAtFront, DeleteHandled, BeginScan,
       BeginClear, ScanNext, ScanEndsDue, ScanEndsEarly, ClearNext, ClearEnds, Delete
<1>2. QED
  BY <1>1, Inductive, PTL DEF Spec, TakesEarliest

-----------------------------------------------------------------------------
(* The list as a DelayQueue, one lemma per operation that shows.           *)
LEMMA QueueInit == Init => Order!Init
BY DEF Init, Order!Init, Order!Waiting, Waiting, PutBefore

(* No step between two operations, and none inside a loop, shows.          *)
LEMMA QueueUnseen ==
  ASSUME Waiting' = Waiting, when' = when, stamp' = stamp
  PROVE  UNCHANGED Order!vars
BY DEF Order!vars, PutBefore

(* The message that goes in is newer than all that wait.                   *)
LEMMA QueuePut ==
  ASSUME IInv, NEW m \in Addresses, NEW d \in Times, QueueAtFront(m, d)
  PROVE  Order!Next
<1>1. /\ m \notin queued /\ queued \subseteq Addresses
      /\ Waiting = queued /\ Waiting' = queued \cup {m}
      /\ when \in [Addresses -> Int] /\ when' = [when EXCEPT ![m] = d]
      /\ inserted \in Nat
      /\ stamp \in [Addresses -> 0 .. inserted]
      /\ stamp' = [stamp EXCEPT ![m] = inserted + 1]
  BY BoundsAreNumbers DEF QueueAtFront, IInv, TypeOK, Waiting
<1>2. /\ when'[m] = d /\ stamp'[m] = inserted + 1
      /\ \A n \in queued : when'[n] = when[n] /\ stamp'[n] = stamp[n] /\ stamp[n] \in 0 .. inserted
  BY <1>1
<1>3. [n \in Waiting |-> when[n]]' = [n \in Waiting \cup {m} |-> IF n = m THEN when'[m] ELSE when[n]]
  BY <1>1, <1>2
<1>4. PutBefore' = PutBefore \cup (Waiting \X {m})
  <2>1. ASSUME NEW a \in queued \cup {m}, NEW b \in queued \cup {m}
        PROVE  stamp'[a] < stamp'[b]
                 <=> \/ a \in queued /\ b \in queued /\ stamp[a] < stamp[b]
                     \/ a \in queued /\ b = m
    BY <1>1, <1>2
  <2>2. QED
    BY <1>1, <2>1 DEF PutBefore
<1>5. Order!Put(m)
  BY <1>1, <1>3, <1>4 DEF Order!Put, Order!Waiting
<1>6. m \in Order!Waiting'
  BY <1>1 DEF Order!Waiting
<1>7. QED
  BY <1>5, <1>6 DEF Order!Next

(* The message that comes out is the one the scan has settled on.          *)
LEMMA QueueTake ==
  ASSUME IInv, RemoveEnds
  PROVE  Order!Next
<1>1. temp \in queued /\ TakesOut(temp) /\ IsEarliest(temp)
  BY RemoveFinds DEF IInv, Settled, RemoveEnds
<1>2. PICK m \in queued : m = temp
  BY <1>1
<1>3. /\ Waiting = queued /\ Waiting' = queued \ {m}
      /\ when' = when /\ stamp' = stamp
      /\ queued \subseteq Addresses /\ when \in [Addresses -> Int]
      /\ stamp \in [Addresses -> Int]
  BY <1>1, <1>2 DEF TakesOut, RemoveEnds, Waiting, IInv, TypeOK
<1>4. ASSUME NEW n \in queued \ {m}
      PROVE  \/ when[m] < when[n]
             \/ when[m] = when[n] /\ <<m, n>> \in PutBefore
  <2>1. stamp[m] # stamp[n]
    BY DEF IInv, Stamped
  <2>2. QED
    BY <1>1, <1>2, <1>3, <2>1 DEF IsEarliest, PutBefore
<1>5. Order!IsNext(m)
  BY <1>3, <1>4 DEF Order!IsNext, Order!Waiting
<1>6. PutBefore' = {p \in PutBefore : p[1] # m /\ p[2] # m}
  BY <1>3 DEF PutBefore
<1>7. [n \in Waiting |-> when[n]]' = [n \in Waiting \ {m} |-> when[n]]
  BY <1>3
<1>8. m \in Order!Waiting
  BY <1>3 DEF Order!Waiting
<1>9. Order!Take(m)
  BY <1>3, <1>5, <1>6, <1>7 DEF Order!Take, Order!Waiting
<1>10. QED
  BY <1>8, <1>9 DEF Order!Next

(* What a clear has yet to delete does not wait any more, and when it ends *)
(* there is nothing left to delete.                                        *)
LEMMA QueueClear ==
  ASSUME IInv, BeginClear
  PROVE  Order!Next
<1>1. Waiting' = {}
  BY DEF BeginClear, Waiting
<1>2. QED
  BY <1>1 DEF Order!Next, Order!Clear, Order!Waiting, PutBefore

LEMMA ClearedAll == IInv /\ ClearEnds => queued = {}
<1> SUFFICES ASSUME IInv, ClearEnds, NEW m \in queued PROVE FALSE
  OBVIOUS
<1>1. mNext[Head] = Tail
  BY DEF IInv, LoopsStayInList, ClearEnds
<1>2. /\ Rank(m) = stamp[m] /\ Rank(Head) = inserted + 1 /\ Rank(Tail) = 0
      /\ stamp[m] \in 1 .. inserted /\ inserted \in Nat
  BY RanksOfCells DEF IInv, TypeOK, Stamped
<1>3. Rank(m) <= Rank(mNext[Head])
  BY <1>2 DEF IInv, Chained
<1>4. QED
  BY <1>1, <1>2, <1>3

LEMMA QueueStep == IInv /\ [Next]_vars => [Order!Next]_Order!vars
<1> SUFFICES ASSUME IInv, [Next]_vars PROVE [Order!Next]_Order!vars
  OBVIOUS
<1>1. CASE \E m \in Addresses, d \in Times : QueueAtFront(m, d)
  BY <1>1, QueuePut
<1>2. CASE RemoveEnds
  BY <1>2, QueueTake
<1>3. CASE BeginClear
  BY <1>3, QueueClear
<1>4. CASE ClearEnds
  <2>1. Waiting' = Waiting
    BY <1>4, ClearedAll DEF ClearEnds, Waiting
  <2>2. QED
    BY <1>4, <2>1, QueueUnseen DEF ClearEnds
<1>5. CASE ClearNext
  <2>1. Waiting' = Waiting
    BY <1>5 DEF ClearNext, Waiting
  <2>2. QED
    BY <1>5, <2>1, QueueUnseen DEF ClearNext
<1>6. CASE BeginScan \/ ScanNext \/ ScanEndsDue \/ ScanEndsEarly \/ RemoveNext
  <2>1. Waiting' = Waiting /\ when' = when /\ stamp' = stamp
    BY <1>6 DEF BeginScan, ScanNext, ScanEndsDue, ScanEndsEarly, RemoveNext, Waiting
  <2>2. QED
    BY <2>1, QueueUnseen
<1>7. CASE Delete \/ (\E m \in Addresses : DeleteHandled(m)) \/ UNCHANGED vars
  <2>1. Waiting' = Waiting /\ when' = when /\ stamp' = stamp
    BY <1>7 DEF Delete, DeleteHandled, vars, Waiting
  <2>2. QED
    BY <2>1, QueueUnseen
<1>8. QED
  BY <1>1, <1>2, <1>3, <1>4, <1>5, <1>6, <1>7 DEF Next, LoopStep

(* The linked list implements the delay queue: the pointers, the loops     *)
(* over them and the reuse of addresses do not show.                       *)
THEOREM ListImplementsQueue == Spec => IsQueue
<1>1. QED
  BY QueueInit, QueueStep, Inductive, PTL DEF Spec, IsQueue, Order!Spec

-----------------------------------------------------------------------------
(* The end of the loops.  The scan goes up the ranks, the search and the   *)
(* clear go down; a search may follow a scan.                              *)
StepsLeft ==
  CASE at = "scan" -> 2 * inserted + 3 - Rank(index)
    [] at \in {"remove", "clear"} -> Rank(index) + 1
    [] at \in {"idle", "deleted"} -> 0

(* With the mutex held, every step follows a link towards the end.         *)
LoopsShrink ==
  [][at \notin {"idle", "deleted"} => StepsLeft' < StepsLeft]_vars

(* How many steps can be left: no more than the messages put in so far     *)
(* allow.                                                                  *)
StepsBounded == StepsLeft \in 0 .. 2 * inserted + 2

LEMMA RanksBetween ==
  ASSUME TypeOK, Stamped
  PROVE  /\ inserted \in Nat
         /\ \A m \in queued : Rank(m) \in 1 .. inserted
         /\ Rank(Head) = inserted + 1 /\ Rank(Tail) = 0
BY RanksOfCells DEF TypeOK, Stamped

LEMMA StepsLeftBounded == IInv => StepsBounded
<1> SUFFICES ASSUME IInv PROVE StepsBounded
  OBVIOUS
<1>1. TypeOK /\ Stamped /\ LoopsStayInList /\ Chained
  BY DEF IInv
<1>2. at = "clear" => index \in queued \cup {Tail}
  BY <1>1 DEF LoopsStayInList, Chained
<1>3. at \in {"scan", "remove", "clear"} => index \in queued \cup {Head, Tail}
  BY <1>1, <1>2 DEF LoopsStayInList
<1>4. at = "scan" => index \in queued \cup {Head}
  BY <1>1 DEF LoopsStayInList
<1>5. at = "scan" => Rank(index) \in 1 .. inserted + 1
  BY <1>1, <1>4, RanksBetween
<1>6. at \in {"remove", "clear"} => Rank(index) \in 0 .. inserted
  BY <1>1, <1>2, RanksBetween DEF LoopsStayInList
<1>7. at \in {"idle", "scan", "remove", "clear", "deleted"} /\ inserted \in Nat
  BY <1>1, RanksBetween DEF TypeOK
<1>8. QED
  BY <1>5, <1>6, <1>7 DEF StepsBounded, StepsLeft

LEMMA StepsLeftShrink ==
  IInv /\ IInv' /\ LoopStep => StepsLeft' < StepsLeft
<1> SUFFICES ASSUME IInv, IInv', LoopStep PROVE StepsLeft' < StepsLeft
  OBVIOUS
<1>1. TypeOK /\ Stamped /\ LoopsStayInList /\ Chained /\ inserted' = inserted /\ inserted \in Nat
  BY DEF IInv, TypeOK, LoopStep, ScanNext, ScanEndsDue, ScanEndsEarly, RemoveNext, RemoveEnds,
     ClearNext, ClearEnds
<1>2. ASSUME stamp' = stamp PROVE Rank(index)' = Rank(index')
  BY <1>1, <1>2 DEF Rank
<1>3. Rank(Tail) = 0 /\ Rank(Head) = inserted + 1 /\ \A m \in queued : Rank(m) \in 1 .. inserted
  BY <1>1, RanksBetween
<1>4. CASE ScanNext
  <2>1. PICK c \in queued, d \in queued \cup {Head} : c = index /\ d = index' /\ mBefore[c] = d
    BY <1>1, <1>4 DEF ScanNext, LoopsStayInList, Chained
  <2>2. mNext[d] = c /\ Rank(c) < Rank(d)
    BY <1>1, <2>1 DEF Chained
  <2>3. Rank(index)' = Rank(d)
    BY <1>2, <1>4, <2>1 DEF ScanNext
  <2>4. StepsLeft = 2 * inserted + 3 - Rank(c)
    BY <1>4, <2>1 DEF ScanNext, StepsLeft
  <2>5. StepsLeft' = 2 * inserted + 3 - Rank(d)
    BY <1>1, <1>4, <2>3 DEF ScanNext, StepsLeft
  <2>6. Rank(c) \in Int /\ Rank(d) \in Int
    BY <1>1, <1>3
  <2>7. QED
    BY <1>1, <2>2, <2>4, <2>5, <2>6
<1>5. CASE ScanEndsDue
  <2>1. PICK d \in queued \cup {Tail} : d = index' /\ d = mNext[Head]
    BY <1>1, <1>5 DEF ScanEndsDue, Chained
  <2>2. Rank(d) \in 0 .. inserted
    BY <1>1, <1>3
  <2>3. Rank(index)' = Rank(d)
    BY <1>2, <1>5, <2>1 DEF ScanEndsDue
  <2>4. StepsLeft = 2 * inserted + 3 - (inserted + 1)
    BY <1>3, <1>5 DEF ScanEndsDue, StepsLeft
  <2>5. StepsLeft' = Rank(d) + 1
    BY <1>5, <2>3 DEF ScanEndsDue, StepsLeft
  <2>6. QED
    BY <1>1, <2>2, <2>4, <2>5
<1>6. CASE RemoveNext
  <2>1. PICK c \in queued, d \in queued \cup {Tail} : c = index /\ d = index' /\ mNext[c] = d
    BY <1>1, <1>6 DEF RemoveNext, LoopsStayInList, Chained
  <2>2. Rank(d) < Rank(c)
    BY <1>1, <2>1 DEF Chained
  <2>3. Rank(index)' = Rank(d)
    BY <1>2, <1>6, <2>1 DEF RemoveNext
  <2>4. StepsLeft = Rank(c) + 1 /\ StepsLeft' = Rank(d) + 1
    BY <1>6, <2>1, <2>3 DEF RemoveNext, StepsLeft
  <2>5. Rank(c) \in Int /\ Rank(d) \in Int
    BY <1>1, <1>3
  <2>6. QED
    BY <2>2, <2>4, <2>5
<1>7. CASE ClearNext
  <2>1. index = mNext[Head] /\ index \in queued
    BY <1>1, <1>7 DEF ClearNext, LoopsStayInList, Chained
  <2>2. PICK c \in queued, d \in queued \cup {Tail} : c = index /\ d = mNext[c]
    BY <1>1, <2>1 DEF Chained
  <2>3. d = index'
    <3>1. Head \in Cells /\ mNext \in [Cells -> Cells]
      BY <1>1 DEF TypeOK, Cells
    <3>2. QED
      BY <1>7, <2>2, <3>1 DEF ClearNext, UnlinkFirst
  <2>4. Rank(d) < Rank(c)
    BY <1>1, <2>2 DEF Chained
  <2>5. Rank(index)' = Rank(d)
    BY <1>2, <1>7, <2>3 DEF ClearNext
  <2>6. StepsLeft = Rank(c) + 1 /\ StepsLeft' = Rank(d) + 1
    BY <1>7, <2>2, <2>5 DEF ClearNext, StepsLeft
  <2>7. Rank(c) \in Int /\ Rank(d) \in Int
    BY <1>1, <1>3
  <2>8. QED
    BY <2>4, <2>6, <2>7
<1>8. CASE ScanEndsEarly \/ RemoveEnds \/ ClearEnds
  <2>1. at' = "idle" /\ at \in {"scan", "remove", "clear"}
    BY <1>8 DEF ScanEndsEarly, RemoveEnds, ClearEnds
  <2>2. StepsLeft' = 0
    BY <2>1 DEF StepsLeft
  <2>3. StepsLeft > 0
    <3>1. CASE ScanEndsEarly
      BY <1>1, <1>3, <3>1 DEF ScanEndsEarly, StepsLeft
    <3>2. CASE RemoveEnds
      BY <1>1, <1>3, <3>2 DEF RemoveEnds, StepsLeft, LoopsStayInList
    <3>3. CASE ClearEnds
      BY <1>3, <3>3 DEF ClearEnds, StepsLeft
    <3>4. QED
      BY <1>8, <3>1, <3>2, <3>3
  <2>4. QED
    BY <2>2, <2>3
<1>9. QED
  BY <1>4, <1>5, <1>6, <1>7, <1>8 DEF LoopStep

(* Every operation of the list ends after at most twice as many steps, and *)
(* two, as messages have been put in; nothing else happens before it ends. *)
THEOREM LoopsAreBounded == Spec => []StepsBounded /\ LoopsShrink
<1>1. ASSUME IInv, IInv', [Next]_vars
      PROVE  [at \notin {"idle", "deleted"} => StepsLeft' < StepsLeft]_vars
  <2>1. SUFFICES ASSUME at \notin {"idle", "deleted"}, vars' # vars
                 PROVE  StepsLeft' < StepsLeft
    OBVIOUS
  <2>2. LoopStep
    BY <1>1, <2>1 DEF Next, QueueAtFront, DeleteHandled, BeginScan, BeginClear, Delete
  <2>3. QED
    BY <1>1, <2>2, StepsLeftShrink
<1>2. QED
  BY <1>1, StepsLeftBounded, Inductive, PTL DEF Spec, LoopsShrink
=============================================================================
