--------------------------- MODULE RtmpManagerProofs ---------------------------
(***************************************************************************)
(* The captures that RtmpManager starts, for every set of nodes, every way *)
(* /dev may change and whatever the names are read as.                     *)
(***************************************************************************)
EXTENDS RtmpManager, FiniteSetTheorems, WellFoundedInduction, TLAPS

(* The streams given away are numbered up to mCurrentWorkCameraCount, and  *)
(* every capture is in the map: a new one takes a new number and an index  *)
(* that is not in use.                                                     *)
InUse == \A c \in captures : c.stream <= workCount /\ c.index \in DOMAIN cameras

CapturesInv == TypeOK /\ InUse /\ StreamsDistinct /\ OneCapturePerNode

LEMMA CapturesInit == Init => CapturesInv
<1> SUFFICES ASSUME Init PROVE CapturesInv
  OBVIOUS
<1>1. /\ captures = {} /\ cameras = Nothing /\ DOMAIN cameras = {}
      /\ found = Nothing /\ DOMAIN found = {}
  BY DEF Init, Nothing
<1>2. TypeOK
  BY <1>1 DEF Init, TypeOK, Nothing
<1>3. QED
  BY <1>1, <1>2 DEF CapturesInv, InUse, StreamsDistinct, OneCapturePerNode

(* Reading a directory keeps the types.                                    *)
LEMMA ReadKeepsTypes ==
  ASSUME TypeOK, BeginScan \/ ScanFails \/ (\E n \in Nodes : ReadEntry(n)) \/ EndOfDir
  PROVE  TypeOK'
<1>1. CASE BeginScan
  BY <1>1 DEF BeginScan, TypeOK, dirVars, mapVars
<1>2. CASE ScanFails
  BY <1>2 DEF ScanFails, TypeOK, dirVars, mapVars
<1>3. CASE \E n \in Nodes : ReadEntry(n)
  <2>1. PICK n \in Nodes : ReadEntry(n)
    BY <1>3
  <2>2. PICK i \in Readings[n] : found' = [k \in DOMAIN found \cup {n} |-> IF k = n THEN i ELSE found[k]]
    BY <2>1 DEF ReadEntry
  <2>3. i \in Indices
    BY DEF Indices
  <2>4. DOMAIN found' = DOMAIN found \cup {n}
    BY <2>2
  <2>5. found' \in [DOMAIN found' -> Indices] /\ DOMAIN found' \subseteq Nodes
    BY <2>2, <2>3, <2>4 DEF TypeOK
  <2>6. QED
    BY <2>1, <2>5 DEF ReadEntry, TypeOK, mapVars
<1>4. CASE EndOfDir
  <2>1. chosen' \subseteq Indices
    BY <1>4 DEF EndOfDir, EverySecond, TypeOK
  <2>2. found' \in [DOMAIN found' -> Indices] /\ DOMAIN found' \subseteq Nodes
    BY <1>4 DEF EndOfDir, Nothing
  <2>3. halved' \in BOOLEAN
    BY <1>4, Zenon DEF EndOfDir
  <2>4. QED
    BY <1>4, <2>1, <2>2, <2>3 DEF EndOfDir, TypeOK, mapVars
<1>5. QED
  BY <1>1, <1>2, <1>3, <1>4

LEMMA CreateKeeps ==
  ASSUME CapturesInv, NEW i \in Indices, CreateCamera(i)
  PROVE  CapturesInv'
<1> USE DEF CapturesInv
<1>1. CASE IsKnown(i)
  BY <1>1 DEF CreateCamera, TypeOK, InUse, StreamsDistinct, OneCapturePerNode, dirVars, mapVars
<1>2. CASE ~IsKnown(i)
  <2> DEFINE new == [index |-> i, stream |-> workCount + 1, open |-> FALSE]
  <2>1. /\ workCount' = workCount + 1
        /\ cameras' = [j \in DOMAIN cameras \cup {i} |-> IF j = i THEN workCount + 1 ELSE cameras[j]]
        /\ captures' = captures \cup {new}
        /\ chosen' = chosen \ {i}
        /\ UNCHANGED <<devices, started, mail, scan, dirVars, failed, halved, exited>>
    BY <1>2 DEF CreateCamera, NextStream
  <2>2. workCount \in Nat /\ i \notin DOMAIN cameras
    BY <1>2 DEF IsKnown, TypeOK
  <2>3. new \in [index : Indices, stream : Nat, open : BOOLEAN]
    BY <2>2
  <2>4. DOMAIN cameras' = DOMAIN cameras \cup {i}
    BY <2>1
  <2>5. cameras' \in [DOMAIN cameras' -> Nat] /\ DOMAIN cameras' \subseteq Indices
    BY <2>1, <2>2, <2>4 DEF TypeOK
  <2>6. TypeOK'
    BY <2>1, <2>2, <2>3, <2>5 DEF TypeOK, dirVars
  <2>7. InUse'
    BY <2>1, <2>2, <2>4 DEF InUse, TypeOK
  <2>8. \A c \in captures : c.stream # new.stream /\ c.index # new.index
    BY <2>2 DEF InUse, TypeOK
  <2>9. StreamsDistinct' /\ OneCapturePerNode'
    BY <2>1, <2>8 DEF StreamsDistinct, OneCapturePerNode
  <2>10. QED
    BY <2>6, <2>7, <2>9
<1>3. QED
  BY <1>1, <1>2

LEMMA OpenKeeps ==
  ASSUME CapturesInv, NEW c \in captures, Open(c)
  PROVE  CapturesInv'
<1> USE DEF CapturesInv
<1> DEFINE opened == [c EXCEPT !.open = TRUE]
<1>1. /\ captures' = (captures \ {c}) \cup {opened}
      /\ UNCHANGED <<devices, started, mail, scan, dirVars, chosen, cameras, workCount, failed, halved, exited>>
  BY DEF Open
<1>2. c \in [index : Indices, stream : Nat, open : BOOLEAN]
  BY DEF TypeOK
<1>3. /\ opened \in [index : Indices, stream : Nat, open : BOOLEAN]
      /\ opened.index = c.index /\ opened.stream = c.stream
  BY <1>2
<1>4. TypeOK'
  BY <1>1, <1>3 DEF TypeOK, dirVars
<1>5. InUse'
  BY <1>1, <1>3 DEF InUse
<1>6. \A d \in captures : d # c => d.stream # opened.stream /\ d.index # opened.index
  BY <1>3 DEF StreamsDistinct, OneCapturePerNode
<1>7. StreamsDistinct' /\ OneCapturePerNode'
  BY <1>1, <1>6 DEF StreamsDistinct, OneCapturePerNode
<1>8. QED
  BY <1>4, <1>5, <1>7

LEMMA CapturesStep == CapturesInv /\ [Next]_vars => CapturesInv'
<1> SUFFICES ASSUME CapturesInv, [Next]_vars PROVE CapturesInv'
  OBVIOUS
<1> USE DEF CapturesInv, InUse, StreamsDistinct, OneCapturePerNode
<1>1. CASE StartRtmp
  BY <1>1 DEF StartRtmp, TypeOK, dirVars, mapVars
<1>2. CASE ReadStep
  <2>1. TypeOK'
    BY <1>2, ReadKeepsTypes DEF ReadStep
  <2>2. UNCHANGED mapVars
    BY <1>2 DEF ReadStep, BeginScan, ScanFails, ReadEntry, EndOfDir
  <2>3. QED
    BY <2>1, <2>2 DEF mapVars
<1>3. CASE \E i \in Indices : CreateCamera(i)
  BY <1>3, CreateKeeps
<1>4. CASE EndScan
  <2>1. mail' \in Nat
    BY <1>4 DEF EndScan, TypeOK
  <2>2. QED
    BY <1>4, <2>1 DEF EndScan, TypeOK, dirVars, mapVars
<1>5. CASE \E n \in Nodes : DevicesChange(n)
  BY <1>5 DEF DevicesChange, TypeOK, mapVars
<1>6. CASE \E c \in captures : Open(c)
  BY <1>6, OpenKeeps
<1>7. CASE \E c \in captures : ErrorCamera(c)
  <2>1. exited' \in BOOLEAN
    BY <1>7, Zenon DEF ErrorCamera
  <2>2. QED
    BY <1>7, <2>1 DEF ErrorCamera, TypeOK, dirVars, mapVars
<1>8. CASE UNCHANGED vars
  BY <1>8 DEF vars, TypeOK, dirVars, mapVars
<1>9. QED
  BY <1>1, <1>2, <1>3, <1>4, <1>5, <1>6, <1>7, <1>8 DEF Next, ManagerStep

LEMMA CapturesInvariant == Spec => []CapturesInv
<1>1. QED
  BY CapturesInit, CapturesStep, PTL DEF Spec

(* Two captures never write to the same URL: the number in it is never     *)
(* given away twice.                                                       *)
THEOREM DistinctStreams == Spec => []StreamsDistinct
<1>1. CapturesInv => StreamsDistinct
  BY DEF CapturesInv
<1>2. QED
  BY <1>1, CapturesInvariant, PTL

(* No scan starts a second capture for a node, however often /dev changes. *)
THEOREM OneCapture == Spec => []OneCapturePerNode
<1>1. CapturesInv => OneCapturePerNode
  BY DEF CapturesInv
<1>2. QED
  BY <1>1, CapturesInvariant, PTL

(* Every variable stays in its type.                                       *)
THEOREM TypesHold == Spec => []TypeOK
<1>1. CapturesInv => TypeOK
  BY DEF CapturesInv
<1>2. QED
  BY <1>1, CapturesInvariant, PTL

-----------------------------------------------------------------------------
(* One message goes round: it is in the mailbox, or a scan has taken it,   *)
(* or the manager is done, because two cameras are in the map or because   *)
(* /dev was not to be opened.                                              *)
OneMessage ==
  /\ ~started => mail = 0 /\ scan = "none" /\ ~failed /\ cameras = Nothing
  /\ scan # "none" => mail = 0 /\ ~failed
  /\ scan = "reading" => ~AllWork
  /\ started /\ scan = "none" => mail = IF AllWork \/ failed THEN 0 ELSE 1

LEMMA NoneWorkAtFirst == cameras = Nothing => ~AllWork
<1>1. DOMAIN Nothing = {}
  BY DEF Nothing
<1>2. QED
  BY <1>1, FS_EmptySet DEF AllWork

LEMMA OneMessageStep == OneMessage /\ [Next]_vars => OneMessage'
<1> SUFFICES ASSUME OneMessage, [Next]_vars PROVE OneMessage'
  OBVIOUS
<1> USE DEF OneMessage
<1>1. CASE StartRtmp
  BY <1>1, NoneWorkAtFirst DEF StartRtmp, AllWork, mapVars
<1>2. CASE BeginScan
  BY <1>2 DEF BeginScan, AllWork, mapVars
<1>3. CASE ScanFails
  BY <1>3 DEF ScanFails, AllWork, mapVars
<1>4. CASE EndOfDir
  BY <1>4 DEF EndOfDir, AllWork, mapVars
<1>5. CASE \E i \in Indices : CreateCamera(i)
  BY <1>5 DEF CreateCamera
<1>6. CASE EndScan
  BY <1>6 DEF EndScan, NeedsCheck, AllWork, mapVars
<1>7. CASE UNCHANGED <<started, mail, scan, cameras, failed>>
  BY <1>7 DEF AllWork
<1>8. QED
  BY <1>1, <1>2, <1>3, <1>4, <1>5, <1>6, <1>7
     DEF Next, ManagerStep, ReadStep, ReadEntry, DevicesChange, Open, ErrorCamera, vars, mapVars

LEMMA OneMessageInvariant == Spec => []OneMessage
<1>1. Init => OneMessage
  BY DEF Init, OneMessage
<1>2. QED
  BY <1>1, OneMessageStep, PTL DEF Spec

(* The manager looks until two cameras are in its map, and no longer: it   *)
(* never posts a second CHECK message beside one that is waiting, nor      *)
(* forgets to post one.                                                    *)
THEOREM ChecksGoOn == Spec => []ChecksUntilAllWork
<1>1. OneMessage => ChecksUntilAllWork
  BY DEF OneMessage, ChecksUntilAllWork
<1>2. QED
  BY <1>1, OneMessageInvariant, PTL

-----------------------------------------------------------------------------
(* The choice among what a scan has read.                                  *)

(* The entries are sorted: of two the one precedes the other, and not the  *)
(* other way round.                                                        *)
LEMMA Sorted ==
  ASSUME NEW D \in SUBSET Nat, NEW read \in [D -> Nat]
  PROVE  /\ \A m, n \in D : m = n \/ Precedes(read, m, n) \/ Precedes(read, n, m)
         /\ \A n \in D : ~Precedes(read, n, n)
         /\ \A l, m, n \in D : Precedes(read, l, m) /\ Precedes(read, m, n) => Precedes(read, l, n)
BY DEF Precedes

(* An entry's position is the number of those before it.                   *)
LEMMA Positions ==
  ASSUME NEW D \in SUBSET Nat, IsFiniteSet(D), NEW read \in [D -> Nat]
  PROVE  /\ \A n \in D : /\ IsFiniteSet(Before(read, n))
                         /\ Cardinality(Before(read, n)) \in Nat
                         /\ Cardinality(Before(read, n)) < Cardinality(D)
         /\ \A m, n \in D : Precedes(read, m, n)
               => Cardinality(Before(read, m)) < Cardinality(Before(read, n))
<1>1. ASSUME NEW n \in D
      PROVE  /\ IsFiniteSet(Before(read, n))
             /\ Cardinality(Before(read, n)) \in Nat
             /\ Cardinality(Before(read, n)) < Cardinality(D)
  <2>1. Before(read, n) \in SUBSET D /\ n \notin Before(read, n)
    BY Sorted DEF Before
  <2>2. /\ IsFiniteSet(Before(read, n))
        /\ Cardinality(Before(read, n)) <= Cardinality(D)
        /\ Cardinality(Before(read, n)) # Cardinality(D)
    BY <2>1, FS_Subset
  <2>3. Cardinality(Before(read, n)) \in Nat /\ Cardinality(D) \in Nat
    BY <2>2, FS_CardinalityType
  <2>4. QED
    BY <2>2, <2>3
<1>2. ASSUME NEW m \in D, NEW n \in D, Precedes(read, m, n)
      PROVE  Cardinality(Before(read, m)) < Cardinality(Before(read, n))
  <2>1. /\ Before(read, m) \in SUBSET Before(read, n)
        /\ m \in Before(read, n) /\ m \notin Before(read, m)
    BY <1>2, Sorted DEF Before
  <2>2. /\ Cardinality(Before(read, m)) <= Cardinality(Before(read, n))
        /\ Cardinality(Before(read, m)) # Cardinality(Before(read, n))
    BY <1>1, <2>1, FS_Subset
  <2>3. QED
    BY <1>1, <2>2
<1>3. QED
  BY <1>1, <1>2

(* A set of natural numbers that is not empty has a least one.             *)
LEMMA LeastNumber ==
  ASSUME NEW T \in SUBSET Nat, T # {}
  PROVE  \E m \in T : \A n \in T : m <= n
<1> DEFINE R == {p \in Nat \X Nat : p[1] < p[2]}
<1>1. \A m, n \in Nat : <<m, n>> \in R <=> m < n
  OBVIOUS
<1>2. IsWellFoundedOn(R, Nat)
  BY NatLessThanWellFounded, Zenon DEF OpToRel
<1> HIDE DEF R
<1>3. PICK m \in T : \A n \in T : ~(<<n, m>> \in R)
  BY <1>2, WFMin
<1>4. ASSUME NEW n \in T PROVE m <= n
  <2>1. m \in Nat /\ n \in Nat /\ ~(n < m)
    BY <1>1, <1>3
  <2>2. QED
    BY <2>1
<1>5. QED
  BY <1>4

(* Of some entries one is the first.                                       *)
LEMMA FirstEntry ==
  ASSUME NEW D \in SUBSET Nat, IsFiniteSet(D), NEW read \in [D -> Nat],
         NEW T \in SUBSET D, T # {}
  PROVE  \E m \in T : \A n \in T : n = m \/ Precedes(read, m, n)
<1> DEFINE ranks == {Cardinality(Before(read, n)) : n \in T}
<1>1. ranks \in SUBSET Nat /\ ranks # {}
  BY Positions
<1>2. PICK r \in ranks : \A k \in ranks : r <= k
  BY <1>1, LeastNumber
<1>3. PICK m \in T : r = Cardinality(Before(read, m))
  OBVIOUS
<1>4. ASSUME NEW n \in T, Precedes(read, n, m) PROVE FALSE
  <2>1. Cardinality(Before(read, n)) < Cardinality(Before(read, m))
    BY <1>4, Positions
  <2>2. Cardinality(Before(read, m)) <= Cardinality(Before(read, n))
    BY <1>2, <1>3
  <2>3. Cardinality(Before(read, n)) \in Nat /\ Cardinality(Before(read, m)) \in Nat
    BY Positions
  <2>4. QED
    BY <2>1, <2>2, <2>3
<1>5. QED
  BY <1>4, Sorted

(* Half of the entries are chosen, rounded up.                             *)
LEMMA HalfIsChosen ==
  ASSUME NEW D \in SUBSET Nat, IsFiniteSet(D), NEW read \in [D -> Nat]
  PROVE  /\ IsFiniteSet(EverySecond(read))
         /\ Cardinality(EverySecond(read)) <= (Cardinality(D) + 1) \div 2
<1> DEFINE rank(n) == Cardinality(Before(read, n))
           E == {n \in D : rank(n) % 2 = 0}
           size == Cardinality(D)
           half == (size + 1) \div 2
           place == [n \in E |-> rank(n) \div 2]
           value == [n \in E |-> read[n]]
<1>1. size \in Nat /\ half \in Nat /\ 2 * half >= size
  BY FS_CardinalityType
<1>2. \A n \in E : rank(n) \in Nat /\ rank(n) < size /\ rank(n) = 2 * (rank(n) \div 2)
  BY Positions
<1>3. \A n \in E : rank(n) \div 2 \in 0 .. (half - 1)
  <2>1. ASSUME NEW k \in Nat, k < size, k = 2 * (k \div 2)
        PROVE  k \div 2 \in 0 .. (half - 1)
    BY <1>1, <2>1
  <2>2. QED
    BY <1>2, <2>1
<1>4. place \in Injection(E, 0 .. (half - 1))
  <2>1. ASSUME NEW m \in E, NEW n \in E, rank(m) \div 2 = rank(n) \div 2
        PROVE  m = n
    <3>1. rank(m) = rank(n) /\ rank(m) \in Nat
      BY <1>2, <2>1
    <3>2. ~Precedes(read, m, n) /\ ~Precedes(read, n, m)
      BY <3>1, Positions
    <3>3. QED
      BY <3>2, Sorted
  <2>2. place \in [E -> 0 .. (half - 1)]
    BY <1>3
  <2>3. \A m, n \in E : place[m] = place[n] => m = n
    BY <2>1
  <2>4. QED
    BY <2>2, <2>3 DEF Injection, IsInjective
<1>5. IsFiniteSet(E) /\ Cardinality(E) <= half
  <2>1. ASSUME NEW k \in Nat
        PROVE  IsFiniteSet(0 .. (k - 1)) /\ Cardinality(0 .. (k - 1)) = k
    BY FS_Interval
  <2>2. IsFiniteSet(0 .. (half - 1)) /\ Cardinality(0 .. (half - 1)) = half
    <3>1. half \in Nat
      BY <1>1
    <3> HIDE DEF half
    <3>2. QED
      BY <2>1, <3>1
  <2>3. QED
    BY <1>4, <2>2, FS_Injection
<1>6. value \in Surjection(E, EverySecond(read))
  <2>1. EverySecond(read) = {read[n] : n \in E}
    BY DEF EverySecond
  <2>2. QED
    BY <2>1 DEF Surjection
<1>7. IsFiniteSet(EverySecond(read)) /\ Cardinality(EverySecond(read)) <= Cardinality(E)
  BY <1>5, <1>6, FS_Surjection
<1>8. Cardinality(E) \in Nat /\ Cardinality(EverySecond(read)) \in Nat
  BY <1>5, <1>7, FS_CardinalityType
<1>9. QED
  BY <1>1, <1>5, <1>7, <1>8

(* Whatever three nodes are read as, if it is three numbers, two of the    *)
(* numbers read are chosen.                                                *)
LEMMA TwoAreChosen ==
  ASSUME NEW D \in SUBSET Nat, IsFiniteSet(D), NEW read \in [D -> Nat],
         NEW x \in D, NEW y \in D, NEW z \in D,
         read[x] # read[y], read[x] # read[z], read[y] # read[z]
  PROVE  \E i, j \in EverySecond(read) : i # j
<1>1. PICK a \in D : \A n \in D : n = a \/ Precedes(read, a, n)
  BY FirstEntry
<1> DEFINE Rest == {n \in D : read[n] # read[a]}
<1>2. Rest \in SUBSET D /\ Rest # {}
  OBVIOUS
<1>3. PICK b \in Rest : \A n \in Rest : n = b \/ Precedes(read, b, n)
  BY <1>2, FirstEntry
<1> DEFINE Last == Rest \ {b}
<1>4. Last \in SUBSET D /\ Last # {}
  OBVIOUS
<1>5. PICK c \in Last : \A n \in Last : n = c \/ Precedes(read, c, n)
  BY <1>4, FirstEntry
<1>6. Before(read, a) = {}
  BY <1>1, Sorted DEF Before
<1>7. Before(read, b) = {n \in D : read[n] = read[a]}
  <2>1. \A n \in D : read[n] = read[a] => Precedes(read, n, b)
    BY <1>1 DEF Precedes
  <2>2. \A n \in Rest : ~Precedes(read, n, b)
    BY <1>3, Sorted
  <2>3. QED
    BY <2>1, <2>2 DEF Before
<1>8. Before(read, c) = Before(read, b) \cup {b}
  <2>1. \A n \in D : read[n] = read[a] => Precedes(read, n, c)
    BY <1>1 DEF Precedes
  <2>2. Precedes(read, b, c)
    BY <1>3
  <2>3. \A n \in Last : ~Precedes(read, n, c)
    BY <1>5, Sorted
  <2>4. QED
    BY <1>7, <2>1, <2>2, <2>3 DEF Before
<1>9. read[a] \in EverySecond(read)
  <2>1. Cardinality(Before(read, a)) % 2 = 0
    BY <1>6, FS_EmptySet
  <2>2. QED
    BY <2>1 DEF EverySecond
<1>10. read[b] \in EverySecond(read) \/ read[c] \in EverySecond(read)
  <2>1. IsFiniteSet(Before(read, b)) /\ Cardinality(Before(read, b)) \in Nat
    BY Positions
  <2>2. b \notin Before(read, b)
    BY <1>7
  <2>3. Cardinality(Before(read, c)) = Cardinality(Before(read, b)) + 1
    BY <1>8, <2>1, <2>2, FS_AddElement
  <2>4. Cardinality(Before(read, b)) % 2 = 0 \/ Cardinality(Before(read, c)) % 2 = 0
    BY <2>1, <2>3
  <2>5. QED
    BY <2>4 DEF EverySecond
<1>11. QED
  BY <1>9, <1>10

-----------------------------------------------------------------------------
(* Cameras with two nodes each.                                            *)
Paired(S) == \A k \in Nat : 2 * k \in S <=> 2 * k + 1 \in S

LEMMA Parity ==
  ASSUME NEW n \in Nat
  PROVE  \E k \in Nat : \/ n = 2 * k /\ n % 2 = 0
                        \/ n = 2 * k + 1 /\ n % 2 = 1
<1>1. n \div 2 \in Nat /\ n = 2 * (n \div 2) + (n % 2) /\ n % 2 \in 0 .. 1
  OBVIOUS
<1>2. QED
  BY <1>1

(* Below an even number, a paired set has as many even as odd elements, so *)
(* that they are an even number together.                                  *)
LEMMA EvenlyMany ==
  ASSUME NEW S \in SUBSET Nat, IsFiniteSet(S), Paired(S), NEW k \in Nat
  PROVE  /\ IsFiniteSet({j \in S : j < 2 * k})
         /\ \E n \in Nat : Cardinality({j \in S : j < 2 * k}) = 2 * n
<1> DEFINE Below == {j \in S : j < 2 * k}
           Even == {j \in Below : \E i \in Nat : j = 2 * i}
           Odd == {j \in Below : \E i \in Nat : j = 2 * i + 1}
           next == [j \in Even |-> j + 1]
<1>1. IsFiniteSet(Below) /\ IsFiniteSet(Even) /\ IsFiniteSet(Odd)
  <2>1. Below \in SUBSET S /\ Even \in SUBSET S /\ Odd \in SUBSET S
    OBVIOUS
  <2>2. QED
    BY <2>1, FS_Subset
<1>2. Below = Even \cup Odd
  BY Parity
<1>3. Even \cap Odd = {}
  OBVIOUS
<1>4. next \in Bijection(Even, Odd)
  <2>1. \A j \in Even : j + 1 \in Odd
    <3> TAKE j \in Even
    <3>1. PICK i \in Nat : j = 2 * i
      OBVIOUS
    <3>2. j + 1 \in S /\ j + 1 < 2 * k
      BY <3>1 DEF Paired
    <3>3. QED
      BY <3>1, <3>2
  <2>2. \A j \in Odd : \E i \in Even : j = i + 1
    <3> TAKE j \in Odd
    <3>1. PICK i \in Nat : j = 2 * i + 1
      OBVIOUS
    <3>2. 2 * i \in Even /\ j = (2 * i) + 1
      BY <3>1 DEF Paired
    <3>3. QED
      BY <3>2
  <2>3. next \in [Even -> Odd]
    BY <2>1
  <2>4. \A i, j \in Even : next[i] = next[j] => i = j
    OBVIOUS
  <2>5. QED
    BY <2>2, <2>3, <2>4 DEF Bijection, Injection, Surjection, IsInjective
<1>5. Cardinality(Odd) = Cardinality(Even)
  <2>1. ExistsBijection(Even, Odd)
    BY <1>4 DEF ExistsBijection
  <2>2. QED
    BY <1>1, <2>1, FS_Bijection
<1>6. Cardinality(Even) \in Nat
  BY <1>1, FS_CardinalityType
<1>7. Cardinality(Below) = Cardinality(Even) + Cardinality(Odd) - Cardinality({})
  BY <1>1, <1>2, <1>3, FS_Union
<1>8. Cardinality(Below) = 2 * Cardinality(Even)
  BY <1>5, <1>6, <1>7, FS_EmptySet
<1>9. QED
  BY <1>1, <1>6, <1>8

(* Of a paired set, the elements that evenly many precede are even.        *)
LEMMA FirstOfPairs ==
  ASSUME NEW S \in SUBSET Nat, IsFiniteSet(S), Paired(S), NEW m \in S,
         Cardinality({j \in S : j < m}) % 2 = 0
  PROVE  m % 2 = 0
<1>1. PICK k \in Nat : \/ m = 2 * k /\ m % 2 = 0
                       \/ m = 2 * k + 1 /\ m % 2 = 1
  BY Parity
<1>2. CASE m = 2 * k + 1
  <2> DEFINE Below == {j \in S : j < 2 * k}
  <2>1. {j \in S : j < m} = Below \cup {2 * k}
    <3>1. 2 * k \in S
      BY <1>2 DEF Paired
    <3>2. \A j \in S : j < m <=> j < 2 * k \/ j = 2 * k
      BY <1>2
    <3>3. QED
      BY <3>1, <3>2
  <2>2. IsFiniteSet(Below) /\ \E n \in Nat : Cardinality(Below) = 2 * n
    BY EvenlyMany
  <2>3. PICK n \in Nat : Cardinality(Below) = 2 * n
    BY <2>2
  <2>4. 2 * k \notin Below
    OBVIOUS
  <2>5. Cardinality({j \in S : j < m}) = 2 * n + 1
    <3> HIDE DEF Below
    <3>1. Cardinality(Below \cup {2 * k}) = Cardinality(Below) + 1
      BY <2>2, <2>4, FS_AddElement
    <3>2. QED
      BY <2>1, <2>3, <3>1
  <2>6. (2 * n + 1) % 2 = 1
    OBVIOUS
  <2>7. QED
    BY <2>5, <2>6
<1>3. QED
  BY <1>1, <1>2

(* The positions of a scan of whole cameras are those of the numbers read, *)
(* and the numbers are paired: only first nodes are chosen.                *)
LEMMA WholeCamerasFirst ==
  ASSUME NEW D \in SUBSET Nat, IsFiniteSet(D), NEW read \in [D -> Nat], WholeCameras(read)
  PROVE  \A i \in EverySecond(read) : i % 2 = 0
<1> DEFINE S == {read[n] : n \in D}
           value == [n \in D |-> read[n]]
<1>1. \A m, n \in D : read[m] = read[n] => m = n
  BY DEF WholeCameras
<1>2. S \in SUBSET Nat /\ IsFiniteSet(S)
  <2>1. value \in Surjection(D, S)
    BY DEF Surjection
  <2>2. QED
    BY <2>1, FS_Surjection
<1>3. Paired(S)
  <2>1. \A i \in S : Partner(i) \in S
    BY DEF WholeCameras
  <2>2. \A k \in Nat : Partner(2 * k) = 2 * k + 1 /\ Partner(2 * k + 1) = 2 * k
    BY DEF Partner
  <2> HIDE DEF S
  <2>3. QED
    BY <2>1, <2>2 DEF Paired
<1>4. ASSUME NEW n \in D
      PROVE  Cardinality({j \in S : j < read[n]}) = Cardinality(Before(read, n))
  <2> DEFINE smaller == [m \in Before(read, n) |-> read[m]]
             Smaller == {j \in S : j < read[n]}
  <2>1. Before(read, n) = {m \in D : read[m] < read[n]}
    <3>1. \A m \in D : Precedes(read, m, n) <=> read[m] < read[n]
      BY <1>1 DEF Precedes
    <3>2. QED
      BY <3>1 DEF Before
  <2>2. smaller \in Bijection(Before(read, n), Smaller)
    <3>1. smaller \in [Before(read, n) -> Smaller]
      BY <2>1
    <3>2. \A i \in Smaller : \E m \in Before(read, n) : i = read[m]
      BY <2>1
    <3>3. \A l, m \in Before(read, n) : smaller[l] = smaller[m] => l = m
      BY <1>1, <2>1
    <3>4. QED
      BY <3>1, <3>2, <3>3 DEF Bijection, Injection, Surjection, IsInjective
  <2>3. IsFiniteSet(Before(read, n)) /\ ExistsBijection(Before(read, n), Smaller)
    BY <2>2, Positions DEF ExistsBijection
  <2> HIDE DEF Smaller
  <2>4. Cardinality(Smaller) = Cardinality(Before(read, n))
    BY <2>3, FS_Bijection
  <2>5. QED
    BY <2>4 DEF Smaller
<1>5. TAKE i \in EverySecond(read)
<1>6. PICK n \in D : i = read[n] /\ Cardinality(Before(read, n)) % 2 = 0
  BY DEF EverySecond
<1>7. i \in S /\ Cardinality({j \in S : j < i}) % 2 = 0
  BY <1>4, <1>6
<1> HIDE DEF S
<1>8. QED
  BY <1>2, <1>3, <1>7, FirstOfPairs

(* What a scan has found.                                                  *)
LEMMA WhatIsFound ==
  ASSUME TypeOK
  PROVE  /\ DOMAIN found \in SUBSET Nat /\ IsFiniteSet(DOMAIN found)
         /\ found \in [DOMAIN found -> Nat]
<1>1. DOMAIN found \in SUBSET Nodes /\ found \in [DOMAIN found -> Indices]
  BY DEF TypeOK
<1>2. Indices \subseteq Nat
  BY ReadingsAreNumbers DEF Indices
<1>3. QED
  BY <1>1, <1>2, NodesAreNumbers, FS_Subset

(* What is chosen and what is captured are first nodes.                    *)
FirstNodesInv ==
  ~halved => /\ \A i \in chosen : i % 2 = 0
             /\ \A c \in captures : c.index % 2 = 0

(* As long as scans meet whole cameras, a camera is captured by its first  *)
(* node only, wherever in /dev it stands and whatever cameras come and go  *)
(* between two scans.                                                      *)
THEOREM FirstNodes == Spec => []FirstNodesOnly
<1>1. Init => FirstNodesInv
  BY DEF Init, FirstNodesInv
<1>2. ASSUME TypeOK, FirstNodesInv, EndOfDir PROVE FirstNodesInv'
  <2> SUFFICES ASSUME ~halved' PROVE FirstNodesInv'
    BY DEF FirstNodesInv
  <2>1. ~halved /\ WholeCameras(found) /\ chosen' = EverySecond(found) /\ captures' = captures
    BY <1>2 DEF EndOfDir, mapVars
  <2>2. \A i \in chosen' : i % 2 = 0
    BY <1>2, <2>1, WhatIsFound, WholeCamerasFirst
  <2>3. QED
    BY <1>2, <2>1, <2>2 DEF FirstNodesInv
<1>3. ASSUME FirstNodesInv, NEW i \in Indices, CreateCamera(i) PROVE FirstNodesInv'
  BY <1>3 DEF FirstNodesInv, CreateCamera, IsNext, mapVars
<1>4. ASSUME TypeOK, FirstNodesInv, NEW c \in captures, Open(c) PROVE FirstNodesInv'
  BY <1>4 DEF TypeOK, FirstNodesInv, Open
<1>5. CapturesInv /\ FirstNodesInv /\ [Next]_vars => FirstNodesInv'
  <2> SUFFICES ASSUME TypeOK, FirstNodesInv, [Next]_vars PROVE FirstNodesInv'
    BY DEF CapturesInv
  <2>1. CASE UNCHANGED <<chosen, captures, halved>>
    BY <2>1 DEF FirstNodesInv
  <2>2. QED
    BY <1>2, <1>3, <1>4, <2>1 DEF Next, ManagerStep, ReadStep, StartRtmp, BeginScan, ScanFails,
       ReadEntry, EndScan, DevicesChange, ErrorCamera, vars, mapVars
<1>6. FirstNodesInv => FirstNodesOnly
  BY DEF FirstNodesInv, FirstNodesOnly
<1>7. QED
  BY <1>1, <1>5, <1>6, CapturesInvariant, PTL DEF Spec

-----------------------------------------------------------------------------
(* The map and the captures.                                               *)

(* mCamerasMap is the list of the captures that were started: each has its *)
(* entry, with its stream, and the streams are numbered without a gap, so  *)
(* that what isAllCameraWork counts are captures.                          *)
MapListsCaptures ==
  /\ DOMAIN cameras = {c.index : c \in captures}
  /\ \A c \in captures : cameras[c.index] = c.stream
  /\ {c.stream : c \in captures} = 1 .. workCount

LEMMA MapInit == Init => MapListsCaptures
<1> SUFFICES ASSUME Init PROVE MapListsCaptures
  OBVIOUS
<1>1. captures = {} /\ DOMAIN cameras = {} /\ workCount = 0
  BY DEF Init, Nothing
<1>2. QED
  BY <1>1 DEF MapListsCaptures

LEMMA MapCreate ==
  ASSUME CapturesInv, MapListsCaptures, NEW i \in Indices, CreateCamera(i)
  PROVE  MapListsCaptures'
<1>1. CASE IsKnown(i)
  BY <1>1 DEF CreateCamera, MapListsCaptures, mapVars
<1>2. CASE ~IsKnown(i)
  <2> DEFINE new == [index |-> i, stream |-> workCount + 1, open |-> FALSE]
  <2>1. /\ workCount' = workCount + 1
        /\ cameras' = [j \in DOMAIN cameras \cup {i} |-> IF j = i THEN workCount + 1 ELSE cameras[j]]
        /\ captures' = captures \cup {new}
    BY <1>2 DEF CreateCamera, NextStream
  <2>2. workCount \in Nat /\ i \notin DOMAIN cameras
    BY <1>2 DEF IsKnown, CapturesInv, TypeOK
  <2>3. new.index = i /\ new.stream = workCount + 1
    OBVIOUS
  <2> HIDE DEF new
  <2>4. DOMAIN cameras' = {c.index : c \in captures'}
    BY <2>1, <2>3 DEF MapListsCaptures
  <2>5. \A c \in captures' : cameras'[c.index] = c.stream
    BY <2>1, <2>2, <2>3 DEF MapListsCaptures
  <2>6. 1 .. workCount' = (1 .. workCount) \cup {workCount + 1}
    BY <2>1, <2>2
  <2>7. {c.stream : c \in captures'} = 1 .. workCount'
    BY <2>1, <2>3, <2>6 DEF MapListsCaptures
  <2>8. QED
    BY <2>4, <2>5, <2>7 DEF MapListsCaptures
<1>3. QED
  BY <1>1, <1>2

LEMMA MapOpen ==
  ASSUME CapturesInv, MapListsCaptures, NEW c \in captures, Open(c)
  PROVE  MapListsCaptures'
<1> DEFINE opened == [c EXCEPT !.open = TRUE]
<1>1. captures' = (captures \ {c}) \cup {opened} /\ UNCHANGED <<cameras, workCount>>
  BY DEF Open
<1>2. c \in [index : Indices, stream : Nat, open : BOOLEAN]
  BY DEF CapturesInv, TypeOK
<1>3. opened.index = c.index /\ opened.stream = c.stream
  BY <1>2
<1> HIDE DEF opened
<1>4. /\ {d.index : d \in captures'} = {d.index : d \in captures}
      /\ {d.stream : d \in captures'} = {d.stream : d \in captures}
  BY <1>1, <1>3
<1>5. \A d \in captures' : cameras'[d.index] = d.stream
  BY <1>1, <1>3 DEF MapListsCaptures
<1>6. QED
  BY <1>1, <1>4, <1>5 DEF MapListsCaptures

(* However often /dev is searched and whatever the names are read as, the  *)
(* map and the captures say the same: no capture runs beside the map, no   *)
(* entry stands for a capture that was never started, and no stream number *)
(* is left out.                                                            *)
THEOREM MapIsRight == Spec => []MapListsCaptures
<1>1. CapturesInv /\ MapListsCaptures /\ [Next]_vars => MapListsCaptures'
  <2> SUFFICES ASSUME CapturesInv, MapListsCaptures, [Next]_vars PROVE MapListsCaptures'
    OBVIOUS
  <2>1. CASE \E i \in Indices : CreateCamera(i)
    BY <2>1, MapCreate
  <2>2. CASE \E c \in captures : Open(c)
    BY <2>2, MapOpen
  <2>3. CASE UNCHANGED <<cameras, workCount, captures>>
    BY <2>3 DEF MapListsCaptures
  <2>4. QED
    BY <2>1, <2>2, <2>3 DEF Next, ManagerStep, ReadStep, StartRtmp, BeginScan, ScanFails,
       ReadEntry, EndOfDir, EndScan, DevicesChange, ErrorCamera, vars, mapVars
<1>2. QED
  BY <1>1, MapInit, CapturesInvariant, PTL DEF Spec

-----------------------------------------------------------------------------
(* What one scan adds: two cameras at least, and not too many.             *)

(* What the map and the list of nodes still to create hold together.       *)
InSight == DOMAIN cameras \cup chosen

ThreeFound == \E x, y, z \in DOMAIN found :
                found[x] # found[y] /\ found[x] # found[z] /\ found[y] # found[z]

(* A scan that has read three numbers has two cameras in sight, and none   *)
(* is lost from sight until the scan has ended.                            *)
OneScanIsEnough ==
  [][/\ scan = "reading" /\ scan' = "creating" /\ ThreeFound => \E a, c \in InSight' : a # c
     /\ scan = "creating" => InSight \subseteq InSight']_vars

(* The safety half of FindsCameras: whatever comes and goes while a scan   *)
(* reads and creates, when it has read three numbers it ends with two      *)
(* cameras in the map, because the choice takes two of them, creating one  *)
(* moves it from the list to the map, and nothing removes an entry.        *)
THEOREM ScanSuffices == Spec => OneScanIsEnough
<1>1. ASSUME TypeOK, EndOfDir, ThreeFound PROVE \E a, c \in InSight' : a # c
  <2>1. PICK x, y, z \in DOMAIN found :
          found[x] # found[y] /\ found[x] # found[z] /\ found[y] # found[z]
    BY <1>1 DEF ThreeFound
  <2>2. \E a, c \in EverySecond(found) : a # c
    BY <1>1, <2>1, WhatIsFound, TwoAreChosen
  <2>3. QED
    BY <1>1, <2>2 DEF EndOfDir, InSight
<1>2. ASSUME NEW i \in Indices, CreateCamera(i)
      PROVE  InSight \subseteq InSight' /\ scan = "creating" /\ scan' = scan
  BY <1>2 DEF CreateCamera, IsKnown, InSight, mapVars
<1>3. CapturesInv /\ [Next]_vars =>
        [/\ scan = "reading" /\ scan' = "creating" /\ ThreeFound => \E a, c \in InSight' : a # c
         /\ scan = "creating" => InSight \subseteq InSight']_vars
  <2> SUFFICES ASSUME TypeOK, [Next]_vars
               PROVE  /\ scan = "reading" /\ scan' = "creating" /\ ThreeFound
                           => \E a, c \in InSight' : a # c
                      /\ scan = "creating" => InSight \subseteq InSight'
    BY DEF CapturesInv
  <2>1. CASE EndOfDir
    BY <1>1, <2>1 DEF EndOfDir
  <2>2. CASE \E i \in Indices : CreateCamera(i)
    BY <1>2, <2>2
  <2>3. CASE EndScan \/ BeginScan \/ ScanFails
    BY <2>3 DEF EndScan, BeginScan, ScanFails, InSight, mapVars
  <2>4. CASE UNCHANGED <<scan, chosen, cameras>>
    BY <2>4 DEF InSight
  <2>5. QED
    BY <2>1, <2>2, <2>3, <2>4 DEF Next, ManagerStep, ReadStep, StartRtmp, ReadEntry,
       DevicesChange, Open, ErrorCamera, vars, mapVars
<1>4. QED
  BY <1>3, CapturesInvariant, PTL DEF Spec, OneScanIsEnough

(* There are never more cameras in the map than a scan may add to one, and *)
(* while a scan creates them there are not more in sight.                  *)
Limit == 1 + (Cardinality(Nodes) + 1) \div 2

FewInSight ==
  /\ IsFiniteSet(InSight)
  /\ Cardinality(DOMAIN cameras) <= Limit
  /\ scan = "creating" => Cardinality(InSight) <= Limit
  /\ scan # "creating" => chosen = {}

LEMMA EndOfDirKeepsFew ==
  ASSUME TypeOK, OneMessage, FewInSight, EndOfDir
  PROVE  FewInSight'
<1> DEFINE half == (Cardinality(DOMAIN found) + 1) \div 2
<1>1. /\ DOMAIN cameras' = DOMAIN cameras /\ scan' = "creating" /\ chosen' = EverySecond(found)
      /\ scan = "reading"
  BY DEF EndOfDir, mapVars
<1>2. InSight = DOMAIN cameras
  BY <1>1 DEF FewInSight, InSight
<1>3. IsFiniteSet(DOMAIN cameras) /\ Cardinality(DOMAIN cameras) \in Nat
  BY <1>2, FS_CardinalityType DEF FewInSight
<1>4. Cardinality(DOMAIN cameras) <= 1
  BY <1>1, <1>3 DEF OneMessage, AllWork
<1>5. IsFiniteSet(chosen') /\ Cardinality(chosen') <= half /\ Cardinality(chosen') \in Nat
  BY <1>1, WhatIsFound, HalfIsChosen, FS_CardinalityType
<1>6. /\ Cardinality(DOMAIN found) \in Nat /\ Cardinality(Nodes) \in Nat
      /\ Cardinality(DOMAIN found) <= Cardinality(Nodes)
  <2>1. DOMAIN found \in SUBSET Nodes
    BY DEF TypeOK
  <2>2. QED
    BY <2>1, NodesAreNumbers, FS_Subset, FS_CardinalityType
<1>7. 1 + half <= Limit
  BY <1>6 DEF Limit
<1>8. /\ IsFiniteSet(DOMAIN cameras \cup chosen')
      /\ Cardinality(DOMAIN cameras \cup chosen') <= Cardinality(DOMAIN cameras) + Cardinality(chosen')
  <2>1. /\ IsFiniteSet(DOMAIN cameras \cup chosen')
        /\ Cardinality(DOMAIN cameras \cup chosen')
             = Cardinality(DOMAIN cameras) + Cardinality(chosen') - Cardinality(DOMAIN cameras \cap chosen')
    BY <1>3, <1>5, FS_Union
  <2>2. Cardinality(DOMAIN cameras \cap chosen') \in Nat
    BY <1>3, FS_Intersection, FS_CardinalityType
  <2>3. QED
    BY <1>3, <1>5, <2>1, <2>2
<1>9. InSight' = DOMAIN cameras \cup chosen'
  BY <1>1 DEF InSight
<1>10. Cardinality(DOMAIN cameras \cup chosen') \in Nat /\ half \in Nat /\ Limit \in Nat
  <2>1. Cardinality(DOMAIN cameras \cup chosen') \in Nat
    BY <1>8, FS_CardinalityType
  <2>2. half \in Nat /\ Limit \in Nat
    BY <1>6 DEF Limit
  <2>3. QED
    BY <2>1, <2>2
<1>11. Cardinality(DOMAIN cameras \cup chosen') <= Limit
  BY <1>3, <1>4, <1>5, <1>7, <1>8, <1>10
<1>12. QED
  BY <1>1, <1>8, <1>9, <1>11 DEF FewInSight

LEMMA CreateKeepsFew ==
  ASSUME FewInSight, NEW i \in Indices, CreateCamera(i)
  PROVE  FewInSight'
<1>1. scan = "creating" /\ scan' = "creating"
  BY DEF CreateCamera
<1>2. InSight' = InSight
  BY DEF CreateCamera, IsKnown, IsNext, InSight, mapVars
<1>3. DOMAIN cameras' \in SUBSET InSight
  BY <1>2 DEF InSight
<1>4. IsFiniteSet(InSight) /\ Cardinality(InSight) <= Limit
  BY <1>1 DEF FewInSight
<1>5. /\ Cardinality(DOMAIN cameras') <= Cardinality(InSight)
      /\ Cardinality(DOMAIN cameras') \in Nat /\ Cardinality(InSight) \in Nat
  BY <1>3, <1>4, FS_Subset, FS_CardinalityType
<1>6. Limit \in Nat
  BY NodesAreNumbers, FS_CardinalityType DEF Limit
<1>7. QED
  BY <1>1, <1>2, <1>4, <1>5, <1>6 DEF FewInSight

LEMMA FewInSightInvariant == Spec => []FewInSight
<1>1. Init => FewInSight
  <2> SUFFICES ASSUME Init PROVE FewInSight
    OBVIOUS
  <2>1. DOMAIN cameras = {} /\ chosen = {} /\ scan = "none" /\ InSight = {}
    BY DEF Init, Nothing, InSight
  <2>2. Limit \in Nat
    BY NodesAreNumbers, FS_CardinalityType DEF Limit
  <2>3. QED
    BY <2>1, <2>2, FS_EmptySet DEF FewInSight
<1>2. CapturesInv /\ OneMessage /\ FewInSight /\ [Next]_vars => FewInSight'
  <2> SUFFICES ASSUME TypeOK, OneMessage, FewInSight, [Next]_vars PROVE FewInSight'
    BY DEF CapturesInv
  <2>1. CASE EndOfDir
    BY <2>1, EndOfDirKeepsFew
  <2>2. CASE \E i \in Indices : CreateCamera(i)
    BY <2>2, CreateKeepsFew
  <2>3. CASE EndScan \/ BeginScan
    BY <2>3 DEF EndScan, BeginScan, FewInSight, InSight, mapVars
  <2>4. CASE UNCHANGED <<scan, chosen, cameras>>
    BY <2>4 DEF FewInSight, InSight
  <2>5. QED
    BY <2>1, <2>2, <2>3, <2>4 DEF Next, ManagerStep, ReadStep, StartRtmp, ScanFails, ReadEntry,
       DevicesChange, Open, ErrorCamera, vars, mapVars
<1>3. QED
  BY <1>1, <1>2, CapturesInvariant, OneMessageInvariant, PTL DEF Spec

(* However nodes come and go, one capture and half the nodes there can be, *)
(* rounded up, are the most: no scan begins with two cameras in the map.   *)
THEOREM FewCaptures == Spec => []CapturesLimited
<1>1. CapturesInv /\ MapListsCaptures /\ FewInSight => CapturesLimited
  <2> SUFFICES ASSUME TypeOK, OneCapturePerNode, MapListsCaptures, FewInSight PROVE CapturesLimited
    BY DEF CapturesInv
  <2> DEFINE node == [c \in captures |-> c.index]
  <2>1. node \in Injection(captures, DOMAIN cameras)
    <3>1. node \in [captures -> DOMAIN cameras]
      BY DEF MapListsCaptures
    <3>2. \A c, d \in captures : node[c] = node[d] => c = d
      BY DEF OneCapturePerNode
    <3>3. QED
      BY <3>1, <3>2 DEF Injection, IsInjective
  <2>2. IsFiniteSet(DOMAIN cameras)
    <3>1. DOMAIN cameras \in SUBSET InSight
      BY DEF InSight
    <3>2. QED
      BY <3>1, FS_Subset DEF FewInSight
  <2>3. IsFiniteSet(captures) /\ Cardinality(captures) <= Cardinality(DOMAIN cameras)
    BY <2>1, <2>2, FS_Injection
  <2>4. /\ Cardinality(captures) \in Nat /\ Cardinality(DOMAIN cameras) \in Nat
        /\ Cardinality(Nodes) \in Nat
    BY <2>2, <2>3, NodesAreNumbers, FS_CardinalityType
  <2>5. QED
    BY <2>3, <2>4 DEF FewInSight, CapturesLimited, Limit
<1>2. QED
  BY <1>1, CapturesInvariant, MapIsRight, FewInSightInvariant, PTL
=============================================================================
