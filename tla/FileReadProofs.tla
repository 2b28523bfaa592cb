--------------------------- MODULE FileReadProofs ---------------------------
(***************************************************************************)
(* Proofs about FileRead, for clusters, files, chains and reads of every   *)
(* size.                                                                   *)
(***************************************************************************)
EXTENDS FileRead, TLAPS, WellFoundedInduction

-----------------------------------------------------------------------------
(* Positions and clusters                                                  *)

LEMMA Constants ==
  /\ ClusSize \in Nat /\ ClusSize > 0 /\ ListSize \in Nat /\ SeekListSize \in Nat
  /\ MaxRead \in Nat /\ MaxFaults \in Nat /\ FileSizes \subseteq Nat
  BY ConstAssumption

LEMMA MulMono ==
  ASSUME NEW p \in Nat, NEW q \in Nat, NEW n \in Nat, p <= q
  PROVE  p * n \in Nat /\ q * n \in Nat /\ p * n <= q * n
<1>1. (q - p) \in Nat /\ (q - p) * n >= 0 /\ p * n \in Nat /\ q * n \in Nat
  OBVIOUS
<1>2. (q - p) * n = q * n - p * n
  OBVIOUS
<1> QED BY <1>1, <1>2

\* A position is in one cluster only, at one offset.
LEMMA DivUnique ==
  ASSUME NEW p \in Nat, NEW q \in Nat, NEW r \in 0 .. ClusSize - 1, p = q * ClusSize + r
  PROVE  p \div ClusSize = q /\ p % ClusSize = r
<1>1. ClusSize \in Nat /\ ClusSize > 0 /\ r \in Nat /\ r < ClusSize
  BY Constants
<1>2. q * ClusSize <= p /\ p < q * ClusSize + ClusSize
  BY <1>1
<1>3. p \div ClusSize = q
  BY <1>1, <1>2
<1>4. p % ClusSize = r
  BY <1>1
<1> QED BY <1>3, <1>4

LEMMA DivMod ==
  ASSUME NEW p \in Nat
  PROVE  /\ p \div ClusSize \in Nat /\ p % ClusSize \in 0 .. ClusSize - 1
         /\ p = (p \div ClusSize) * ClusSize + (p % ClusSize)
<1> DEFINE q == p \div ClusSize
<1>1. ClusSize \in Nat /\ ClusSize > 0
  BY Constants
<1>2. q \in Nat
  BY <1>1
<1>3. q * ClusSize <= p
  BY <1>1
<1>4. p < q * ClusSize + ClusSize
  BY <1>1
<1>5. p % ClusSize \in 0 .. ClusSize - 1
  BY <1>1
<1>6. p = q * ClusSize + (p % ClusSize)
  <2> HIDE DEF q
  <2> DEFINE f == q * ClusSize
             r == p - f
  <2>1. f \in Nat
    BY <1>1, <1>2
  <2>2. f <= p /\ p < f + ClusSize
    BY <1>3, <1>4
  <2>3. r \in 0 .. ClusSize - 1 /\ p = f + r
    <3> HIDE DEF f
    <3> QED BY <1>1, <2>1, <2>2
  <2>4. p = q * ClusSize + r
    BY <2>3
  <2> HIDE DEF r
  <2> DEFINE m == p % ClusSize
  <2>5. m = r
    BY <1>2, <2>3, <2>4, DivUnique
  <2> HIDE DEF m, f
  <2>6. p = q * ClusSize + m
    BY <2>4, <2>5
  <2> QED BY <2>6 DEF m
<1> QED BY <1>2, <1>5, <1>6

\* The clusters that m bytes need from the beginning of the first.
LEMMA CeilFacts ==
  ASSUME NEW m \in Nat, NEW need, need = (m - 1 + ClusSize) \div ClusSize
  PROVE  /\ need \in Nat
         /\ m % ClusSize # 0 => need = m \div ClusSize + 1
         /\ m % ClusSize = 0 => need = m \div ClusSize
         /\ \A j \in Nat : m <= j * ClusSize <=> need <= j
<1> DEFINE q == m \div ClusSize
           r == m % ClusSize
<1>1. q \in Nat /\ r \in 0 .. ClusSize - 1 /\ m = q * ClusSize + r
  BY DivMod, Constants
<1>2. m % ClusSize = r /\ m \div ClusSize = q
  OBVIOUS
<1> HIDE DEF q, r
<1>3. ClusSize \in Nat /\ ClusSize > 0 /\ r \in Nat /\ r < ClusSize /\ q * ClusSize \in Nat
  BY <1>1, Constants
<1>4. need = IF r = 0 THEN q ELSE q + 1
  <2>1. CASE r = 0
    <3>1. m - 1 + ClusSize \in Nat /\ ClusSize - 1 \in 0 .. ClusSize - 1
          /\ m - 1 + ClusSize = q * ClusSize + (ClusSize - 1)
      BY <1>1, <1>3, <2>1
    <3> QED BY <1>1, <2>1, <3>1, DivUnique
  <2>2. CASE r # 0
    <3>1. (q + 1) * ClusSize = q * ClusSize + ClusSize /\ q + 1 \in Nat
      BY <1>1, <1>3
    <3>2. m - 1 + ClusSize \in Nat /\ r - 1 \in 0 .. ClusSize - 1
          /\ m - 1 + ClusSize = (q + 1) * ClusSize + (r - 1)
      BY <1>1, <1>3, <2>2, <3>1
    <3> QED BY <2>2, <3>1, <3>2, DivUnique
  <2> QED BY <2>1, <2>2
<1>5. need \in Nat
  BY <1>1, <1>4
<1>6. ASSUME NEW j \in Nat PROVE m <= j * ClusSize <=> need <= j
  <2>1. need <= j => m <= j * ClusSize
    <3> SUFFICES ASSUME need <= j PROVE m <= j * ClusSize
      OBVIOUS
    <3>1. need * ClusSize <= j * ClusSize /\ j * ClusSize \in Nat
      BY <1>3, <1>5, MulMono
    <3>2. (q + 1) * ClusSize = q * ClusSize + ClusSize
      BY <1>1, <1>3
    <3>3. m <= need * ClusSize
      BY <1>1, <1>3, <1>4, <3>2
    <3>4. need * ClusSize \in Nat
      BY <1>3, <1>5
    <3> QED BY <3>1, <3>3, <3>4
  <2>2. j < need => j * ClusSize < m
    <3> SUFFICES ASSUME j < need PROVE j * ClusSize < m
      OBVIOUS
    <3>1. CASE r = 0
      <4>1. (j + 1) * ClusSize <= q * ClusSize
        BY <1>1, <1>3, <1>4, <3>1, MulMono
      <4>2. (j + 1) * ClusSize = j * ClusSize + ClusSize /\ j * ClusSize \in Nat
        BY <1>3
      <4> QED BY <1>1, <1>3, <3>1, <4>1, <4>2
    <3>2. CASE r # 0
      <4>1. j * ClusSize <= q * ClusSize /\ j * ClusSize \in Nat
        BY <1>1, <1>3, <1>4, <3>2, MulMono
      <4> QED BY <1>1, <1>3, <3>2, <4>1
    <3> QED BY <3>1, <3>2
  <2>3. j * ClusSize \in Nat
    BY <1>3
  <2> QED BY <1>5, <2>1, <2>2, <2>3
<1> QED BY <1>2, <1>4, <1>5, <1>6

-----------------------------------------------------------------------------
(* The chain                                                               *)

Clusters == {chain[i] : i \in DOMAIN chain}

\* A chain is as long as its file needs, and each cluster is in it once.
LEMMA ChainFacts ==
  ASSUME chain \in Chains, fileSize \in FileSizes, Fits(chain, fileSize)
  PROVE  /\ chain \in Seq(Nat \ {0, 1}) /\ Len(chain) \in Nat /\ fileSize \in Nat
         /\ \A i, j \in 1 .. Len(chain) : chain[i] = chain[j] => i = j
         /\ fileSize <= Len(chain) * ClusSize
         /\ \A p \in Nat : p < fileSize => ClusNo(p) <= Len(chain)
         /\ fileSize % ClusSize = 0 => ClusNo(fileSize) = Len(chain) + 1
<1>1. /\ chain \in Seq(Nat \ {0, 1}) /\ Len(chain) \in Nat /\ fileSize \in Nat
      /\ DOMAIN chain = 1 .. Len(chain)
  BY ConstAssumption
<1>2. \A i, j \in 1 .. Len(chain) : chain[i] = chain[j] => i = j
  BY <1>1, ConstAssumption
<1>3. ClusSize \in Nat /\ ClusSize > 0
  BY Constants
<1> DEFINE n == Len(chain)
<1>4. n = (fileSize - 1 + ClusSize) \div ClusSize
  <2>1. fileSize + ClusSize - 1 = fileSize - 1 + ClusSize
    BY <1>1, <1>3
  <2> QED BY <2>1 DEF Fits
<1>5. /\ n \in Nat /\ (fileSize % ClusSize = 0 => n = fileSize \div ClusSize)
      /\ \A j \in Nat : fileSize <= j * ClusSize <=> n <= j
  <2> HIDE DEF n
  <2> QED BY <1>1, <1>4, CeilFacts
<1>6. fileSize <= n * ClusSize
  <2> HIDE DEF n
  <2> QED BY <1>5
<1>7. ASSUME NEW p \in Nat, p < fileSize PROVE ClusNo(p) <= n
  <2> DEFINE q == p \div ClusSize
             r == p % ClusSize
  <2>1. q \in Nat /\ r \in 0 .. ClusSize - 1 /\ p = q * ClusSize + r
    BY DivMod, Constants
  <2>2. ClusNo(p) = q + 1
    BY DEF ClusNo
  <2> HIDE DEF q, r, n
  <2>3. ~(n <= q)
    <3> SUFFICES ASSUME n <= q PROVE FALSE
      OBVIOUS
    <3>1. fileSize <= q * ClusSize /\ q * ClusSize \in Nat
      BY <1>3, <1>5, <2>1
    <3> QED BY <1>1, <1>7, <2>1, <3>1, Constants
  <2> QED BY <1>5, <2>1, <2>2, <2>3
<1>8. fileSize % ClusSize = 0 => ClusNo(fileSize) = n + 1
  BY <1>5 DEF ClusNo
<1> QED BY <1>1, <1>2, <1>6, <1>7, <1>8

\* A cluster has its place, and fromClus is at one.
LEMMA PlaceFacts ==
  ASSUME TypeOK
  PROVE  /\ \A i \in 1 .. Len(chain) : Place(chain[i]) = i
         /\ Place(from) \in Nat /\ Place(from) >= 1
         /\ Place(from) = 1 \/ Place(from) <= Len(chain)
<1>1. /\ chain \in Seq(Nat \ {0, 1}) /\ Len(chain) \in Nat
      /\ DOMAIN chain = 1 .. Len(chain)
      /\ \A i, j \in 1 .. Len(chain) : chain[i] = chain[j] => i = j
  BY ChainFacts DEF TypeOK
<1>2. ASSUME NEW i \in 1 .. Len(chain) PROVE Place(chain[i]) = i
  <2>1. chain[i] # 0
    BY <1>1
  <2>2. \A j \in DOMAIN chain : chain[j] = chain[i] <=> j = i
    BY <1>1
  <2> QED BY <1>1, <2>1, <2>2 DEF Place
<1>3. from = 0 \/ \E i \in 1 .. Len(chain) : from = chain[i]
  BY <1>1 DEF TypeOK
<1>4. CASE from = 0
  BY <1>2, <1>4 DEF Place
<1>5. CASE \E i \in 1 .. Len(chain) : from = chain[i]
  BY <1>1, <1>2, <1>5
<1> QED BY <1>2, <1>3, <1>4, <1>5

LEMMA MaxExists ==
  ASSUME NEW n \in Nat, NEW S \in SUBSET (0 .. n), S # {}
  PROVE  \E c \in S : \A d \in S : d <= c
<1> DEFINE T == {k \in Nat : \A d \in S : d <= k}
<1>1. n \in T
  OBVIOUS
<1>2. PICK m \in T : \A y \in T : ~ (<<y, m>> \in OpToRel(<, Nat))
  <2>1. T \subseteq Nat /\ T # {}
    BY <1>1
  <2> HIDE DEF T
  <2> QED BY <2>1, NatLessThanWellFounded, WFMin
<1>3. m \in Nat /\ \A y \in T : m <= y
  <2>1. m \in Nat /\ \A y \in T : y \in Nat
    BY <1>2
  <2> HIDE DEF T
  <2>2. \A y \in T : ~ (y < m)
    BY <1>2, <2>1 DEF OpToRel
  <2> QED BY <2>1, <2>2
<1>4. m \in S
  <2> SUFFICES ASSUME m \notin S PROVE FALSE
    OBVIOUS
  <2>1. \A d \in S : d <= m /\ d # m
    BY <1>2
  <2>2. PICK d \in S : TRUE
    OBVIOUS
  <2>3. d \in Nat /\ d < m
    BY <1>3, <2>1, <2>2
  <2>4. m - 1 \in Nat /\ \A e \in S : e <= m - 1
    BY <1>3, <2>1, <2>3
  <2> QED BY <1>3, <2>4
<1> QED BY <1>2, <1>4

\* The places where lists of runs start are the first one and places of the chain.
LEMMA ListFacts ==
  ASSUME chain \in Seq(Nat \ {0, 1}), NEW k \in Nat, NEW sz
  PROVE  /\ \A i \in ListStarts(k, sz) : i = k \/ i \in 1 .. Len(chain)
         /\ LastListStart(k, sz) \in ListStarts(k, sz)
<1>1. Len(chain) \in Nat
  OBVIOUS
<1>2. ASSUME NEW i \in ListStarts(k, sz) PROVE i = k \/ i \in 1 .. Len(chain)
  <2>1. CASE i = k
    BY <2>1
  <2>2. CASE i # k
    <3>1. PICK e \in RunEnds(k) : e < Len(chain) /\ i = e + 1
      BY <2>2 DEF ListStarts
    <3>2. e \in Nat /\ e + 1 <= Len(chain)
      BY <1>1, <3>1 DEF RunEnds
    <3> QED BY <1>1, <3>1, <3>2
  <2> QED BY <2>1, <2>2
<1> DEFINE S == ListStarts(k, sz)
<1>3. S \in SUBSET (0 .. (k + Len(chain))) /\ S # {}
  <2>1. k \in S
    BY DEF ListStarts
  <2> HIDE DEF S
  <2>2. ASSUME NEW i \in S PROVE i \in 0 .. (k + Len(chain))
    BY <1>1, <1>2 DEF S
  <2> QED BY <2>1, <2>2
<1>4. \E c \in S : \A d \in S : d <= c
  <2>1. k + Len(chain) \in Nat
    BY <1>1
  <2> HIDE DEF S
  <2> QED BY <1>3, <2>1, MaxExists
<1>5. LastListStart(k, sz) \in S
  BY <1>4 DEF LastListStart
<1> QED BY <1>2, <1>5

-----------------------------------------------------------------------------
(* A read                                                                  *)

\* A read takes the clusters it needs, from fromClus on, as far as there are any,
\* and delivers their bytes from the offset on.
LEMMA ReadFacts ==
  ASSUME TypeOK, NEW n, n \in Nat, fPos < fileSize
  PROVE  LET k == Place(from)
             len == Len(Loaded(n))
         IN /\ k \in 1 .. Len(chain) /\ Need(n) \in Nat
            /\ len \in Nat /\ len <= Need(n)
            /\ len = Need(n) \/ (len < Need(n) /\ k + len = Len(chain) + 1)
            /\ k + len <= Len(chain) + 1
            /\ \A j \in 1 .. len : Loaded(n)[j] = chain[k + j - 1]
            /\ NextFrom(n) \in {0} \cup Clusters
            /\ k + Need(n) <= Len(chain) => NextFrom(n) = chain[k + Need(n)]
            /\ Usable(n) = len * ClusSize - off /\ Usable(n) \in Int
            /\ n <= Usable(n) <=> len = Need(n)
<1> DEFINE k == Place(from)
           need == Need(n)
<1>1. /\ chain \in Seq(Nat \ {0, 1}) /\ Len(chain) \in Nat /\ fileSize \in Nat
      /\ fileSize <= Len(chain) * ClusSize
  BY ChainFacts DEF TypeOK
<1>2. fPos \in Nat /\ off \in 0 .. ClusSize - 1 /\ from \in {0} \cup Clusters
  BY DEF TypeOK, Clusters
<1>3. ClusSize \in Nat /\ ClusSize > 0 /\ off \in Nat /\ off < ClusSize
  BY <1>2, Constants
<1>4. k \in 1 .. Len(chain)
  <2>1. Len(chain) # 0
    BY <1>1, <1>2, <1>3
  <2>2. k \in Nat /\ k >= 1 /\ (k = 1 \/ k <= Len(chain))
    BY PlaceFacts
  <2> HIDE DEF k
  <2> QED BY <1>1, <2>1, <2>2
<1>5. /\ need \in Nat /\ \A j \in Nat : n + off <= j * ClusSize <=> need <= j
  <2>1. n + off \in Nat /\ need = (n + off - 1 + ClusSize) \div ClusSize
    <3>1. n - 1 + off + ClusSize = n + off - 1 + ClusSize
      BY <1>3
    <3> QED BY <1>3, <3>1 DEF Need
  <2>2. PICK m \in Nat : m = n + off
    BY <1>3
  <2> HIDE DEF need
  <2>3. need = (m - 1 + ClusSize) \div ClusSize
    BY <1>3, <2>1, <2>2
  <2>4. need \in Nat /\ \A j \in Nat : m <= j * ClusSize <=> need <= j
    BY <2>3, CeilFacts
  <2> QED BY <2>2, <2>4
<1> DEFINE last == IF k + need - 1 <= Len(chain) THEN k + need - 1 ELSE Len(chain)
<1>6. Loaded(n) = SubSeq(chain, k, last)
  BY DEF Loaded
<1>7. /\ NextFrom(n) = IF k + need <= Len(chain) THEN chain[k + need]
                       ELSE FromAt(k, LastListStart(k, ListSize))
  BY DEF NextFrom
<1> HIDE DEF k, need
<1>8. NextFrom(n) \in {0} \cup Clusters
  <2>1. LastListStart(k, ListSize) = k \/ LastListStart(k, ListSize) \in 1 .. Len(chain)
    <3>1. k \in Nat
      BY <1>1, <1>4
    <3> QED BY <1>1, <3>1, ListFacts
  <2>2. \A i \in 1 .. Len(chain) : chain[i] \in Clusters
    BY <1>1 DEF Clusters
  <2>3. CASE k + need <= Len(chain)
    <3>1. k + need \in 1 .. Len(chain)
      BY <1>1, <1>4, <1>5, <2>3
    <3> QED BY <1>7, <2>2, <2>3, <3>1
  <2>4. CASE ~(k + need <= Len(chain))
    <3>1. NextFrom(n) = FromAt(k, LastListStart(k, ListSize))
      BY <1>7, <2>4
    <3> QED BY <1>2, <2>1, <2>2, <3>1 DEF FromAt
  <2> QED BY <2>3, <2>4
<1> DEFINE len == last - k + 1
<1>9. last \in Nat /\ last <= Len(chain) /\ k <= last + 1 /\ len \in Nat /\ len <= need
      /\ k + len <= Len(chain) + 1
      /\ (len = need \/ (len < need /\ k + len = Len(chain) + 1))
  BY <1>1, <1>4, <1>5
<1>10. Len(Loaded(n)) = len /\ \A j \in 1 .. len : Loaded(n)[j] = chain[k + j - 1]
  <2>1. k \in Nat /\ k >= 1
    BY <1>1, <1>4
  <2>2. \A j \in k .. last : chain[j] \in Nat \ {0, 1}
    BY <1>1, <1>9, <2>1
  <2> HIDE DEF last
  <2>3. Len(Loaded(n)) = IF k <= last THEN last - k + 1 ELSE 0
    BY <1>1, <1>6, <1>9, <2>1, <2>2
  <2>4. \A j \in 1 .. (last - k + 1) : Loaded(n)[j] = chain[k + j - 1]
    BY <1>1, <1>6, <1>9, <2>1, <2>2
  <2>5. (IF k <= last THEN last - k + 1 ELSE 0) = last - k + 1
    BY <1>9, <2>1
  <2> QED BY <2>3, <2>4, <2>5
<1> HIDE DEF last, len
<1>11. Usable(n) = len * ClusSize - off /\ Usable(n) \in Int /\ len * ClusSize \in Nat
  <2>1. len * ClusSize \in Nat
    BY <1>3, <1>9
  <2> QED BY <1>3, <1>10, <2>1 DEF Usable
<1>12. n <= Usable(n) <=> len = need
  <2>1. n <= Usable(n) <=> n + off <= len * ClusSize
    BY <1>3, <1>11
  <2> QED BY <1>5, <1>9, <2>1
<1> QED BY <1>4, <1>5, <1>7, <1>8, <1>9, <1>10, <1>11, <1>12 DEF k, need

\* The byte with number x behind the position, in the clusters that were read.
LEMMA ByteFacts ==
  ASSUME TypeOK, NEW n, n \in Nat, fPos < fileSize, NEW x, x \in Nat, x < Usable(n)
  PROVE  /\ (off + x) \div ClusSize + 1 \in 1 .. Len(Loaded(n))
         /\ Loaded(n)[(off + x) \div ClusSize + 1] = chain[Place(from) + (off + x) \div ClusSize]
         /\ Loaded(n)[(off + x) \div ClusSize + 1] \in Clusters
<1> DEFINE q == (off + x) \div ClusSize
           r == (off + x) % ClusSize
           len == Len(Loaded(n))
           k == Place(from)
<1>1. /\ k \in 1 .. Len(chain) /\ len \in Nat /\ k + len <= Len(chain) + 1
      /\ \A j \in 1 .. len : Loaded(n)[j] = chain[k + j - 1]
      /\ Usable(n) = len * ClusSize - off
  BY ReadFacts
<1>2. ClusSize \in Nat /\ ClusSize > 0 /\ off \in Nat
  BY Constants DEF TypeOK
<1>3. q \in Nat /\ r \in 0 .. ClusSize - 1 /\ off + x = q * ClusSize + r
  BY <1>2, DivMod
<1>4. Len(chain) \in Nat /\ DOMAIN chain = 1 .. Len(chain)
  BY ChainFacts DEF TypeOK
<1> HIDE DEF q, r, len, k
<1>5. q * ClusSize < len * ClusSize
  <2>1. q * ClusSize \in Nat /\ len * ClusSize \in Nat /\ r \in Nat
    BY <1>1, <1>2, <1>3
  <2> QED BY <1>1, <1>2, <1>3, <2>1
<1>6. q < len
  <2> SUFFICES ASSUME len <= q PROVE FALSE
    BY <1>1, <1>3
  <2>1. len * ClusSize <= q * ClusSize /\ len * ClusSize \in Nat /\ q * ClusSize \in Nat
    BY <1>1, <1>2, <1>3, MulMono
  <2> QED BY <1>5, <2>1
<1>7. q + 1 \in 1 .. len /\ k + (q + 1) - 1 = k + q /\ k + q \in 1 .. Len(chain)
  BY <1>1, <1>3, <1>4, <1>6
<1>8. Loaded(n)[q + 1] = chain[k + q] /\ chain[k + q] \in Clusters
  BY <1>1, <1>4, <1>7 DEF Clusters
<1> QED BY <1>7, <1>8 DEF q, len, k

\* With the cursor in step: where a byte behind the position is.
LEMMA StepFacts ==
  ASSUME TypeOK, off = fPos % ClusSize, Place(from) = ClusNo(fPos), NEW x, x \in Nat
  PROVE  /\ ClusNo(fPos + x) = Place(from) + (off + x) \div ClusSize
         /\ (fPos + x) % ClusSize = (off + x) % ClusSize
<1> DEFINE b == fPos \div ClusSize
           q == (off + x) \div ClusSize
           r == (off + x) % ClusSize
<1>1. ClusSize \in Nat /\ ClusSize > 0 /\ off \in Nat /\ fPos \in Nat
  BY Constants DEF TypeOK
<1>2. b \in Nat /\ fPos = b * ClusSize + off
  BY <1>1, DivMod
<1>3. q \in Nat /\ r \in 0 .. ClusSize - 1 /\ off + x = q * ClusSize + r
  BY <1>1, DivMod
<1>4. Place(from) = b + 1 /\ ClusNo(fPos + x) = (fPos + x) \div ClusSize + 1
  BY DEF ClusNo
<1> HIDE DEF b, q, r
<1>5. b * ClusSize \in Nat /\ q * ClusSize \in Nat /\ (b + q) * ClusSize = b * ClusSize + q * ClusSize
  BY <1>1, <1>2, <1>3
<1>6. fPos + x = (b + q) * ClusSize + r
  BY <1>1, <1>2, <1>3, <1>5
<1>7. (fPos + x) \div ClusSize = b + q /\ (fPos + x) % ClusSize = r
  <2>1. fPos + x \in Nat /\ b + q \in Nat
    BY <1>1, <1>2, <1>3
  <2> QED BY <1>3, <1>6, <2>1, DivUnique
<1>8. ClusNo(fPos + x) = Place(from) + q
  BY <1>1, <1>2, <1>3, <1>4, <1>7
<1> QED BY <1>7, <1>8 DEF q, r

-----------------------------------------------------------------------------
(* The inductive invariant                                                 *)

\* Unless an event has left it behind, the offset is that of the position as
\* long as there is something to read there, and the cluster that of the
\* position as long as the chain has one for it: the padding behind the end of
\* the file, too, from which a seek may come back.
Follows ==
  /\ fPos < fileSize /\ "offset" \notin astray => off = fPos % ClusSize
  /\ ClusNo(fPos) <= Len(chain) /\ "cluster" \notin astray => Place(from) = ClusNo(fPos)
IInv == TypeOK /\ Follows

LEMMA ClusNoFacts ==
  ASSUME NEW p \in Nat PROVE ClusNo(p) \in Nat /\ ClusNo(p) >= 1 /\ OffsetIn(p) \in 0 .. ClusSize - 1
<1>1. p \div ClusSize \in Nat /\ p % ClusSize \in 0 .. ClusSize - 1
  BY DivMod
<1> QED BY <1>1 DEF ClusNo, OffsetIn

LEMMA InitInv == Init => IInv
<1> SUFFICES ASSUME Init PROVE IInv
  OBVIOUS
<1>1. 0 \in 0 .. ClusSize - 1 /\ 0 \in 0 .. MaxFaults /\ 0 % ClusSize = 0 /\ ClusNo(0) = 1
  <2>1. ClusSize \in Nat /\ ClusSize > 0 /\ MaxFaults \in Nat
    BY Constants
  <2>2. 0 = 0 * ClusSize + 0 /\ 0 \in 0 .. ClusSize - 1
    BY <2>1
  <2>3. 0 % ClusSize = 0 /\ 0 \div ClusSize = 0
    BY <2>2, DivUnique
  <2> QED BY <2>1, <2>2, <2>3 DEF ClusNo
<1>2. TypeOK
  BY <1>1 DEF Init, TypeOK
<1>3. Follows
  BY <1>1 DEF Init, Follows, Place
<1> QED BY <1>2, <1>3 DEF IInv

\* The chain and the size do not change, and with them the clusters and places.
LEMMA SameFile ==
  ASSUME file' = file
  PROVE  /\ chain' = chain /\ fileSize' = fileSize /\ Clusters' = Clusters
         /\ (\A c : Place(c)' = Place(c))
  BY DEF file, Clusters, Place

\* What a step has to show of the types.
LEMMA TypeStep ==
  ASSUME TypeOK, file' = file, fPos' \in Nat, from' \in {0} \cup Clusters,
         off' \in 0 .. ClusSize - 1,
         res' \in {"OK", "NOMORE", "FAILED", "EOF", "INSUFFICIENTRESOURCE", "UNKNOWN"},
         out' = <<>> \/ \A i \in DOMAIN out' : out'[i][1] \in Clusters,
         faults' = faults \/ Fault, astray' \subseteq {"offset", "cluster"}
  PROVE  TypeOK'
<1>1. chain' \in Chains /\ fileSize' \in FileSizes /\ Fits(chain, fileSize)'
  BY DEF TypeOK, file, Fits
<1>2. faults' \in 0 .. MaxFaults
  <2>1. faults \in 0 .. MaxFaults
    BY DEF TypeOK
  <2> QED BY <2>1, Constants DEF Fault
<1>3. Clusters' = Clusters
  BY SameFile
<1>4. from' \in {0} \cup Clusters'
  BY <1>3
<1>5. \A i \in DOMAIN out' : out'[i][1] \in Clusters'
  BY <1>3
<1> QED BY <1>1, <1>2, <1>4, <1>5 DEF TypeOK, Clusters

LEMMA StutterInv == IInv /\ UNCHANGED vars => IInv'
  BY DEF IInv, TypeOK, Follows, vars, file, cursor, Fits, Place, ClusNo

LEMMA ReopenStep == ASSUME IInv, Reopen PROVE IInv'
<1>1. /\ file' = file /\ fPos' = 0 /\ from' = 0 /\ off' = 0 /\ res' = "OK" /\ out' = <<>>
      /\ astray' = {} /\ faults' = faults
  BY DEF Reopen
<1>2. ClusSize \in Nat /\ ClusSize > 0
  BY Constants
<1>3. 0 = 0 * ClusSize + 0 /\ 0 \in 0 .. ClusSize - 1
  BY <1>2
<1>4. 0 % ClusSize = 0 /\ 0 \div ClusSize = 0
  BY <1>3, DivUnique
<1>5. TypeOK'
  BY <1>1, <1>3, TypeStep DEF IInv
<1>6. Follows'
  BY <1>1, <1>4 DEF Follows, Place, ClusNo
<1> QED BY <1>5, <1>6 DEF IInv

LEMMA IdleSteps ==
  ASSUME IInv, NEW n, AtEof \/ BufferTooSmall(n) PROVE IInv'
<1>1. /\ file' = file /\ fPos' = fPos /\ from' = from /\ off' = off /\ out' = <<>>
      /\ res' \in {"EOF", "INSUFFICIENTRESOURCE"} /\ astray' = astray /\ faults' = faults
  BY DEF AtEof, BufferTooSmall, cursor
<1>2. fPos' \in Nat /\ from' \in {0} \cup Clusters /\ off' \in 0 .. ClusSize - 1
      /\ astray' \subseteq {"offset", "cluster"}
  BY <1>1 DEF IInv, TypeOK, Clusters
<1>3. TypeOK'
  BY <1>1, <1>2, TypeStep DEF IInv
<1>4. Follows'
  BY <1>1 DEF IInv, Follows, file, Place, ClusNo
<1> QED BY <1>3, <1>4 DEF IInv

-----------------------------------------------------------------------------
(* A seek                                                                  *)

\* The place a seek goes to, from the place where it starts.
LEMMA SeekFacts ==
  ASSUME IInv, NEW p, p \in Nat, ClusNo(p) # ClusNo(fPos)
  PROVE  LET new == ClusNo(p)
             cur == ClusNo(fPos)
             back == new < cur
             k == WalkPlace(back)
             at == k + new - (IF back THEN 1 ELSE cur)
         IN /\ k \in Nat /\ k >= 1 /\ at \in Nat /\ at >= 1
            /\ back => at = new
            /\ "cluster" \notin astray /\ new <= Len(chain) => at = new
<1> DEFINE new == ClusNo(p)
           cur == ClusNo(fPos)
           back == new < cur
           k == WalkPlace(back)
           at == k + new - (IF back THEN 1 ELSE cur)
<1>1. new \in Nat /\ cur \in Nat /\ new >= 1 /\ cur >= 1
  BY ClusNoFacts DEF IInv, TypeOK
<1>2. Place(from) \in Nat /\ Place(from) >= 1
  BY PlaceFacts DEF IInv
<1>3. Len(chain) \in Nat
  BY ChainFacts DEF IInv, TypeOK
<1>4. new < cur => k = 1 /\ at = k + new - 1
  BY DEF WalkPlace
<1>5. ~(new < cur) =>
        /\ k = Place(from) /\ at = k + new - cur
        /\ "cluster" \notin astray /\ new <= Len(chain) => Place(from) = cur
  BY <1>1, <1>3 DEF WalkPlace, IInv, Follows
<1>6. new # cur
  OBVIOUS
<1>7. /\ k \in Nat /\ k >= 1 /\ at \in Nat /\ at >= 1
      /\ new < cur => at = new
      /\ "cluster" \notin astray /\ new <= Len(chain) => at = new
  <2> HIDE DEF new, cur, k, at
  <2> QED BY <1>1, <1>2, <1>3, <1>4, <1>5, <1>6
<1> QED BY <1>7

LEMMA SeekStep == ASSUME IInv, NEW p, p \in Nat, Seek(p) PROVE IInv'
<1> DEFINE new == ClusNo(p)
           cur == ClusNo(fPos)
           back == new < cur
           k == WalkPlace(back)
           at == k + new - (IF back THEN 1 ELSE cur)
           walkFrom == IF back THEN 0 ELSE from
           put == IF back THEN {"offset", "cluster"} ELSE {"offset"}
<1>1. /\ fPos' = p /\ off' = OffsetIn(p) /\ out' = <<>> /\ file' = file
      /\ \/ /\ new = cur /\ res' = "OK" /\ from' = from /\ faults' = faults
            /\ astray' = astray \ {"offset"}
         \/ /\ new # cur /\ at <= Len(chain) /\ faults' = faults
            /\ from' = chain[at] /\ res' = "OK" /\ astray' = astray \ put
         \/ /\ new # cur /\ at > Len(chain) /\ faults' = faults
            /\ from' = IF LastListStart(k, SeekListSize) = k THEN walkFrom
                       ELSE chain[LastListStart(k, SeekListSize)]
            /\ res' = "NOMORE" /\ astray' = astray \ put
         \/ /\ new # cur /\ Fault /\ res' = "FAILED"
            /\ \E i \in ListStarts(k, SeekListSize) : from' = IF i = k THEN walkFrom ELSE chain[i]
            /\ astray' = (astray \cup {"cluster"}) \ {"offset"}
  BY DEF Seek
<1>2. new \in Nat /\ off' \in 0 .. ClusSize - 1 /\ off' = p % ClusSize /\ (fPos' = p)
  BY <1>1, ClusNoFacts DEF OffsetIn
<1>3. /\ chain \in Seq(Nat \ {0, 1}) /\ Len(chain) \in Nat
      /\ (\A i \in 1 .. Len(chain) : chain[i] \in Clusters /\ Place(chain[i]) = i)
      /\ from \in {0} \cup Clusters /\ astray \subseteq {"offset", "cluster"}
  BY ChainFacts, PlaceFacts DEF IInv, TypeOK, Clusters
<1>4. new # cur => /\ k \in Nat /\ k >= 1 /\ at \in Nat /\ at >= 1
                   /\ back => at = new
                   /\ "cluster" \notin astray /\ new <= Len(chain) => at = new
  BY SeekFacts
<1>5. new # cur => \A i \in ListStarts(k, SeekListSize) : i = k \/ i \in 1 .. Len(chain)
  BY <1>3, <1>4, ListFacts
<1>6. new # cur => LastListStart(k, SeekListSize) \in ListStarts(k, SeekListSize)
  BY <1>3, <1>4, ListFacts
<1>7. ClusNo(fPos)' = new /\ chain' = chain /\ (\A c : Place(c)' = Place(c)) /\ ClusNo(p)' = new
  BY <1>1, SameFile DEF ClusNo
<1> HIDE DEF new, cur, k, at
<1>8. from' \in {0} \cup Clusters
  <2>1. CASE new = cur
    BY <1>1, <1>3, <2>1
  <2>2. CASE new # cur
    <3>1. walkFrom \in {0} \cup Clusters
      BY <1>3
    <3>2. at <= Len(chain) => chain[at] \in Clusters
      BY <1>3, <1>4, <2>2
    <3> QED BY <1>1, <1>3, <1>5, <1>6, <2>2, <3>1, <3>2
  <2> QED BY <2>1, <2>2
<1>9. TypeOK'
  <2>1. fPos' \in Nat /\ astray' \subseteq {"offset", "cluster"}
        /\ res' \in {"OK", "NOMORE", "FAILED"} /\ (faults' = faults \/ Fault)
    BY <1>1, <1>3
  <2> QED BY <1>1, <1>2, <1>8, <2>1, TypeStep DEF IInv
<1>10. Follows'
  <2>1. off' = fPos' % ClusSize
    BY <1>2
  <2>2. ASSUME new <= Len(chain), "cluster" \notin astray' PROVE Place(from)' = new
    <3>1. CASE new = cur
      <4>1. from' = from /\ "cluster" \notin astray
        BY <1>1, <2>2, <3>1
      <4>2. Place(from) = cur
        BY <2>2, <3>1, <4>1 DEF cur, IInv, Follows
      <4> QED BY <1>7, <3>1, <4>1, <4>2
    <3>2. CASE new # cur
      <4>1. back \/ "cluster" \notin astray
        BY <1>1, <2>2, <3>2
      <4>2. at = new
        BY <1>4, <2>2, <3>2, <4>1
      <4>3. from' = chain[at]
        BY <1>1, <1>2, <1>3, <2>2, <3>2, <4>2
      <4>4. at \in 1 .. Len(chain)
        BY <1>3, <1>4, <2>2, <3>2, <4>2
      <4> QED BY <1>3, <1>7, <4>2, <4>3, <4>4
    <3> QED BY <3>1, <3>2
  <2> QED BY <1>7, <2>1, <2>2 DEF Follows
<1> QED BY <1>9, <1>10 DEF IInv

-----------------------------------------------------------------------------
(* The reads                                                               *)

\* The clusters a read needs, by whether it ends inside a cluster.
LEMMA NeedFacts ==
  ASSUME TypeOK, NEW n, n \in Nat
  PROVE  /\ off + n \in Nat
         /\ (off + n) % ClusSize # 0 => Need(n) = (off + n) \div ClusSize + 1
         /\ (off + n) % ClusSize = 0 => Need(n) = (off + n) \div ClusSize
<1>1. ClusSize \in Nat /\ ClusSize > 0 /\ off \in Nat
  BY Constants DEF TypeOK
<1>2. PICK m \in Nat : m = off + n
  BY <1>1
<1>3. Need(n) = (m - 1 + ClusSize) \div ClusSize
  <2>1. n - 1 + off + ClusSize = m - 1 + ClusSize
    BY <1>1, <1>2
  <2> QED BY <1>1, <2>1 DEF Need
<1>4. /\ m % ClusSize # 0 => Need(n) = m \div ClusSize + 1
      /\ m % ClusSize = 0 => Need(n) = m \div ClusSize
  BY <1>3, CeilFacts
<1> QED BY <1>2, <1>4

\* What is delivered is in the clusters of the file.
LEMMA DeliveredFacts ==
  ASSUME TypeOK, NEW n, n \in Nat, fPos < fileSize, NEW m, m \in Nat, m <= Usable(n)
  PROVE  /\ DOMAIN Delivered(n, m) = 1 .. m
         /\ \A i \in 1 .. m :
              /\ Delivered(n, m)[i][1] \in Clusters
              /\ Delivered(n, m)[i]
                   = <<chain[Place(from) + (off + (i - 1)) \div ClusSize], (off + (i - 1)) % ClusSize>>
<1>1. DOMAIN Delivered(n, m) = 1 .. m
  BY DEF Delivered
<1>2. ASSUME NEW i \in 1 .. m
      PROVE  /\ Delivered(n, m)[i][1] \in Clusters
             /\ Delivered(n, m)[i]
                  = <<chain[Place(from) + (off + (i - 1)) \div ClusSize], (off + (i - 1)) % ClusSize>>
  <2>1. PICK x \in Nat : x = i - 1
    OBVIOUS
  <2>2. off \in Nat /\ ClusSize \in Nat /\ ClusSize > 0 /\ off + i - 1 = off + x
    BY <2>1, Constants DEF TypeOK
  <2>3. x < Usable(n)
    <3>1. Usable(n) \in Int
      BY ReadFacts
    <3> QED BY <2>1, <3>1
  <2>4. /\ Loaded(n)[(off + x) \div ClusSize + 1] = chain[Place(from) + (off + x) \div ClusSize]
        /\ Loaded(n)[(off + x) \div ClusSize + 1] \in Clusters
    BY <2>3, ByteFacts
  <2>5. Delivered(n, m)[i] = <<Loaded(n)[(off + x) \div ClusSize + 1], (off + x) % ClusSize>>
    BY <2>2 DEF Delivered
  <2> QED BY <2>1, <2>4, <2>5
<1> QED BY <1>1, <1>2

\* With the cursor in step, or at least no part of it left behind.
LEMMA InStep ==
  ASSUME IInv, fPos < fileSize, "offset" \notin astray, "cluster" \notin astray
  PROVE  off = fPos % ClusSize /\ Place(from) = ClusNo(fPos)
<1>1. ClusNo(fPos) <= Len(chain)
  BY ChainFacts DEF IInv, TypeOK
<1> QED BY <1>1 DEF IInv, Follows

LEMMA FreadFullStep == ASSUME IInv, NEW n, n \in Nat, FreadFull(n) PROVE IInv'
<1> DEFINE pos == fPos + n
           k == Place(from)
           len == Len(Loaded(n))
<1>1. /\ fPos < fileSize /\ Usable(n) >= n /\ file' = file /\ faults' = faults
      /\ out' = Delivered(n, n) /\ fPos' = pos /\ res' = "OK"
      /\ \/ /\ pos % ClusSize # 0 /\ from' = LastAgain(n) /\ off' = OffsetIn(pos)
            /\ astray' = (astray \cup Slipped) \ {"offset"}
         \/ /\ pos % ClusSize = 0 /\ from' = NextFrom(n) /\ off' = off
            /\ astray' = astray \cup Slipped \cup (IF off # 0 THEN {"offset"} ELSE {})
  BY DEF FreadFull, Wanted
<1>2. TypeOK /\ pos \in Nat /\ off \in 0 .. ClusSize - 1 /\ fPos \in Nat
      /\ astray \subseteq {"offset", "cluster"} /\ Slipped \subseteq {"cluster"}
      /\ from \in {0} \cup Clusters
  BY DEF IInv, TypeOK, Slipped, Clusters
<1>3. /\ k \in 1 .. Len(chain) /\ Need(n) \in Nat /\ len \in Nat /\ len = Need(n)
      /\ k + len <= Len(chain) + 1
      /\ \A j \in 1 .. len : Loaded(n)[j] = chain[k + j - 1]
      /\ NextFrom(n) \in {0} \cup Clusters
      /\ k + Need(n) <= Len(chain) => NextFrom(n) = chain[k + Need(n)]
  <2>1. n <= Usable(n)
    <3>1. Usable(n) \in Int
      BY <1>1, <1>2, ReadFacts
    <3> QED BY <1>1, <3>1
  <2> QED BY <1>1, <1>2, <2>1, ReadFacts
<1>4. /\ Len(chain) \in Nat
      /\ \A i \in 1 .. Len(chain) : chain[i] \in Clusters /\ Place(chain[i]) = i
  BY <1>2, ChainFacts, PlaceFacts DEF TypeOK, Clusters
<1>5. len > 0 => LastAgain(n) = chain[k + len - 1] /\ k + len - 1 \in 1 .. Len(chain)
  <2> SUFFICES ASSUME len > 0
               PROVE  LastAgain(n) = chain[k + len - 1] /\ k + len - 1 \in 1 .. Len(chain)
    OBVIOUS
  <2>1. Loaded(n) # <<>>
    OBVIOUS
  <2>2. LastAgain(n) = Loaded(n)[len]
    BY <2>1 DEF LastAgain
  <2>3. len \in 1 .. len /\ k + len - 1 \in 1 .. Len(chain)
    <3> HIDE DEF len, k
    <3> QED BY <1>3, <1>4
  <2>4. Loaded(n)[len] = chain[k + len - 1]
    <3>1. \A j \in 1 .. len : Loaded(n)[j] = chain[k + j - 1]
      BY <1>3
    <3> HIDE DEF len, k
    <3> QED BY <2>3, <3>1
  <2> QED BY <2>2, <2>3, <2>4
<1>6. LastAgain(n) \in {0} \cup Clusters
  <2>1. CASE len = 0
    <3>1. chain \in Seq(Nat \ {0, 1})
      BY <1>2, ChainFacts DEF TypeOK
    <3>2. Loaded(n) = <<>>
      BY <1>3, <1>4, <2>1, <3>1 DEF Loaded
    <3> QED BY <1>2, <3>2 DEF LastAgain
  <2>2. CASE len # 0
    BY <1>3, <1>4, <1>5, <2>2
  <2> QED BY <2>1, <2>2
<1>7. TypeOK'
  <2>1. \A i \in DOMAIN out' : out'[i][1] \in Clusters
    <3>1. n <= Usable(n)
      <4>1. Usable(n) \in Int
        BY <1>1, <1>2, ReadFacts
      <4> QED BY <1>1, <4>1
    <3> QED BY <1>1, <1>2, <3>1, DeliveredFacts
  <2>2. off' \in 0 .. ClusSize - 1
    BY <1>1, <1>2, ClusNoFacts
  <2>3. from' \in {0} \cup Clusters
    BY <1>1, <1>3, <1>6
  <2>4. fPos' \in Nat /\ astray' \subseteq {"offset", "cluster"}
        /\ res' \in {"OK", "NOMORE", "FAILED", "EOF", "INSUFFICIENTRESOURCE", "UNKNOWN"}
    BY <1>1, <1>2
  <2> QED BY <1>1, <1>2, <2>1, <2>2, <2>3, <2>4, TypeStep
<1>8. "offset" \notin astray' => off' = fPos' % ClusSize
  BY <1>1 DEF OffsetIn
<1>9. ASSUME ClusNo(pos) <= Len(chain), "cluster" \notin astray' PROVE Place(from') = ClusNo(pos)
  <2>1. "offset" \notin astray /\ "cluster" \notin astray
    BY <1>1, <1>9 DEF Slipped
  <2>2. off = fPos % ClusSize /\ k = ClusNo(fPos)
    BY <1>1, <2>1, InStep
  <2>3. ClusNo(pos) = k + (off + n) \div ClusSize /\ pos % ClusSize = (off + n) % ClusSize
    BY <1>2, <2>2, StepFacts
  <2>4. /\ (off + n) % ClusSize # 0 => Need(n) = (off + n) \div ClusSize + 1
        /\ (off + n) % ClusSize = 0 => Need(n) = (off + n) \div ClusSize
        /\ (off + n) \div ClusSize \in Nat
    BY <1>2, NeedFacts, DivMod
  <2> DEFINE q == (off + n) \div ClusSize
  <2>5. CASE pos % ClusSize # 0
    <3>1. len = q + 1 /\ q \in Nat /\ from' = LastAgain(n)
      BY <1>1, <1>3, <2>3, <2>4, <2>5
    <3> HIDE DEF q, len, k, pos
    <3>2. from' = chain[k + len - 1] /\ k + len - 1 = k + q /\ k + q \in 1 .. Len(chain)
      BY <1>3, <1>4, <1>5, <3>1
    <3> QED BY <1>4, <2>3, <3>2 DEF q
  <2>6. CASE pos % ClusSize = 0
    <3>1. Need(n) = q /\ q \in Nat /\ from' = NextFrom(n)
      BY <1>1, <2>3, <2>4, <2>6
    <3>2. ClusNo(pos) = k + q
      BY <2>3
    <3> HIDE DEF q, len, k, pos
    <3>3. from' = chain[k + q] /\ k + q \in 1 .. Len(chain)
      BY <1>3, <1>4, <1>9, <3>1, <3>2
    <3> QED BY <1>4, <3>2, <3>3
  <2> QED BY <2>5, <2>6
<1>10. Follows'
  <2>1. /\ chain' = chain /\ \A c : Place(c)' = Place(c)
    BY <1>1, SameFile
  <2>2. ClusNo(fPos)' = ClusNo(pos)
    BY <1>1 DEF ClusNo
  <2>3. Place(from)' = Place(from')
    BY <2>1 DEF Place
  <2> HIDE DEF pos
  <2> QED BY <1>8, <1>9, <2>1, <2>2, <2>3 DEF Follows
<1> QED BY <1>7, <1>10 DEF IInv

LEMMA FreadRestStep == ASSUME IInv, NEW n, n \in Nat, FreadRest(n) PROVE IInv'
<1>1. /\ fPos < fileSize /\ fPos + Usable(n) >= fileSize /\ file' = file /\ faults' = faults
      /\ out' = Delivered(n, fileSize - fPos) /\ fPos' = fileSize /\ res' = "OK"
      /\ from' = NextFrom(n) /\ off' = off
      /\ astray' = IF fileSize % ClusSize # 0 THEN astray \cup {"cluster"} ELSE astray
  BY DEF FreadRest, Wanted
<1>2. /\ TypeOK /\ off \in 0 .. ClusSize - 1 /\ fPos \in Nat /\ fileSize \in Nat
      /\ astray \subseteq {"offset", "cluster"} /\ Len(chain) \in Nat
      /\ fileSize % ClusSize = 0 => ClusNo(fileSize) = Len(chain) + 1
  BY ChainFacts DEF IInv, TypeOK
<1>3. NextFrom(n) \in {0} \cup Clusters /\ Usable(n) \in Int
  BY <1>1, <1>2, ReadFacts
<1>4. \A i \in DOMAIN out' : out'[i][1] \in Clusters
  <2>1. PICK m \in Nat : m = fileSize - fPos
    BY <1>1, <1>2
  <2>2. m <= Usable(n)
    BY <1>1, <1>2, <1>3, <2>1
  <2> QED BY <1>1, <1>2, <2>1, <2>2, DeliveredFacts
<1>5. TypeOK'
  <2>1. fPos' \in Nat /\ astray' \subseteq {"offset", "cluster"} /\ from' \in {0} \cup Clusters
        /\ off' \in 0 .. ClusSize - 1
    BY <1>1, <1>2, <1>3
  <2> QED BY <1>1, <1>2, <1>4, <2>1, TypeStep
<1>6. Follows'
  <2>1. chain' = chain /\ fileSize' = fileSize /\ ClusNo(fPos)' = ClusNo(fileSize)
    BY <1>1 DEF file, ClusNo
  <2>2. "cluster" \notin astray' => ~(ClusNo(fileSize) <= Len(chain))
    BY <1>1, <1>2
  <2>3. ~(fPos' < fileSize')
    BY <1>1, <1>2, <2>1
  <2> QED BY <2>1, <2>2, <2>3 DEF Follows
<1> QED BY <1>5, <1>6 DEF IInv

LEMMA FreadBadSteps ==
  ASSUME IInv, NEW n, n \in Nat, FreadUnknown(n) \/ FreadFails(n) PROVE IInv'
<1>1. /\ fPos < fileSize /\ file' = file /\ (faults' = faults \/ Fault) /\ out' = <<>>
      /\ res' \in {"UNKNOWN", "FAILED"} /\ fPos' = fPos /\ off' = off
      /\ astray' = astray \cup {"cluster"}
      /\ \/ from' = NextFrom(n)
         \/ \E i \in ListStarts(Place(from), ListSize) : from' = FromAt(Place(from), i)
  BY DEF FreadUnknown, FreadFails, Wanted
<1>2. /\ TypeOK /\ off \in 0 .. ClusSize - 1 /\ fPos \in Nat /\ from \in {0} \cup Clusters
      /\ astray \subseteq {"offset", "cluster"}
      /\ chain \in Seq(Nat \ {0, 1}) /\ (\A i \in 1 .. Len(chain) : chain[i] \in Clusters)
  BY ChainFacts DEF IInv, TypeOK, Clusters
<1>3. from' \in {0} \cup Clusters
  <2>1. NextFrom(n) \in {0} \cup Clusters
    BY <1>1, <1>2, ReadFacts
  <2>2. \A i \in ListStarts(Place(from), ListSize) : i = Place(from) \/ i \in 1 .. Len(chain)
    <3>1. Place(from) \in Nat
      BY <1>2, PlaceFacts
    <3> QED BY <1>2, <3>1, ListFacts
  <2> QED BY <1>1, <1>2, <2>1, <2>2 DEF FromAt
<1>4. TypeOK'
  <2>1. fPos' \in Nat /\ astray' \subseteq {"offset", "cluster"} /\ off' \in 0 .. ClusSize - 1
    BY <1>1, <1>2
  <2> QED BY <1>1, <1>2, <1>3, <2>1, TypeStep
<1>5. Follows'
  <2>1. fileSize' = fileSize
    BY <1>1 DEF file
  <2> QED BY <1>1, <2>1 DEF IInv, Follows
<1> QED BY <1>4, <1>5 DEF IInv

LEMMA StepInv == IInv /\ [Next]_vars => IInv'
<1> SUFFICES ASSUME IInv, [Next]_vars PROVE IInv'
  OBVIOUS
<1>1. fileSize \in Nat /\ ClusSize \in Nat /\ MaxRead \in Nat
  BY Constants DEF IInv, TypeOK
<1>2. CASE Reopen
  BY <1>2, ReopenStep
<1>3. CASE \E p \in 0 .. (fileSize + ClusSize) : Seek(p)
  <2>1. PICK p \in 0 .. (fileSize + ClusSize) : Seek(p)
    BY <1>3
  <2>2. p \in Nat
    BY <1>1, <2>1
  <2> QED BY <2>1, <2>2, SeekStep
<1>4. CASE AtEof
  BY <1>4, IdleSteps
<1>5. ASSUME NEW n \in 0 .. MaxRead,
             BufferTooSmall(n) \/ FreadFull(n) \/ FreadRest(n) \/ FreadUnknown(n) \/ FreadFails(n)
      PROVE  IInv'
  <2>1. n \in Nat
    BY <1>1
  <2> QED BY <1>5, <2>1, IdleSteps, FreadFullStep, FreadRestStep, FreadBadSteps
<1>6. CASE UNCHANGED vars
  BY <1>6, StutterInv
<1> QED BY <1>2, <1>3, <1>4, <1>5, <1>6 DEF Next

(* The cursor, the position and what a call reports keep their types through   *)
(* every sequence of seeks and reads (fatuc_fseek, fatuc_fread).                      *)
THEOREM ReadTypeCorrect == Spec => []TypeOK
<1>1. IInv => TypeOK
  BY DEF IInv
<1> QED BY <1>1, InitInv, StepInv, PTL DEF Spec

(* fromClus and offInFromClus are the cluster and the offset of fPos, however  *)
(* the file has been read and sought in, unless one of the events named by     *)
(* astray has left them behind (fatuc__fposChangedUpdate, fatuc_fread).        *)
THEOREM CursorAlwaysFollows == Spec => []CursorFollows
<1>1. ASSUME IInv PROVE CursorFollows
  <2> SUFFICES ASSUME fPos < fileSize PROVE CursorFollows
    BY DEF CursorFollows
  <2>1. ClusNo(fPos) <= Len(chain)
    BY <1>1, ChainFacts DEF IInv, TypeOK
  <2> QED BY <1>1, <2>1 DEF IInv, Follows, CursorFollows
<1> QED BY <1>1, InitInv, StepInv, PTL DEF Spec

-----------------------------------------------------------------------------
(* What a read delivers                                                    *)

LEMMA DeliveredIsFile ==
  ASSUME IInv, astray = {}, NEW n, n \in Nat, fPos < fileSize,
         NEW m, m \in Nat, m <= Usable(n)
  PROVE  /\ Len(Delivered(n, m)) = m
         /\ \A i \in DOMAIN Delivered(n, m) : Delivered(n, m)[i] = FileByte(fPos + i - 1)
<1>1. TypeOK /\ fPos \in Nat /\ off = fPos % ClusSize /\ Place(from) = ClusNo(fPos)
  BY InStep DEF IInv, TypeOK
<1>2. Len(Delivered(n, m)) = m /\ DOMAIN Delivered(n, m) = 1 .. m
  BY DEF Delivered
<1>3. ASSUME NEW i \in 1 .. m PROVE Delivered(n, m)[i] = FileByte(fPos + i - 1)
  <2>1. PICK x \in Nat : x = i - 1
    OBVIOUS
  <2>2. fPos + i - 1 = fPos + x
    BY <1>1, <2>1
  <2>3. Delivered(n, m)[i]
          = <<chain[Place(from) + (off + (i - 1)) \div ClusSize], (off + (i - 1)) % ClusSize>>
    BY <1>1, DeliveredFacts
  <2>4. /\ ClusNo(fPos + x) = Place(from) + (off + x) \div ClusSize
        /\ (fPos + x) % ClusSize = (off + x) % ClusSize
    BY <1>1, StepFacts
  <2>5. Delivered(n, m)[i] = <<chain[ClusNo(fPos + x)], (fPos + x) % ClusSize>>
    BY <2>1, <2>3, <2>4
  <2> QED BY <2>2, <2>5 DEF FileByte
<1> QED BY <1>2, <1>3

(* A read delivers the bytes of the file from its position on, in their order, *)
(* and moves the position by as many: whether it starts or ends inside a       *)
(* cluster, at the end of one or at the end of the chain (fatfs.c:2126-2165).  *)
THEOREM ReadAlwaysIsFile == Spec => ReadIsFile
<1>1. ASSUME IInv, NEW n \in 0 .. MaxRead, astray = {}, FreadFull(n) \/ FreadRest(n)
      PROVE  /\ fPos' = fPos + Len(out')
             /\ \A i \in DOMAIN out' : fPos + i <= fileSize => out'[i] = FileByte(fPos + i - 1)
  <2>1. n \in Nat /\ fPos \in Nat /\ fileSize \in Nat
    BY <1>1, Constants DEF IInv, TypeOK
  <2>2. fPos < fileSize
    BY <1>1 DEF FreadFull, FreadRest, Wanted
  <2>3. Usable(n) \in Int
    BY <1>1, <2>1, <2>2, ReadFacts DEF IInv
  <2>4. CASE FreadFull(n)
    <3>1. out' = Delivered(n, n) /\ fPos' = fPos + n /\ n <= Usable(n)
      BY <2>1, <2>3, <2>4 DEF FreadFull
    <3> QED BY <1>1, <2>1, <2>2, <3>1, DeliveredIsFile
  <2>5. CASE FreadRest(n)
    <3>1. PICK m \in Nat : m = fileSize - fPos
      BY <2>1, <2>2
    <3>2. out' = Delivered(n, m) /\ fPos' = fPos + m /\ m <= Usable(n)
      BY <2>1, <2>3, <2>5, <3>1 DEF FreadRest
    <3> QED BY <1>1, <2>1, <2>2, <3>2, DeliveredIsFile
  <2> QED BY <1>1, <2>4, <2>5
<1>2. IInv => [\A n \in 0 .. MaxRead :
                 astray = {} /\ (FreadFull(n) \/ FreadRest(n)) =>
                   /\ fPos' = fPos + Len(out')
                   /\ \A i \in DOMAIN out' :
                        fPos + i <= fileSize => out'[i] = FileByte(fPos + i - 1)]_vars
  BY <1>1
<1> QED BY <1>2, InitInv, StepInv, PTL DEF Spec, ReadIsFile

(* A seek to a byte of the file finds its cluster, forwards and backwards and  *)
(* from the padding behind the end of the file as well, unless the cluster of  *)
(* the cursor has been left behind (fatuc__fposChangedUpdate).                 *)
THEOREM SeekAlwaysFinds == Spec => SeekFinds
<1>1. ASSUME IInv, NEW p \in 0 .. (fileSize - 1), Seek(p), "cluster" \notin astray
      PROVE  res' \in {"OK", "FAILED"}
  <2>1. fileSize \in Nat
    BY <1>1, Constants DEF IInv, TypeOK
  <2>2. p \in Nat /\ p < fileSize
    BY <2>1
  <2>3. ClusNo(p) <= Len(chain) /\ Len(chain) \in Nat
    BY <1>1, <2>2, ChainFacts DEF IInv, TypeOK
  <2>4. ClusNo(p) \in Nat
    BY <2>2, ClusNoFacts
  <2>5. CASE ClusNo(p) = ClusNo(fPos)
    BY <1>1, <2>5 DEF Seek
  <2>6. CASE ClusNo(p) # ClusNo(fPos)
    <3> DEFINE back == ClusNo(p) < ClusNo(fPos)
               at == WalkPlace(back) + ClusNo(p) - (IF back THEN 1 ELSE ClusNo(fPos))
    <3>1. at = ClusNo(p)
      BY <1>1, <2>2, <2>3, <2>6, SeekFacts
    <3>2. ~(at > Len(chain))
      BY <2>3, <2>4, <3>1
    <3> QED BY <1>1, <2>6, <3>2 DEF Seek
  <2> QED BY <2>5, <2>6
<1>2. IInv => [\A p \in 0 .. (fileSize - 1) :
                 Seek(p) /\ "cluster" \notin astray => res' \in {"OK", "FAILED"}]_vars
  BY <1>1
<1> QED BY <1>2, InitInv, StepInv, PTL DEF Spec, SeekFinds

LEMMA NeverTooFew ==
  ASSUME IInv, astray = {}, NEW n, n \in Nat PROVE ~FreadUnknown(n)
<1> SUFFICES ASSUME FreadUnknown(n) PROVE FALSE
  OBVIOUS
<1>1. fPos < fileSize /\ Usable(n) < n /\ fPos + Usable(n) < fileSize
  BY DEF FreadUnknown, Wanted
<1>2. TypeOK /\ fPos \in Nat /\ off = fPos % ClusSize /\ Place(from) = ClusNo(fPos)
  BY <1>1, InStep DEF IInv, TypeOK
<1> DEFINE len == Len(Loaded(n))
           b == fPos \div ClusSize
<1>3. /\ len \in Nat /\ Usable(n) = len * ClusSize - off /\ Usable(n) \in Int
      /\ len = Need(n) \/ Place(from) + len = Len(chain) + 1
      /\ n <= Usable(n) <=> len = Need(n)
  BY <1>1, <1>2, ReadFacts
<1>4. Place(from) + len = Len(chain) + 1
  BY <1>1, <1>3
<1>5. b \in Nat /\ fPos = b * ClusSize + off /\ off \in Nat
  BY <1>2, DivMod DEF TypeOK
<1>6. fileSize <= Len(chain) * ClusSize /\ Len(chain) \in Nat /\ fileSize \in Nat
  BY <1>2, ChainFacts DEF TypeOK
<1>7. ClusSize \in Nat
  BY Constants
<1>8. Place(from) = b + 1
  BY <1>2 DEF ClusNo
<1> HIDE DEF len, b
<1>9. b + len = Len(chain)
  BY <1>3, <1>4, <1>5, <1>6, <1>8
<1>10. b * ClusSize + len * ClusSize = Len(chain) * ClusSize
       /\ b * ClusSize \in Nat /\ len * ClusSize \in Nat /\ Len(chain) * ClusSize \in Nat
  <2>1. b * ClusSize + len * ClusSize = (b + len) * ClusSize
    BY <1>3, <1>5, <1>7
  <2> QED BY <1>3, <1>5, <1>6, <1>7, <1>9, <2>1
<1>11. fPos + Usable(n) = Len(chain) * ClusSize
  BY <1>3, <1>5, <1>10
<1> QED BY <1>1, <1>6, <1>10, <1>11

(* As long as its cursor is in step no read finds fewer clusters than the size *)
(* of the file promises: the error that "CANT OCCUR" (fatfs.c:2157) needs an   *)
(* event that has left the cursor behind.                                      *)
THEOREM EnoughAlwaysRead == Spec => EnoughIsRead
<1>1. ASSUME IInv, Next, astray = {} PROVE res' # "UNKNOWN"
  <2>1. CASE Reopen
    BY <2>1 DEF Reopen
  <2>2. ASSUME NEW p, Seek(p) PROVE res' # "UNKNOWN"
    BY <2>2 DEF Seek
  <2>3. CASE AtEof
    BY <2>3 DEF AtEof
  <2>4. ASSUME NEW n \in 0 .. MaxRead,
               BufferTooSmall(n) \/ FreadFull(n) \/ FreadRest(n) \/ FreadUnknown(n) \/ FreadFails(n)
        PROVE  res' # "UNKNOWN"
    <3>1. n \in Nat
      BY Constants
    <3>2. ~FreadUnknown(n)
      BY <1>1, <3>1, NeverTooFew
    <3> QED BY <2>4, <3>2 DEF BufferTooSmall, FreadFull, FreadRest, FreadFails
  <2> QED BY <1>1, <2>1, <2>2, <2>3, <2>4 DEF Next
<1>2. IInv /\ [Next]_vars => [astray = {} => res' # "UNKNOWN"]_vars
  BY <1>1
<1> QED BY <1>2, InitInv, StepInv, PTL DEF Spec, EnoughIsRead
=============================================================================
