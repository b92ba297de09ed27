-------------------------- MODULE StoredChainProofs --------------------------
(* Proofs about the stored chain and the block that info_block names, for  *)
(* any chains of other nodes, transactions, failures and crashes; and      *)
(* about the types of all variables.                                       *)
EXTENDS BlockStoreProofs, NumberFacts

-----------------------------------------------------------------------------
(* Blocks.                                                                 *)

IsBlock(b) == b \in Seq(Payloads) /\ Len(b) \in Ids

(* The ancestors of a block above the id n, upwards, and downwards to m.   *)
Upwards(b, n) == [i \in 1 .. Len(b) - n |-> Upto(b, n + i)]
Downwards(b, m, n) == [i \in 1 .. n - m |-> Upto(b, n - i + 1)]

LEMMA BlockFacts ==
    ASSUME NEW b, IsBlock(b)
    PROVE  /\ Len(b) \in Nat /\ Len(b) >= 1 /\ Len(b) <= MaxId /\ b # NoBlock
           /\ \A i \in 1 .. Len(b) : b[i] \in Payloads
<1>1. Len(b) \in Nat /\ Len(b) >= 1 /\ Len(b) <= MaxId
  BY BoundsAssumption DEF IsBlock, Ids
<1>2. \A i \in 1 .. Len(b) : b[i] \in Payloads
  BY ElementOfSeq DEF IsBlock
<1>3. b # <<>>
  BY <1>1
<1> QED
  BY <1>1, <1>2, <1>3 DEF NoBlock

LEMMA UptoFacts ==
    ASSUME NEW b \in Seq(Payloads), NEW n \in 0 .. Len(b)
    PROVE  /\ Upto(b, n) \in Seq(Payloads) /\ Len(Upto(b, n)) = n
           /\ \A i \in 1 .. n : Upto(b, n)[i] = b[i]
           /\ n \in Nat /\ (Upto(b, n) = NoBlock <=> n = 0)
           /\ n \in Ids => IsBlock(Upto(b, n))
<1>1. Len(b) \in Nat /\ n \in Nat /\ n <= Len(b) /\ 1 \in Int /\ n \in Int
  BY LenProperties
<1>2. \A i \in 1 .. n : b[i] \in Payloads
  BY <1>1, ElementOfSeq
<1>3. /\ Upto(b, n) \in Seq(Payloads) /\ Len(Upto(b, n)) = n
      /\ \A i \in 1 .. n : Upto(b, n)[i] = b[i]
  BY <1>1, <1>2, SubSeqProperties DEF Upto
<1>4. Upto(b, n) = <<>> <=> n = 0
  BY <1>1, <1>3, EmptySeq
<1> QED
  BY <1>1, <1>3, <1>4 DEF IsBlock, NoBlock

LEMMA UptoUpto ==
    ASSUME NEW b \in Seq(Payloads), NEW n \in 0 .. Len(b), NEW m \in 0 .. n
    PROVE  Upto(Upto(b, n), m) = Upto(b, m)
<1> DEFINE x == Upto(Upto(b, n), m)
           y == Upto(b, m)
<1>1. Len(b) \in Nat /\ m \in 0 .. Len(b) /\ m \in Nat
  BY LenProperties
<1>2. Upto(b, n) \in Seq(Payloads) /\ Len(Upto(b, n)) = n /\ \A i \in 1 .. n : Upto(b, n)[i] = b[i]
  BY UptoFacts
<1>3. x \in Seq(Payloads) /\ Len(x) = m /\ \A i \in 1 .. m : x[i] = Upto(b, n)[i]
  BY <1>2, UptoFacts
<1>4. y \in Seq(Payloads) /\ Len(y) = m /\ \A i \in 1 .. m : y[i] = b[i]
  BY <1>1, UptoFacts
<1>5. \A i \in 1 .. m : x[i] = y[i]
  BY <1>2, <1>3, <1>4
<1> HIDE DEF x, y
<1>6. x = y
  BY <1>3, <1>4, <1>5, SeqEqual
<1> QED
  BY <1>6 DEF x, y

LEMMA UptoAll ==
    ASSUME NEW b \in Seq(Payloads)
    PROVE  Upto(b, Len(b)) = b
<1>1. Len(b) \in Nat /\ Len(b) \in 0 .. Len(b)
  BY LenProperties
<1>2. /\ Upto(b, Len(b)) \in Seq(Payloads) /\ Len(Upto(b, Len(b))) = Len(b)
      /\ \A i \in 1 .. Len(b) : Upto(b, Len(b))[i] = b[i]
  BY <1>1, UptoFacts
<1> QED
  BY <1>2, SeqEqual

LEMMA FrontIsUpto == \A b : Front(b) = Upto(b, Len(b) - 1)
BY DEF Front, Upto

(* A function on the numbers up to n as a sequence.                        *)
LEMMA FunFacts ==
    ASSUME NEW S, NEW n \in Nat, NEW s \in [1 .. n -> S]
    PROVE  /\ s \in Seq(S) /\ Len(s) = n /\ (s = <<>> <=> n = 0)
           /\ n > 0 => Head(s) = s[1]
           /\ n > 0 => Tail(s) \in Seq(S) /\ Len(Tail(s)) = n - 1
           /\ n > 0 => \A i \in 1 .. n - 1 : Tail(s)[i] = s[i + 1]
<1>1. s \in Seq(S)
  BY SeqDef
<1>2. Len(s) = n
  BY <1>1, LenProperties
<1>3. s = <<>> <=> n = 0
  BY <1>1, <1>2, EmptySeq
<1>4. n > 0 => Head(s) = s[1]
  BY <1>1, <1>3, HeadTailProperties
<1>5. n > 0 => /\ Tail(s) \in Seq(S) /\ Len(Tail(s)) = n - 1
               /\ \A i \in 1 .. n - 1 : Tail(s)[i] = s[i + 1]
  BY <1>1, <1>2, <1>3, HeadTailProperties
<1> QED
  BY <1>1, <1>2, <1>3, <1>4, <1>5

LEMMA UpwardsFacts ==
    ASSUME NEW b \in Seq(Payloads), NEW n \in 0 .. Len(b)
    PROVE  /\ Upwards(b, n) = <<>> <=> n = Len(b)
           /\ n < Len(b) => /\ Head(Upwards(b, n)) = Upto(b, n + 1)
                            /\ Tail(Upwards(b, n)) = Upwards(b, n + 1)
<1> DEFINE s == Upwards(b, n)
           r == Upwards(b, n + 1)
           k == Len(b) - n
<1>1. Len(b) \in Nat /\ k \in Nat /\ n \in Nat
  BY LenProperties
<1>2. \A i \in 1 .. k : n + i \in 0 .. Len(b) /\ Upto(b, n + i) \in Seq(Payloads)
  BY <1>1, UptoFacts
<1>3. s \in [1 .. k -> Seq(Payloads)] /\ \A i \in 1 .. k : s[i] = Upto(b, n + i)
  BY <1>2 DEF Upwards
<1>4. ASSUME n < Len(b) PROVE Head(s) = Upto(b, n + 1) /\ Tail(s) = r
  <2>1. k - 1 \in Nat /\ k > 0 /\ Len(b) - (n + 1) = k - 1 /\ 1 \in 1 .. k
    BY <1>1, <1>4
  <2>2. \A i \in 1 .. k - 1 : i + 1 \in 1 .. k /\ n + (i + 1) = (n + 1) + i
    BY <1>1
  <2>3. r \in [1 .. k - 1 -> Seq(Payloads)] /\ \A i \in 1 .. k - 1 : r[i] = Upto(b, (n + 1) + i)
    BY <1>2, <2>1, <2>2 DEF Upwards
  <2> HIDE DEF s, r, k
  <2>5. /\ Head(s) = s[1] /\ Tail(s) \in Seq(Seq(Payloads)) /\ Len(Tail(s)) = k - 1
        /\ \A i \in 1 .. k - 1 : Tail(s)[i] = s[i + 1]
    BY <1>1, <1>3, <2>1, FunFacts
  <2>6. r \in Seq(Seq(Payloads)) /\ Len(r) = k - 1
    <3>1. \A q \in Nat : \A f \in [1 .. q -> Seq(Payloads)] : f \in Seq(Seq(Payloads)) /\ Len(f) = q
      BY FunFacts
    <3> QED
      BY <2>1, <2>3, <3>1
  <2>7. \A i \in 1 .. k - 1 : Tail(s)[i] = r[i]
    BY <1>3, <2>2, <2>3, <2>5
  <2>8. Tail(s) = r
    BY <2>5, <2>6, <2>7, SeqEqual
  <2> QED
    BY <1>3, <2>1, <2>5, <2>8
<1>5. s = <<>> <=> k = 0
  <2> HIDE DEF s, k
  <2> QED
    BY <1>1, <1>3, FunFacts
<1> QED
  BY <1>1, <1>4, <1>5

LEMMA DownwardsFacts ==
    ASSUME NEW b \in Seq(Payloads), NEW n \in 0 .. Len(b), NEW m \in 0 .. n
    PROVE  /\ Downwards(b, m, n) = <<>> <=> n = m
           /\ m < n => /\ Head(Downwards(b, m, n)) = Upto(b, n)
                       /\ Tail(Downwards(b, m, n)) = Downwards(b, m, n - 1)
<1> DEFINE s == Downwards(b, m, n)
           r == Downwards(b, m, n - 1)
           k == n - m
<1>1. Len(b) \in Nat /\ k \in Nat /\ n \in Nat /\ m \in Nat
  BY LenProperties
<1>2. \A i \in 1 .. k : n - i + 1 \in 0 .. Len(b) /\ Upto(b, n - i + 1) \in Seq(Payloads)
  BY <1>1, UptoFacts
<1>3. s \in [1 .. k -> Seq(Payloads)] /\ \A i \in 1 .. k : s[i] = Upto(b, n - i + 1)
  BY <1>2 DEF Downwards
<1>4. ASSUME m < n PROVE Head(s) = Upto(b, n) /\ Tail(s) = r
  <2>1. k - 1 \in Nat /\ k > 0 /\ (n - 1) - m = k - 1 /\ 1 \in 1 .. k /\ n - 1 + 1 = n
    BY <1>1, <1>4
  <2>2. \A i \in 1 .. k - 1 : i + 1 \in 1 .. k /\ n - (i + 1) + 1 = (n - 1) - i + 1
    BY <1>1
  <2>3. r \in [1 .. k - 1 -> Seq(Payloads)] /\ \A i \in 1 .. k - 1 : r[i] = Upto(b, (n - 1) - i + 1)
    BY <1>2, <2>1, <2>2 DEF Downwards
  <2> HIDE DEF s, r, k
  <2>5. /\ Head(s) = s[1] /\ Tail(s) \in Seq(Seq(Payloads)) /\ Len(Tail(s)) = k - 1
        /\ \A i \in 1 .. k - 1 : Tail(s)[i] = s[i + 1]
    BY <1>1, <1>3, <2>1, FunFacts
  <2>6. r \in Seq(Seq(Payloads)) /\ Len(r) = k - 1
    <3>1. \A q \in Nat : \A f \in [1 .. q -> Seq(Payloads)] : f \in Seq(Seq(Payloads)) /\ Len(f) = q
      BY FunFacts
    <3> QED
      BY <2>1, <2>3, <3>1
  <2>7. \A i \in 1 .. k - 1 : Tail(s)[i] = r[i]
    BY <1>3, <2>2, <2>3, <2>5
  <2>8. Tail(s) = r
    BY <2>5, <2>6, <2>7, SeqEqual
  <2> QED
    BY <1>3, <2>1, <2>5, <2>8
<1>5. s = <<>> <=> k = 0
  <2> HIDE DEF s, k
  <2> QED
    BY <1>1, <1>3, FunFacts
<1> QED
  BY <1>1, <1>4, <1>5
-----------------------------------------------------------------------------
(* What block_chain holds.                                                 *)

(* The table that holds a block and its ancestors, and nothing else.       *)
Image(b) == [id \in Ids |-> IF id <= Len(b) THEN Upto(b, id) ELSE NoBlock]

Stored(b) == IsBlock(b) /\ rows = Image(b)

LEMMA StoredFacts ==
    ASSUME NEW b, Stored(b)
    PROVE  /\ \A id \in Ids : id <= Len(b) => rows[id] = Upto(b, id)
           /\ \A id \in Ids : rows[id] # NoBlock <=> id <= Len(b)
           /\ rows[Len(b)] = b
<1>1. IsBlock(b) /\ Len(b) \in Nat /\ Len(b) \in Ids
  BY BlockFacts DEF Stored, IsBlock
<1>2. ASSUME NEW id \in Ids, id <= Len(b) PROVE rows[id] = Upto(b, id) /\ rows[id] # NoBlock
  <2>1. id \in 0 .. Len(b) /\ id # 0
    BY <1>1, <1>2 DEF Ids
  <2>2. Upto(b, id) # NoBlock
    BY <1>1, <2>1, UptoFacts DEF IsBlock
  <2> QED
    BY <1>2, <2>2 DEF Stored, Image
<1>3. ASSUME NEW id \in Ids, ~ (id <= Len(b)) PROVE rows[id] = NoBlock
  BY <1>3 DEF Stored, Image
<1>4. rows[Len(b)] = b
  BY <1>1, <1>2, UptoAll DEF IsBlock
<1> QED
  BY <1>2, <1>3, <1>4

LEMMA Highest ==
    ASSUME NEW b, Stored(b)
    PROVE  rows[Max({id \in Ids : rows[id] # NoBlock})] = b
<1> DEFINE T == {id \in Ids : rows[id] # NoBlock}
<1>1. Len(b) \in Nat /\ Len(b) \in Ids
  BY BlockFacts DEF Stored, IsBlock
<1>2. T \in SUBSET (0 .. Len(b)) /\ Len(b) \in T
  BY <1>1, StoredFacts DEF Ids
<1>3. Max(T) \in T /\ Max(T) >= Len(b)
  <2> HIDE DEF T
  <2> QED
    BY <1>1, <1>2, Greatest
<1>4. Max(T) = Len(b)
  BY <1>1, <1>2, <1>3
<1> QED
  BY <1>4, StoredFacts

LEMMA NthInterval ==
    ASSUME NEW m \in Nat, NEW n \in Nat, NEW k \in 1 .. n - m
    PROVE  Nth((m + 1) .. n, k) = m + k
<1> DEFINE T == (m + 1) .. n
<1>1. \A i \in T : Cardinality({j \in T : j <= i}) = i - m
  <2> SUFFICES ASSUME NEW i \in T PROVE Cardinality({j \in T : j <= i}) = i - m
    OBVIOUS
  <2>1. {j \in T : j <= i} = (m + 1) .. i
    OBVIOUS
  <2>2. Cardinality((m + 1) .. i) = i - m
    BY FS_Interval
  <2> QED
    BY <2>1, <2>2
<1>2. m + k \in T /\ (m + k) - m = k
  OBVIOUS
<1>3. \A i \in T : i - m = k => i = m + k
  OBVIOUS
<1> HIDE DEF T
<1>4. \A i \in T : Cardinality({j \in T : j <= i}) = k <=> i = m + k
  BY <1>1, <1>2, <1>3
<1>5. Nth(T, k) = m + k
  BY <1>2, <1>4 DEF Nth
<1> QED
  BY <1>5 DEF T

LEMMA AboveStored ==
    ASSUME NEW b, Stored(b), NEW m \in 1 .. Len(b)
    PROVE  /\ StoredAbove(m) = Upwards(b, m)
           /\ Reverse(StoredAbove(m)) = Downwards(b, m, Len(b))
<1> DEFINE T == {k \in Ids : k > m /\ rows[k] # NoBlock}
           k == Len(b) - m
           s == StoredAbove(m)
<1>1. Len(b) \in Nat /\ Len(b) \in Ids /\ m \in Nat /\ k \in Nat /\ MaxId \in Nat /\ Len(b) <= MaxId
  BY BlockFacts, BoundsAssumption DEF Stored, IsBlock, Ids
<1>2. T = (m + 1) .. Len(b)
  <2>1. \A id \in T : id \in (m + 1) .. Len(b)
    BY <1>1, StoredFacts DEF Ids
  <2>2. \A id \in (m + 1) .. Len(b) : id \in T
    BY <1>1, StoredFacts DEF Ids
  <2> QED
    BY <2>1, <2>2
<1>3. Cardinality(T) = k
  <2>1. m + 1 \in Int /\ Len(b) \in Int
    BY <1>1
  <2>2. Cardinality((m + 1) .. Len(b)) = IF m + 1 > Len(b) THEN 0 ELSE Len(b) - (m + 1) + 1
    BY <2>1, FS_Interval
  <2>3. (IF m + 1 > Len(b) THEN 0 ELSE Len(b) - (m + 1) + 1) = k
    BY <1>1
  <2> QED
    BY <1>2, <2>2, <2>3
<1>4. s = [i \in 1 .. k |-> rows[Nth(T, i)]]
  BY <1>3 DEF StoredAbove
<1>5. \A i \in 1 .. k : s[i] = Upto(b, m + i)
  <2> SUFFICES ASSUME NEW i \in 1 .. k PROVE s[i] = Upto(b, m + i)
    OBVIOUS
  <2>1. Nth(T, i) = m + i
    BY <1>1, <1>2, NthInterval
  <2>2. m + i \in Ids /\ m + i <= Len(b)
    BY <1>1 DEF Ids
  <2>3. s[i] = rows[Nth(T, i)]
    BY <1>4
  <2> QED
    BY <2>1, <2>2, <2>3, StoredFacts
<1>6. Len(s) = k
  <2>1. \A i \in 1 .. k : Upto(b, m + i) \in Seq(Payloads)
    <3> SUFFICES ASSUME NEW i \in 1 .. k PROVE Upto(b, m + i) \in Seq(Payloads)
      OBVIOUS
    <3>1. m + i \in 0 .. Len(b)
      BY <1>1
    <3> QED
      BY <3>1, UptoFacts DEF Stored, IsBlock
  <2>2. s \in [1 .. k -> Seq(Payloads)]
    <3>1. DOMAIN s = 1 .. k /\ s = [i \in 1 .. k |-> s[i]]
      BY <1>4
    <3> HIDE DEF s
    <3> QED
      BY <1>5, <2>1, <3>1
  <2> HIDE DEF s, k
  <2> QED
    BY <1>1, <2>2, FunFacts
<1>7. Reverse(s) = [i \in 1 .. k |-> s[k - i + 1]]
  BY <1>6 DEF Reverse
<1>8. \A i \in 1 .. k : k - i + 1 \in 1 .. k /\ m + (k - i + 1) = Len(b) - i + 1
  BY <1>1
<1>9. \A i \in 1 .. k : s[k - i + 1] = Upto(b, Len(b) - i + 1)
  <2> HIDE DEF s, k
  <2> QED
    BY <1>5, <1>8
<1>10. [i \in 1 .. k |-> s[k - i + 1]] = [i \in 1 .. k |-> Upto(b, Len(b) - i + 1)]
  <2> HIDE DEF s, k
  <2> QED
    BY <1>9
<1>11. s = [i \in 1 .. k |-> s[i]]
  BY <1>4
<1>12. s = [i \in 1 .. k |-> Upto(b, m + i)]
  <2> HIDE DEF s, k
  <2> QED
    BY <1>5, <1>11
<1> QED
  BY <1>7, <1>10, <1>12 DEF Downwards, Upwards

(* The next block is stored, or the last one deleted.                      *)
LEMMA ImageNext ==
    ASSUME NEW b \in Seq(Payloads), NEW n \in 1 .. Len(b) - 1, Len(b) \in Ids,
           rows = Image(Upto(b, n)),
           rows' = [rows EXCEPT ![n + 1] = Upto(b, n + 1)]
    PROVE  rows' = Image(Upto(b, n + 1)) /\ rows[n + 1] = NoBlock
<1>1. /\ Len(b) \in Nat /\ n \in Nat /\ n \in 0 .. Len(b) /\ n + 1 \in 0 .. Len(b)
      /\ n + 1 \in Ids /\ n + 1 \in 0 .. n + 1
  BY BoundsAssumption DEF Ids
<1>2. Len(Upto(b, n)) = n /\ Len(Upto(b, n + 1)) = n + 1
  BY <1>1, UptoFacts
<1>3. ASSUME NEW id \in Ids PROVE rows'[id] = Image(Upto(b, n + 1))[id]
  <2>1. id \in Nat /\ (id <= n => id \in 0 .. n /\ id \in 0 .. n + 1)
    BY <1>1 DEF Ids
  <2>2. CASE id <= n
    <3>1. rows'[id] = Upto(Upto(b, n), id)
      BY <1>1, <1>2, <2>1, <2>2 DEF Image
    <3>2. Upto(Upto(b, n), id) = Upto(b, id) /\ Upto(Upto(b, n + 1), id) = Upto(b, id)
      BY <1>1, <2>1, <2>2, UptoUpto
    <3> QED
      BY <1>1, <1>2, <2>1, <2>2, <3>1, <3>2 DEF Image
  <2>3. CASE id = n + 1
    <3>1. rows'[id] = Upto(b, n + 1)
      BY <1>1, <2>3 DEF Image
    <3>2. Upto(Upto(b, n + 1), n + 1) = Upto(b, n + 1)
      BY <1>1, UptoUpto
    <3>3. Image(Upto(b, n + 1))[n + 1] = Upto(Upto(b, n + 1), n + 1)
      BY <1>1, <1>2 DEF Image
    <3> QED
      BY <2>3, <3>1, <3>2, <3>3
  <2>4. CASE id > n + 1
    BY <1>1, <1>2, <2>1, <2>4 DEF Image
  <2> QED
    BY <1>1, <2>1, <2>2, <2>3, <2>4
<1>4. /\ rows' = [id \in Ids |-> rows'[id]]
      /\ Image(Upto(b, n + 1)) = [id \in Ids |-> Image(Upto(b, n + 1))[id]]
  BY DEF Image
<1>5. rows' = Image(Upto(b, n + 1))
  <2> HIDE DEF Image
  <2> QED
    BY <1>3, <1>4
<1>6. rows[n + 1] = NoBlock
  BY <1>1, <1>2 DEF Image
<1> QED
  BY <1>5, <1>6

LEMMA ImageDrop ==
    ASSUME NEW b \in Seq(Payloads), NEW n \in 0 .. Len(b), NEW m \in 0 .. n,
           rows = Image(Upto(b, n)),
           rows' = [id \in Ids |-> IF id > m THEN NoBlock ELSE rows[id]]
    PROVE  rows' = Image(Upto(b, m))
<1>1. Len(b) \in Nat /\ n \in Nat /\ m \in Nat /\ m \in 0 .. Len(b)
  BY LenProperties
<1>2. Len(Upto(b, n)) = n /\ Len(Upto(b, m)) = m
  BY <1>1, UptoFacts
<1>3. ASSUME NEW id \in Ids PROVE rows'[id] = Image(Upto(b, m))[id]
  <2>1. id \in Nat
    BY DEF Ids
  <2>2. CASE id <= m
    <3>1. id \in 0 .. n /\ id \in 0 .. m /\ ~ (id > m) /\ id <= n
      BY <1>1, <2>1, <2>2
    <3>2. rows'[id] = Upto(Upto(b, n), id)
      BY <1>2, <3>1 DEF Image
    <3>3. Upto(Upto(b, n), id) = Upto(b, id) /\ Upto(Upto(b, m), id) = Upto(b, id)
      BY <1>1, <3>1, UptoUpto
    <3> QED
      BY <1>2, <2>2, <3>2, <3>3 DEF Image
  <2>3. CASE id > m
    <3>1. ~ (id <= m)
      BY <1>1, <2>1, <2>3
    <3> QED
      BY <1>2, <2>3, <3>1 DEF Image
  <2> QED
    BY <1>1, <2>1, <2>2, <2>3
<1>4. /\ rows' = [id \in Ids |-> rows'[id]]
      /\ Image(Upto(b, m)) = [id \in Ids |-> Image(Upto(b, m))[id]]
  BY DEF Image
<1> HIDE DEF Image
<1> QED
  BY <1>3, <1>4
-----------------------------------------------------------------------------
(* The invariant.  What a job has yet to do fits what is stored.           *)

Tidy == incidents \subseteq {"stopped", "unrolled", "mixed"}

Within     == {"mark", "exec", "rollback", "log", "info"}
UndoSteps  == {"unlog", "undo"}
AddModes   == {"collect", "generate"}
ForkModes  == {"undoOwn", "fork", "undoNew", "restore"}

(* Between jobs, and between two blocks that are collected.                *)
Waiting ==
    /\ job.mode = "none" => job = NoJob
    /\ job.mode = "loop" => /\ job.step = "" /\ job.host \in PeerChains
                            /\ job.at = Len(info.blk) + 1
    /\ job.mode \in {"none", "loop"} => Stored(info.blk)

(* A block is collected or generated: it is one higher than the stored     *)
(* ones, and once its header is checked, it continues them.                *)
Adding ==
    job.mode \in AddModes =>
        /\ job.step \in {"form", "header", "error", "row"} \cup Within
        /\ job.mode = "collect" => job.host \in PeerChains
        /\ job.step = "form" => /\ job.mode = "generate"
                                /\ Stored(info.blk) /\ Len(info.blk) < MaxId
        /\ job.step # "form" => IsBlock(Cur)
        /\ job.step \in {"header", "error"} \cup Within =>
               Stored(info.blk) /\ Len(Cur) = Len(info.blk) + 1
        /\ job.step \in Within => Front(Cur) = info.blk
        /\ job.step = "row" => info.blk = Cur /\ Stored(Front(Cur))

(* The chain that is to replace stored blocks.                             *)
Target ==
    /\ IsBlock(job.new) /\ Len(job.base) \in 1 .. Len(job.new) - 1
    /\ job.host # <<>> => /\ job.host \in PeerChains
                          /\ job.at = Len(job.new) + 1 /\ job.at <= Len(job.host)

(* As long as the new blocks are not all applied, the own ones are stored. *)
HasOwn(own) ==
    /\ Stored(own) /\ Len(job.base) <= Len(own)
    /\ Upto(own, Len(job.base)) = Upto(job.new, Len(job.base))

Replacing ==
    /\ job.mode \in {"undoOwn", "undoNew"} => job.step \in UndoSteps
    /\ job.mode \in {"fork", "restore"} => job.step \in {"header", "error"} \cup Within
    /\ job.mode \in ForkModes => Target /\ \E own : HasOwn(own)

(* They are stored one by one, each after info_block has it.               *)
Committing ==
    job.mode = "commit" =>
        /\ Target /\ job.step \in {"info", "row"}
        /\ \E n \in Len(job.base) .. Len(job.new) :
               /\ job.todo = Upwards(job.new, n)
               /\ Stored(Upto(job.new, n))
               /\ job.step = "row" => n < Len(job.new) /\ info.blk = Cur
               /\ job.step = "info" /\ n = Len(job.new) => info.blk = job.new

(* A reset deletes the blocks from the top.                                *)
Resetting ==
    job.mode = "reset" =>
        /\ job.step \in UndoSteps /\ IsBlock(info.blk)
        /\ job.at \in 1 .. Len(info.blk)
        /\ \E n \in job.at .. Len(info.blk) :
               job.todo = Downwards(info.blk, job.at, n) /\ Stored(Upto(info.blk, n))

Fits == Waiting /\ Adding /\ Replacing /\ Committing /\ Resetting

ChainInv == Tidy => Fits

(* Each mode has its part.                                                 *)
LEMMA WaitFits ==
    ASSUME Waiting', job'.mode \in {"none", "loop"} PROVE Fits'
BY DEF Fits, Waiting, Adding, Replacing, Committing, Resetting, AddModes, ForkModes

LEMMA AddFits ==
    ASSUME Adding', job'.mode \in AddModes PROVE Fits'
BY DEF Fits, Waiting, Adding, Replacing, Committing, Resetting, AddModes, ForkModes

LEMMA ForkFits ==
    ASSUME Replacing', job'.mode \in ForkModes PROVE Fits'
BY DEF Fits, Waiting, Adding, Replacing, Committing, Resetting, AddModes, ForkModes

LEMMA CommitFits ==
    ASSUME Committing', job'.mode = "commit" PROVE Fits'
BY DEF Fits, Waiting, Adding, Replacing, Committing, Resetting, AddModes, ForkModes

LEMMA ResetFits ==
    ASSUME Resetting', job'.mode = "reset" PROVE Fits'
BY DEF Fits, Waiting, Adding, Replacing, Committing, Resetting, AddModes, ForkModes

LEMMA StartFits ==
    ASSUME Init PROVE Fits
<1>1. info.blk = <<Genesis>> /\ job = NoJob /\ job.mode = "none"
  BY DEF Init, NoJob
<1>2. Genesis \in Payloads
  BY ChainsAssumption
<1>3. <<Genesis>> \in Seq(Payloads) /\ Len(<<Genesis>>) = 1
  BY <1>2
<1>4. IsBlock(<<Genesis>>) /\ MaxId >= 1 /\ MaxId \in Nat
  BY <1>3, BoundsAssumption DEF IsBlock, Ids
<1>5. rows = Image(<<Genesis>>)
  <2>1. Upto(<<Genesis>>, 1) = <<Genesis>>
    BY <1>3, UptoAll
  <2>2. \A id \in Ids : id <= 1 <=> id = 1
    BY DEF Ids
  <2> QED
    BY <1>3, <2>1, <2>2 DEF Init, Image
<1> QED
  BY <1>1, <1>4, <1>5 DEF Fits, Waiting, Adding, Replacing, Committing, Resetting,
                          AddModes, ForkModes, Stored

-----------------------------------------------------------------------------
(* Steps that only go on within a block.                                   *)

SameTask ==
    /\ job'.mode = job.mode /\ job'.todo = job.todo /\ job'.base = job.base
    /\ job'.new = job.new /\ job'.host = job.host /\ job'.at = job.at
    /\ rows' = rows /\ info' = info

LEMMA SameFits ==
    ASSUME Fits, SameTask,
           \/ job.step \in UndoSteps /\ job'.step \in UndoSteps
           \/ job.step \in Within \ {"info"} /\ job'.step \in Within \cup {"error"}
           \/ job.step = "header" /\ job'.step = "error"
           \/ /\ job.step = "header" /\ job'.step \in Within
              /\ job.mode \in AddModes => Front(Cur) = info.blk
    PROVE  Fits'
<1>1. Cur' = Cur
  BY DEF Cur, SameTask
<1>2. \A b : Stored(b)' <=> Stored(b)
  BY DEF Stored, SameTask
<1>3. \A own : HasOwn(own)' <=> HasOwn(own)
  BY <1>2 DEF HasOwn, SameTask
<1>4. Target' <=> Target
  BY DEF Target, SameTask
<1>5. job.mode \notin {"none", "loop", "commit"}
  <2>1. job.step \notin {"", "info", "row"}
    BY DEF UndoSteps, Within
  <2>2. NoJob.step = ""
    BY DEF NoJob
  <2>3. job.mode \in {"none", "loop"} => job.step = ""
    BY <2>2 DEF Fits, Waiting
  <2> QED
    BY <2>1, <2>3 DEF Fits, Committing
<1>6. Adding'
  BY <1>1, <1>2 DEF Fits, Adding, SameTask, UndoSteps, Within
<1>7. Replacing'
  BY <1>3, <1>4 DEF Fits, Replacing, SameTask, UndoSteps, Within, ForkModes
<1>8. Resetting'
  BY <1>2 DEF Fits, Resetting, SameTask, UndoSteps, Within
<1> QED
  BY <1>5, <1>6, <1>7, <1>8 DEF Fits, Waiting, Committing, SameTask

LEMMA WithinSteps ==
    ASSUME IsJob(job), MarkTx \/ ExecTx \/ FrontFails \/ InitFails \/ MainFails \/ RollbackTo \/ LogTx
    PROVE  SameTask /\ job.step \in Within \ {"info"} /\ job'.step \in Within \cup {"error"}
<1>1. UNCHANGED chainVars /\ job.step \in Within \ {"info"}
  BY DEF MarkTx, ExecTx, FrontFails, InitFails, MainFails, RollbackTo, LogTx, Within
<1>2. ASSUME NEW step \in Within \cup {"error"}, job' = [job EXCEPT !.step = step]
      PROVE  SameTask /\ job'.step \in Within \cup {"error"}
  BY <1>1, <1>2 DEF SameTask, chainVars, IsJob, JobFields
<1>3. ASSUME NEW step \in Within \cup {"error"}, NEW hash,
             job' = [job EXCEPT !.step = step, !.hash = hash]
      PROVE  SameTask /\ job'.step \in Within \cup {"error"}
  BY <1>1, <1>3 DEF SameTask, chainVars, IsJob, JobFields
<1>4. ASSUME NEW step \in Within \cup {"error"}, NEW pos,
             job' = [job EXCEPT !.step = step, !.pos = pos]
      PROVE  SameTask /\ job'.step \in Within \cup {"error"}
  BY <1>1, <1>4 DEF SameTask, chainVars, IsJob, JobFields
<1>5. CASE MarkTx
  BY <1>1, <1>3, <1>5 DEF MarkTx, RollbackFront, Within
<1>6. CASE ExecTx \/ InitFails \/ MainFails
  BY <1>1, <1>2, <1>6 DEF ExecTx, InitFails, MainFails, Within
<1>7. CASE FrontFails
  BY <1>1, <1>3, <1>7 DEF FrontFails, RollbackFront, Within
<1>8. CASE RollbackTo
  BY <1>1, <1>3, <1>8 DEF RollbackTo, Within
<1>9. CASE LogTx
  BY <1>1, <1>2, <1>4, <1>9 DEF LogTx, Within
<1> QED
  BY <1>5, <1>6, <1>7, <1>8, <1>9

LEMMA UndoingSteps ==
    ASSUME IsJob(job), UnlogTx \/ UndoTx
    PROVE  SameTask /\ job.step \in UndoSteps /\ job'.step \in UndoSteps
<1>1. CASE UnlogTx
  BY <1>1 DEF UnlogTx, SameTask, UndoSteps, chainVars, IsJob, JobFields
<1>2. CASE UndoTx
  BY <1>2 DEF UndoTx, SameTask, UndoSteps, chainVars, IsJob, JobFields
<1> QED
  BY <1>1, <1>2

LEMMA HeaderFits ==
    ASSUME IsJob(job), Fits, CheckHeader
    PROVE  Fits'
<1>1. job.step = "header" /\ UNCHANGED chainVars
  BY DEF CheckHeader
<1>2. CASE ~ GoodHeader(Cur)
  <2>1. job' = [job EXCEPT !.step = "error"]
    BY <1>2 DEF CheckHeader
  <2>2. SameTask /\ job'.step = "error"
    BY <1>1, <2>1 DEF SameTask, chainVars, IsJob, JobFields
  <2> QED
    BY <1>1, <2>2, SameFits
<1>3. CASE GoodHeader(Cur)
  <2> DEFINE step == IF Txs(Cur) = <<>> THEN "info" ELSE "mark"
  <2>1. job' = [job EXCEPT !.pos = 1, !.step = step] /\ step \in Within
    BY <1>3 DEF CheckHeader, Within
  <2> HIDE DEF step
  <2>2. SameTask /\ job'.step \in Within
    BY <1>1, <2>1 DEF SameTask, chainVars, IsJob, JobFields
  <2>3. ASSUME job.mode \in AddModes PROVE Front(Cur) = info.blk
    <3>1. CASE job.mode = "generate"
      BY <1>3, <3>1 DEF GoodHeader
    <3>2. CASE job.mode = "collect"
      <4>1. rows[Len(Cur) - 1] = Front(Cur)
        BY <1>3, <3>2 DEF GoodHeader
      <4>2. Stored(info.blk) /\ Len(Cur) = Len(info.blk) + 1
        BY <1>1, <3>2 DEF Fits, Adding, AddModes
      <4>3. Len(Cur) - 1 = Len(info.blk)
        BY <4>2, BlockFacts DEF Stored
      <4> QED
        BY <4>1, <4>2, <4>3, StoredFacts
    <3> QED
      BY <2>3, <3>1, <3>2 DEF AddModes
  <2> QED
    BY <1>1, <2>2, <2>3, SameFits
<1> QED
  BY <1>2, <1>3

-----------------------------------------------------------------------------
(* Jobs that begin and end.                                                *)

LEMMA BeginKeeps ==
    ASSUME IsJob(job), NEW mode, NEW step, NEW todo
    PROVE  LET b == Begin(mode, step, todo) IN
           /\ IsJob(b) /\ b.mode = mode /\ b.step = step /\ b.todo = todo
           /\ b.base = job.base /\ b.new = job.new /\ b.host = job.host /\ b.at = job.at
BY DEF IsJob, JobFields, Begin

LEMMA BeginUndoKeeps ==
    ASSUME IsJob(job), NEW mode, NEW todo
    PROVE  LET b == BeginUndo(mode, todo) IN
           /\ IsJob(b) /\ b.mode = mode /\ b.step = "unlog" /\ b.todo = todo
           /\ b.base = job.base /\ b.new = job.new /\ b.host = job.host /\ b.at = job.at
           /\ b.pos = IF todo = <<>> THEN 0 ELSE Len(Txs(Head(todo)))
<1> DEFINE b == Begin(mode, "unlog", todo)
           pos == IF todo = <<>> THEN 0 ELSE Len(Txs(Head(todo)))
<1>1. /\ IsJob(b) /\ b.mode = mode /\ b.step = "unlog" /\ b.todo = todo
      /\ b.base = job.base /\ b.new = job.new /\ b.host = job.host /\ b.at = job.at
  BY BeginKeeps
<1>2. BeginUndo(mode, todo) = [b EXCEPT !.pos = pos]
  BY DEF BeginUndo
<1> HIDE DEF b, pos
<1>3. LET u == BeginUndo(mode, todo) IN
      /\ IsJob(u) /\ u.mode = mode /\ u.step = "unlog" /\ u.todo = todo
      /\ u.base = job.base /\ u.new = job.new /\ u.host = job.host /\ u.at = job.at
      /\ u.pos = pos
  BY <1>1, <1>2 DEF IsJob, JobFields
<1> QED
  BY <1>3 DEF pos

LEMMA Settles ==
    ASSUME job' = NoJob, Stored(info.blk)'
    PROVE  Fits'
<1>1. job'.mode = "none" /\ Waiting'
  BY DEF Waiting, NoJob
<1> QED
  BY <1>1, WaitFits

LEMMA PeerFacts ==
    ASSUME NEW host \in PeerChains, NEW id \in 1 .. Len(host)
    PROVE  /\ host \in Seq(Payloads) /\ Len(host) \in Nat /\ id \in Ids /\ id \in 0 .. Len(host)
           /\ IsBlock(Upto(host, id)) /\ Len(Upto(host, id)) = id
<1>1. host \in Seq(Payloads) /\ Len(host) <= MaxId
  BY ChainsAssumption DEF Chains
<1>2. host \in Seq(Payloads) /\ Len(host) \in Nat
  BY <1>1, LenProperties
<1>3. id \in Ids /\ id \in 0 .. Len(host)
  BY <1>1, <1>2, BoundsAssumption DEF Ids
<1> QED
  BY <1>2, <1>3, UptoFacts

(* GetBlocks leaves everything as it is, or begins to replace own blocks.  *)
LEMMA Switches ==
    ASSUME IsJob(job), Stored(info.blk), NEW host \in PeerChains, NEW id \in 1 .. Len(host),
           NEW limit, GetBlocks(host, id, limit), UNCHANGED chainVars,
           job.host # <<>> => /\ job.host \in PeerChains
                              /\ job.at = id + 1 /\ job.at <= Len(job.host),
           job' # NoJob
    PROVE  /\ job'.mode = "undoOwn" /\ job'.step = "unlog"
           /\ Target' /\ HasOwn(info.blk)' /\ Len(job'.base) \in 1 .. Len(info.blk)
           /\ job'.todo = Downwards(info.blk, Len(job'.base), Len(info.blk))
           /\ job'.pos = IF job'.todo = <<>> THEN 0 ELSE Len(Txs(Head(job'.todo)))
<1>1. rows' = rows /\ info' = info
  BY DEF chainVars
<1> DEFINE T == ForkPoints(host, id)
           k == Max(T)
           todo == Reverse(StoredAbove(k - 1))
           b == BeginUndo("undoOwn", todo)
<1>2. /\ T # {}
      /\ job' = [b EXCEPT !.base = Upto(host, k - 1), !.new = Upto(host, id),
                          !.hash = NoTx, !.kept = job.hash]
  BY DEF GetBlocks
<1>3. /\ host \in Seq(Payloads) /\ Len(host) \in Nat /\ id \in Ids /\ id \in 0 .. Len(host)
      /\ IsBlock(Upto(host, id)) /\ Len(Upto(host, id)) = id
  BY PeerFacts
<1>4. k \in 2 .. id /\ rows[k - 1] = Upto(host, k - 1)
  <2>1. id \in Nat /\ T \in SUBSET (0 .. id)
    BY <1>3 DEF Ids, ForkPoints
  <2>2. k \in T
    BY <1>2, <2>1, Greatest
  <2> QED
    BY <2>2 DEF ForkPoints
<1>5. k - 1 \in 1 .. id - 1 /\ k - 1 \in 1 .. Len(host) /\ k - 1 \in 0 .. id
  BY <1>3, <1>4 DEF Ids
<1>6. IsBlock(Upto(host, k - 1)) /\ Len(Upto(host, k - 1)) = k - 1 /\ k - 1 \in Ids
  BY <1>5, PeerFacts
<1>7. k - 1 <= Len(info.blk) /\ Upto(info.blk, k - 1) = Upto(host, k - 1)
  <2>1. rows[k - 1] # NoBlock
    BY <1>4, <1>6, BlockFacts
  <2> QED
    BY <1>4, <1>6, <2>1, StoredFacts
<1>8. Upto(Upto(host, id), k - 1) = Upto(host, k - 1)
  BY <1>3, <1>5, UptoUpto
<1>9. /\ IsJob(b) /\ b.mode = "undoOwn" /\ b.step = "unlog" /\ b.todo = todo
      /\ b.host = job.host /\ b.at = job.at
      /\ b.pos = IF todo = <<>> THEN 0 ELSE Len(Txs(Head(todo)))
  BY BeginUndoKeeps
<1>10. k - 1 \in 1 .. Len(info.blk)
  BY <1>5, <1>7, BlockFacts DEF Stored
<1>11. todo = Downwards(info.blk, k - 1, Len(info.blk))
  BY <1>10, AboveStored
<1> HIDE DEF T, k, b, todo
<1>12. /\ job'.mode = "undoOwn" /\ job'.step = "unlog" /\ job'.todo = todo
       /\ job'.base = Upto(host, k - 1) /\ job'.new = Upto(host, id)
       /\ job'.host = job.host /\ job'.at = job.at
       /\ job'.pos = IF todo = <<>> THEN 0 ELSE Len(Txs(Head(todo)))
  BY <1>2, <1>9 DEF IsJob, JobFields
<1>13. Target'
  BY <1>3, <1>5, <1>6, <1>12 DEF Target
<1>14. HasOwn(info.blk)'
  BY <1>1, <1>6, <1>7, <1>8, <1>12 DEF HasOwn, Stored
<1> QED
  BY <1>6, <1>10, <1>11, <1>12, <1>13, <1>14

LEMMA GetBlocksFits ==
    ASSUME IsJob(job), Stored(info.blk), NEW host \in PeerChains, NEW id \in 1 .. Len(host),
           NEW limit, GetBlocks(host, id, limit), UNCHANGED chainVars,
           job.host # <<>> => /\ job.host \in PeerChains
                              /\ job.at = id + 1 /\ job.at <= Len(job.host)
    PROVE  Fits'
<1>1. CASE job' = NoJob
  BY <1>1, Settles DEF Stored, chainVars
<1>2. CASE job' # NoJob
  <2>1. job'.mode = "undoOwn" /\ job'.step = "unlog" /\ Target' /\ HasOwn(info.blk)'
    BY <1>2, Switches
  <2>2. Replacing' /\ job'.mode \in ForkModes
    BY <2>1 DEF Replacing, UndoSteps, ForkModes
  <2> QED
    BY <2>2, ForkFits
<1> QED
  BY <1>1, <1>2

LEMMA WaitingFacts ==
    ASSUME Fits
    PROVE  /\ Idle => job = NoJob /\ job.host = <<>> /\ IsJob(job) /\ Stored(info.blk)
           /\ job.mode = "loop" => /\ job.host \in PeerChains
                                   /\ job.at = Len(info.blk) + 1 /\ Stored(info.blk)
<1>1. NoJob.host = <<>> /\ IsJob(NoJob)
  BY NoJobFacts DEF NoJob
<1> QED
  BY <1>1 DEF Fits, Waiting, Idle

(* A block is taken, one above the stored ones.                            *)
LEMMA AddsBlock ==
    ASSUME Stored(info.blk), UNCHANGED chainVars, NEW blk, IsBlock(blk),
           Len(blk) = Len(info.blk) + 1,
           job'.step = "header", job'.todo = <<blk>>,
           \/ job'.mode = "generate"
           \/ job'.mode = "collect" /\ job'.host \in PeerChains
    PROVE  Fits'
<1>1. rows' = rows /\ info' = info
  BY DEF chainVars
<1>2. Cur' = blk
  BY DEF Cur
<1>3. Stored(info.blk)'
  BY <1>1 DEF Stored
<1>4. Adding' /\ job'.mode \in AddModes
  BY <1>1, <1>2, <1>3 DEF Adding, AddModes, Within
<1> QED
  BY <1>4, AddFits

LEMMA CollectFits ==
    ASSUME IsJob(job), Fits, CollectNext \/ StopCollect \/ \E host \in PeerChains : StartCollect(host)
    PROVE  Fits'
<1>1. CASE \E host \in PeerChains : StartCollect(host)
  <2>1. PICK host \in PeerChains : StartCollect(host)
    BY <1>1
  <2>2. /\ Stored(info.blk) /\ rows' = rows /\ info' = info
        /\ job' = [NoJob EXCEPT !.mode = "loop", !.host = host, !.at = Len(info.blk) + 1]
    BY <2>1, WaitingFacts DEF StartCollect, chainVars
  <2>3. job'.mode = "loop" /\ job'.step = "" /\ job'.host = host /\ job'.at = Len(info.blk) + 1
    BY <2>2 DEF NoJob
  <2>4. Waiting'
    BY <2>2, <2>3 DEF Waiting, Stored
  <2> QED
    BY <2>3, <2>4, WaitFits
<1>2. CASE StopCollect
  <2>1. Stored(info.blk) /\ rows' = rows /\ info' = info /\ job' = NoJob
    BY <1>2, WaitingFacts DEF StopCollect, chainVars
  <2> QED
    BY <2>1, Settles DEF Stored
<1>3. CASE CollectNext
  <2>1. /\ job.host \in PeerChains /\ job.at = Len(info.blk) + 1 /\ Stored(info.blk)
        /\ UNCHANGED chainVars /\ job.at <= Len(job.host)
    BY <1>3, WaitingFacts DEF CollectNext
  <2>2. /\ Len(info.blk) \in Nat /\ Len(info.blk) >= 1 /\ job.host \in Chains
    BY <2>1, BlockFacts, ChainsAssumption DEF Stored
  <2>3. Len(job.host) \in Nat
    BY <2>2, LenProperties DEF Chains
  <2>4. job.at \in 1 .. Len(job.host) /\ job.at - 1 \in 1 .. Len(job.host)
    BY <2>1, <2>2, <2>3
  <2>5. CASE job' = Begin("collect", "header", <<Upto(job.host, job.at)>>)
    <3>1. IsBlock(Upto(job.host, job.at)) /\ Len(Upto(job.host, job.at)) = Len(info.blk) + 1
      BY <2>1, <2>4, PeerFacts
    <3>2. /\ job'.mode = "collect" /\ job'.step = "header" /\ job'.host = job.host
          /\ job'.todo = <<Upto(job.host, job.at)>>
      BY <2>5, BeginKeeps
    <3> QED
      BY <2>1, <3>1, <3>2, AddsBlock
  <2>6. CASE GetBlocks(job.host, job.at - 1, RB2)
    <3>1. job.at = (job.at - 1) + 1
      BY <2>1, <2>2
    <3> DEFINE id == job.at - 1
    <3>2. job.at = id + 1 /\ GetBlocks(job.host, id, RB2) /\ id \in 1 .. Len(job.host)
      BY <2>4, <2>6, <3>1
    <3> HIDE DEF id
    <3> QED
      BY <2>1, <3>2, GetBlocksFits
  <2> QED
    BY <1>3, <2>5, <2>6 DEF CollectNext
<1> QED
  BY <1>1, <1>2, <1>3

LEMMA QueuedFits ==
    ASSUME Fits, NEW host \in PeerChains, NEW id \in 2 .. Len(host), ParseBlockQueue(host, id)
    PROVE  Fits'
<1>1. /\ IsJob(job) /\ Stored(info.blk) /\ job.host = <<>>
      /\ UNCHANGED chainVars /\ GetBlocks(host, id, RB1)
  BY WaitingFacts DEF ParseBlockQueue
<1>2. id \in 1 .. Len(host)
  OBVIOUS
<1> QED
  BY <1>1, <1>2, GetBlocksFits

(* A generator that forms a block has room for one.                        *)
LEMMA FormsNext ==
    ASSUME IsJob(job), Stored(info.blk), UNCHANGED chainVars, Len(info.blk) < MaxId,
           job' = Begin("generate", "form", <<>>)
    PROVE  Fits'
<1>1. job'.mode = "generate" /\ job'.step = "form"
  BY BeginKeeps
<1>2. Stored(info.blk)' /\ info' = info
  BY DEF Stored, chainVars
<1>3. Adding' /\ job'.mode \in AddModes
  BY <1>1, <1>2 DEF Adding, AddModes, Within
<1> QED
  BY <1>3, AddFits

LEMMA GenerateFits ==
    ASSUME IsJob(job), Fits, StartGenerate \/ FormBlock
    PROVE  Fits'
<1>1. CASE StartGenerate
  BY <1>1, WaitingFacts, FormsNext DEF StartGenerate
<1>2. CASE FormBlock
  <2>1. /\ Stored(info.blk) /\ Len(info.blk) < MaxId /\ UNCHANGED chainVars
    BY <1>2 DEF FormBlock, At, Fits, Adding, AddModes
  <2>2. PICK txs \in SetToSeqs({t \in Tx : trans[t] = "ok"}) :
            job' = Begin("generate", "header",
                         <<Append(info.blk, [txs |-> txs, by |-> Self, bad |-> FALSE])>>)
    BY <1>2 DEF FormBlock
  <2> DEFINE payload == [txs |-> txs, by |-> Self, bad |-> FALSE]
             blk == Append(info.blk, payload)
  <2>3. payload \in Payloads
    <3> DEFINE S == {t \in Tx : trans[t] = "ok"}
    <3>1. S \in SUBSET Tx
      OBVIOUS
    <3>2. Cardinality(S) \in Nat
      BY <3>1, TxAssumption, FS_Subset, FS_CardinalityType
    <3>3. txs \in [1 .. Cardinality(S) -> S]
      BY DEF SetToSeqs
    <3> HIDE DEF S
    <3>4. txs \in [1 .. Cardinality(S) -> Tx]
      BY <3>1, <3>3
    <3>5. txs \in Seq(Tx)
      BY <3>2, <3>4, SeqDef
    <3> QED
      BY <3>5, ChainsAssumption DEF Payloads
  <2>4. blk \in Seq(Payloads) /\ Len(blk) = Len(info.blk) + 1
    BY <2>1, <2>3, AppendProperties DEF Stored, IsBlock
  <2>5. IsBlock(blk)
    BY <2>1, <2>4, BlockFacts, BoundsAssumption DEF Stored, IsBlock, Ids
  <2>6. job'.mode = "generate" /\ job'.step = "header" /\ job'.todo = <<blk>>
    BY <2>2, BeginKeeps
  <2> HIDE DEF blk, payload
  <2> QED
    BY <2>1, <2>4, <2>5, <2>6, AddsBlock
<1> QED
  BY <1>1, <1>2

-----------------------------------------------------------------------------
(* Storing a block, and resetting.                                         *)

LEMMA StoreFits ==
    ASSUME IsJob(job), Fits, InsertIntoBlockchain \/ BlockRefused
    PROVE  Fits'
<1>1. CASE InsertIntoBlockchain
  <2> DEFINE c == Cur
             n == Len(Cur) - 1
  <2>1. /\ job.mode \in AddModes /\ job.step = "row"
        /\ IsBlock(c) /\ info.blk = c /\ Stored(Front(c))
        /\ job.mode = "collect" => job.host \in PeerChains
    BY <1>1 DEF InsertIntoBlockchain, Fits, Adding, AddModes
  <2>2. Len(c) \in Nat /\ Len(c) >= 1 /\ Len(c) \in Ids /\ c \in Seq(Payloads)
    BY <2>1, BlockFacts DEF IsBlock
  <2>3. Front(c) = Upto(c, n) /\ n \in 0 .. Len(c)
    BY <2>2, FrontIsUpto
  <2>4. Len(Front(c)) = n /\ Len(Front(c)) >= 1
    BY <2>1, <2>2, <2>3, BlockFacts, UptoFacts DEF Stored
  <2>5. n \in 1 .. Len(c) - 1 /\ n + 1 = Len(c)
    BY <2>2, <2>4
  <2>6. rows' = [rows EXCEPT ![n + 1] = Upto(c, n + 1)] /\ info' = info
    BY <1>1, <2>2, <2>5, UptoAll DEF InsertIntoBlockchain
  <2>7. rows = Image(Upto(c, n))
    BY <2>1, <2>3 DEF Stored
  <2>8. rows' = Image(Upto(c, n + 1))
    <3> HIDE DEF c, n
    <3> QED
      BY <2>2, <2>5, <2>6, <2>7, ImageNext
  <2>9. Stored(info.blk)'
    BY <2>1, <2>2, <2>5, <2>6, <2>8, UptoAll DEF Stored
  <2>10. CASE job' = NoJob
    BY <2>9, <2>10, Settles
  <2>11. CASE job.mode = "collect" /\ job' = [Begin("loop", "", <<>>) EXCEPT !.at = Len(Cur) + 1]
    <3> DEFINE b == Begin("loop", "", <<>>)
    <3>1. IsJob(b) /\ b.mode = "loop" /\ b.step = "" /\ b.host = job.host
      BY DEF IsJob, JobFields, Begin
    <3>2. job' = [b EXCEPT !.at = Len(c) + 1]
      BY <2>11
    <3> HIDE DEF b
    <3>3. job'.mode = "loop" /\ job'.step = "" /\ job'.host = job.host /\ job'.at = Len(c) + 1
      BY <3>1, <3>2 DEF IsJob, JobFields
    <3>4. Waiting'
      BY <2>1, <2>6, <2>9, <2>11, <3>3 DEF Waiting
    <3> QED
      BY <3>3, <3>4, WaitFits
  <2> QED
    BY <1>1, <2>1, <2>10, <2>11 DEF InsertIntoBlockchain, AddModes
<1>2. CASE BlockRefused
  <2>1. Stored(info.blk) /\ IsBlock(Cur) /\ Len(Cur) = Len(info.blk) + 1 /\ UNCHANGED chainVars
    BY <1>2 DEF BlockRefused, Fits, Adding, AddModes, Within
  <2>2. CASE job' = NoJob
    BY <2>1, <2>2, Settles DEF Stored, chainVars
  <2>3. CASE job' = Begin("generate", "form", <<>>)
    <3>1. Len(info.blk) < MaxId
      BY <2>1, BlockFacts, BoundsAssumption DEF Stored
    <3> QED
      BY <2>1, <2>3, <3>1, FormsNext
  <2> QED
    BY <1>2, <2>2, <2>3 DEF BlockRefused
<1> QED
  BY <1>1, <1>2

LEMMA UpdatedFits ==
    ASSUME IsJob(job), Fits, UpdBlockInfo
    PROVE  Fits'
<1>1. job.step = "info" /\ rows' = rows /\ info'.blk = Cur
  BY DEF UpdBlockInfo
<1>2. CASE job.mode \in AddModes
  <2>1. job' = [job EXCEPT !.step = "row"]
    BY <1>2 DEF UpdBlockInfo, AddModes
  <2>2. /\ job'.mode = job.mode /\ job'.step = "row" /\ job'.todo = job.todo
        /\ job'.host = job.host
    BY <2>1 DEF IsJob, JobFields
  <2>3. Cur' = Cur
    BY <2>2 DEF Cur
  <2>4. /\ Stored(info.blk) /\ IsBlock(Cur) /\ Front(Cur) = info.blk
        /\ job.mode = "collect" => job.host \in PeerChains
    BY <1>1, <1>2 DEF Fits, Adding, Within
  <2>5. Stored(Front(Cur))'
    BY <1>1, <2>3, <2>4 DEF Stored
  <2>6. Adding'
    BY <1>1, <2>2, <2>3, <2>4, <2>5 DEF Adding, Within
  <2> QED
    BY <1>2, <2>2, <2>6, AddFits
<1>3. CASE job.mode \in {"fork", "restore"}
  <2>1. job' = [job EXCEPT !.step = "header", !.todo = Tail(job.todo)]
    BY <1>3 DEF UpdBlockInfo
  <2>2. /\ job'.mode = job.mode /\ job'.step = "header" /\ job'.base = job.base
        /\ job'.new = job.new /\ job'.host = job.host /\ job'.at = job.at
    BY <2>1 DEF IsJob, JobFields
  <2>3. Target /\ \E own : HasOwn(own)
    BY <1>3 DEF Fits, Replacing, ForkModes
  <2>4. Target' /\ \E own : HasOwn(own)'
    BY <1>1, <2>2, <2>3 DEF Target, HasOwn, Stored
  <2>5. Replacing' /\ job'.mode \in ForkModes
    BY <1>3, <2>2, <2>4 DEF Replacing, ForkModes
  <2> QED
    BY <2>5, ForkFits
<1> QED
  BY <1>2, <1>3 DEF UpdBlockInfo, ApplyModes, Fits, Replacing, AddModes

LEMMA StartResetFits ==
    ASSUME Fits, NEW id \in Ids, StartReset(id)
    PROVE  Fits'
<1>1. /\ IsJob(job) /\ Stored(info.blk) /\ rows' = rows /\ info' = info /\ rows[id] # NoBlock
  BY WaitingFacts DEF StartReset, chainVars
<1>2. /\ info.blk \in Seq(Payloads) /\ Len(info.blk) \in Nat /\ id \in 1 .. Len(info.blk)
      /\ Len(info.blk) \in id .. Len(info.blk)
  <2>1. id <= Len(info.blk) /\ Len(info.blk) \in Nat
    BY <1>1, StoredFacts, BlockFacts DEF Stored
  <2> QED
    BY <1>1, <2>1 DEF Ids, Stored, IsBlock
<1> DEFINE todo == Reverse(StoredAbove(id))
           b == BeginUndo("reset", todo)
<1>3. todo = Downwards(info.blk, id, Len(info.blk))
  BY <1>1, <1>2, AboveStored
<1>4. job' = [b EXCEPT !.at = id]
  BY DEF StartReset
<1>5. IsJob(b) /\ b.mode = "reset" /\ b.step = "unlog" /\ b.todo = todo
  BY <1>1, BeginUndoKeeps
<1> HIDE DEF b, todo
<1>6. job'.mode = "reset" /\ job'.step = "unlog" /\ job'.todo = todo /\ job'.at = id
  BY <1>4, <1>5 DEF IsJob, JobFields
<1>7. Stored(Upto(info.blk, Len(info.blk)))'
  BY <1>1, <1>2, UptoAll DEF Stored
<1>8. Resetting'
  BY <1>1, <1>2, <1>3, <1>6, <1>7 DEF Resetting, UndoSteps, Stored
<1> QED
  BY <1>6, <1>8, ResetFits

LEMMA UndoneFits ==
    ASSUME IsJob(job), Fits, UndoneBlock
    PROVE  Fits'
<1>1. /\ job.step = "unlog" /\ job.todo # <<>> /\ info' = info
      /\ job' = BeginUndo(job.mode, Tail(job.todo))
  BY DEF UndoneBlock
<1>2. /\ job'.mode = job.mode /\ job'.step = "unlog" /\ job'.todo = Tail(job.todo)
      /\ job'.base = job.base /\ job'.new = job.new /\ job'.host = job.host /\ job'.at = job.at
  BY <1>1, BeginUndoKeeps
<1>3. CASE job.mode = "reset"
  <2> DEFINE c == info.blk
             at == job.at
  <2>1. IsBlock(c) /\ at \in 1 .. Len(c)
    BY <1>3 DEF Fits, Resetting
  <2>2. PICK n \in at .. Len(c) : job.todo = Downwards(c, at, n) /\ Stored(Upto(c, n))
    BY <1>3 DEF Fits, Resetting
  <2>3. c \in Seq(Payloads) /\ Len(c) \in Nat /\ n \in 0 .. Len(c) /\ at \in 0 .. n /\ at \in Nat
    BY <2>1, <2>2, BlockFacts DEF IsBlock
  <2>4. at < n /\ Cur = Upto(c, n) /\ Tail(job.todo) = Downwards(c, at, n - 1)
    <3>1. n # at
      BY <1>1, <2>2, <2>3, DownwardsFacts
    <3>2. at < n
      BY <2>2, <2>3, <3>1
    <3> QED
      BY <2>2, <2>3, <3>2, DownwardsFacts DEF Cur
  <2>5. n - 1 \in at .. Len(c) /\ n - 1 \in 0 .. n /\ n - 1 \in 1 .. Len(c)
    BY <2>1, <2>2, <2>3, <2>4
  <2>6. Len(Cur) = n /\ Len(Upto(c, n)) = n
    BY <2>3, <2>4, UptoFacts
  <2>7. rows' = [id \in Ids |-> IF id > n - 1 THEN NoBlock ELSE rows[id]]
    <3>1. rows' = [rows EXCEPT ![n] = NoBlock] /\ DOMAIN rows = Ids
      BY <1>3, <2>2, <2>6 DEF UndoneBlock, Stored, Image
    <3>2. \A id \in Ids : rows'[id] = IF id > n - 1 THEN NoBlock ELSE rows[id]
      <4> SUFFICES ASSUME NEW id \in Ids
                   PROVE  rows'[id] = IF id > n - 1 THEN NoBlock ELSE rows[id]
        OBVIOUS
      <4>1. id \in Nat
        BY DEF Ids
      <4>2. rows[id] # NoBlock => id <= n
        BY <2>2, <2>6, StoredFacts
      <4>3. CASE id = n
        BY <2>3, <3>1, <4>3
      <4>4. CASE id # n
        BY <2>3, <3>1, <4>1, <4>2, <4>4
      <4> QED
        BY <4>3, <4>4
    <3>3. rows' = [id \in Ids |-> rows'[id]]
      BY <3>1
    <3> QED
      BY <3>2, <3>3
  <2>8. rows = Image(Upto(c, n))
    BY <2>2 DEF Stored
  <2>9. rows' = Image(Upto(c, n - 1))
    <3> HIDE DEF c, at
    <3> QED
      BY <2>3, <2>5, <2>7, <2>8, ImageDrop
  <2>10. n - 1 \in Ids /\ n - 1 \in 0 .. Len(c)
    BY <2>1, <2>3, <2>5, BlockFacts, BoundsAssumption DEF Ids
  <2>11. IsBlock(Upto(c, n - 1))
    BY <2>3, <2>10, UptoFacts
  <2>12. Stored(Upto(info.blk, n - 1))'
    BY <1>1, <2>9, <2>11 DEF Stored
  <2>13. job'.todo = Downwards(info'.blk, job'.at, n - 1) /\ n - 1 \in job'.at .. Len(info'.blk)
    BY <1>1, <1>2, <2>4, <2>5
  <2>14. Resetting'
    BY <1>1, <1>2, <2>1, <2>12, <2>13 DEF Resetting, UndoSteps
  <2> QED
    BY <1>2, <1>3, <2>14, ResetFits
<1>4. CASE job.mode # "reset"
  <2>1. rows' = rows
    BY <1>4 DEF UndoneBlock
  <2>2. job.mode \notin {"none", "loop", "commit", "collect", "generate", "fork", "restore"}
    <3>1. NoJob.step = ""
      BY DEF NoJob
    <3> QED
      BY <1>1, <3>1 DEF Fits, Waiting, Adding, Replacing, Committing, AddModes, Within
  <2>3. CASE job.mode \in ForkModes
    <3>1. Target /\ \E own : HasOwn(own)
      BY <2>3 DEF Fits, Replacing
    <3>2. Target' /\ \E own : HasOwn(own)'
      BY <1>1, <1>2, <2>1, <3>1 DEF Target, HasOwn, Stored
    <3>3. Replacing'
      BY <1>2, <2>2, <3>2 DEF Replacing, UndoSteps
    <3> QED
      BY <1>2, <2>3, <3>3, ForkFits
  <2>4. CASE job.mode \notin ForkModes
    BY <1>2, <1>4, <2>2, <2>4 DEF Fits, Waiting, Adding, Replacing, Committing, Resetting,
                                  AddModes, ForkModes
  <2> QED
    BY <2>3, <2>4
<1> QED
  BY <1>3, <1>4

LEMMA ResetEnds ==
    ASSUME Fits, ResetInfo
    PROVE  Fits'
<1>1. /\ job.mode = "reset" /\ job.todo = <<>> /\ rows' = rows /\ job' = NoJob
      /\ info'.blk = rows[job.at]
  BY DEF ResetInfo
<1>2. IsBlock(info.blk) /\ job.at \in 1 .. Len(info.blk)
  BY <1>1 DEF Fits, Resetting
<1>3. PICK n \in job.at .. Len(info.blk) :
          job.todo = Downwards(info.blk, job.at, n) /\ Stored(Upto(info.blk, n))
  BY <1>1 DEF Fits, Resetting
<1>4. /\ info.blk \in Seq(Payloads) /\ Len(info.blk) \in Nat
      /\ n \in 0 .. Len(info.blk) /\ job.at \in 0 .. n
  BY <1>2, <1>3, BlockFacts DEF IsBlock
<1>5. n = job.at /\ Len(Upto(info.blk, n)) = n
  <2>1. Downwards(info.blk, job.at, n) = <<>> <=> n = job.at
    BY <1>4, DownwardsFacts
  <2>2. Len(Upto(info.blk, n)) = n
    BY <1>4, UptoFacts
  <2> QED
    BY <1>1, <1>3, <2>1, <2>2
<1>6. info'.blk = Upto(info.blk, n)
  BY <1>1, <1>3, <1>5, StoredFacts
<1>7. Stored(info.blk)'
  BY <1>1, <1>3, <1>6 DEF Stored
<1> QED
  BY <1>1, <1>7, Settles

-----------------------------------------------------------------------------
(* Replacing blocks.                                                       *)

(* The fork goes on with other blocks, the stored ones as they are.        *)
LEMMA ForkGoesOn ==
    ASSUME Fits, job.mode \in ForkModes, UNCHANGED chainVars,
           \/ job'.mode \in {"fork", "restore"} /\ job'.step = "header"
           \/ job'.mode = "undoNew" /\ job'.step = "unlog",
           job'.base = job.base, job'.new = job.new, job'.host = job.host, job'.at = job.at
    PROVE  Fits'
<1>1. Target /\ \E own : HasOwn(own)
  BY DEF Fits, Replacing
<1>2. Target' /\ \E own : HasOwn(own)'
  BY <1>1 DEF Target, HasOwn, Stored, chainVars
<1>3. Replacing' /\ job'.mode \in ForkModes
  BY <1>2 DEF Replacing, UndoSteps, ForkModes
<1> QED
  BY <1>3, ForkFits

LEMMA ForkFitsOn ==
    ASSUME IsJob(job), Fits, ApplyFork \/ UndoFork \/ RestoreOwn
    PROVE  Fits'
<1>1. UNCHANGED chainVars /\ job.mode \in ForkModes
  BY DEF ApplyFork, UndoFork, RestoreOwn, At, ForkModes
<1>2. ASSUME NEW mode \in {"fork", "restore"}, NEW todo, job' = Begin(mode, "header", todo)
      PROVE  Fits'
  <2>1. /\ job'.mode = mode /\ job'.step = "header" /\ job'.base = job.base
        /\ job'.new = job.new /\ job'.host = job.host /\ job'.at = job.at
    BY <1>2, BeginKeeps
  <2> QED
    BY <1>1, <2>1, ForkGoesOn
<1>3. ASSUME NEW todo, job' = BeginUndo("undoNew", todo) PROVE Fits'
  <2>1. /\ job'.mode = "undoNew" /\ job'.step = "unlog" /\ job'.base = job.base
        /\ job'.new = job.new /\ job'.host = job.host /\ job'.at = job.at
    BY <1>3, BeginUndoKeeps
  <2> QED
    BY <1>1, <2>1, ForkGoesOn
<1> QED
  BY <1>2, <1>3 DEF ApplyFork, UndoFork, RestoreOwn

LEMMA RestoredFits ==
    ASSUME Fits, RestoreInfo
    PROVE  Fits'
<1>1. PICK own : HasOwn(own)
  BY DEF RestoreInfo, Fits, Replacing, ForkModes
<1>2. rows' = rows /\ job' = NoJob
  BY DEF RestoreInfo
<1>3. info'.blk = rows[Max({id \in Ids : rows[id] # NoBlock})]
  BY DEF RestoreInfo
<1> QED
  BY <1>1, <1>2, <1>3, Highest, Settles DEF HasOwn, Stored

LEMMA DropFits ==
    ASSUME IsJob(job), Fits, DropOwn
    PROVE  Fits'
<1>1. /\ job' = Begin("commit", "info", Between(job.base, job.new)) /\ info' = info
      /\ rows' = [id \in Ids |-> IF id > Len(job.base) THEN NoBlock ELSE rows[id]]
  BY DEF DropOwn
<1>2. PICK own : HasOwn(own)
  BY DEF DropOwn, Fits, Replacing, ForkModes
<1>3. Target
  BY DEF DropOwn, Fits, Replacing, ForkModes
<1> DEFINE n == Len(job.base)
<1>4. /\ IsBlock(own) /\ own \in Seq(Payloads) /\ Len(own) \in Nat /\ rows = Image(own)
      /\ IsBlock(job.new) /\ job.new \in Seq(Payloads) /\ Len(job.new) \in Nat
      /\ n \in 1 .. Len(job.new) - 1 /\ n <= Len(own)
      /\ Upto(own, n) = Upto(job.new, n)
  BY <1>2, <1>3, BlockFacts DEF HasOwn, Target, Stored, IsBlock
<1>5. n \in 0 .. Len(own) /\ Len(own) \in 0 .. Len(own) /\ n \in 0 .. Len(job.new)
  BY <1>4
<1>6. rows = Image(Upto(own, Len(own)))
  BY <1>4, UptoAll
<1>7. rows' = Image(Upto(job.new, n))
  <2> HIDE DEF n
  <2>1. rows' = [id \in Ids |-> IF id > n THEN NoBlock ELSE rows[id]]
    BY <1>1 DEF n
  <2>2. rows' = Image(Upto(own, n))
    BY <1>4, <1>5, <1>6, <2>1, ImageDrop
  <2> QED
    BY <1>4, <2>2
<1>8. n \in Ids /\ IsBlock(Upto(job.new, n))
  <2>1. n \in Ids
    BY <1>4, BlockFacts, BoundsAssumption DEF Ids
  <2> QED
    BY <1>4, <1>5, <2>1, UptoFacts
<1>9. Between(job.base, job.new) = Upwards(job.new, n)
  BY DEF Between, Upwards
<1>10. /\ job'.mode = "commit" /\ job'.step = "info" /\ job'.todo = Upwards(job.new, n)
       /\ job'.base = job.base /\ job'.new = job.new /\ job'.host = job.host /\ job'.at = job.at
  BY <1>1, <1>9, BeginKeeps
<1>11. Target'
  BY <1>3, <1>10 DEF Target
<1>12. n \in Len(job'.base) .. Len(job'.new) /\ n # Len(job'.new)
  BY <1>4, <1>10
<1>13. Stored(Upto(job.new, n))'
  BY <1>7, <1>8, <1>10 DEF Stored
<1>14. Committing'
  BY <1>10, <1>11, <1>12, <1>13 DEF Committing
<1> QED
  BY <1>10, <1>14, CommitFits

(* The blocks that a commit has stored, and the next one.                  *)
LEMMA CommitFacts ==
    ASSUME Fits, job.mode = "commit"
    PROVE  /\ Target /\ job.new \in Seq(Payloads) /\ Len(job.new) \in Nat /\ Len(job.new) \in Ids
           /\ \E n \in Len(job.base) .. Len(job.new) :
                  /\ n \in 1 .. Len(job.new) /\ n \in 0 .. Len(job.new)
                  /\ job.todo = Upwards(job.new, n) /\ Stored(Upto(job.new, n))
                  /\ job.todo = <<>> => n = Len(job.new)
                  /\ n < Len(job.new) => /\ Cur = Upto(job.new, n + 1)
                                         /\ Len(Cur) = n + 1
                                         /\ Tail(job.todo) = Upwards(job.new, n + 1)
                  /\ job.todo # <<>> => n < Len(job.new)
                  /\ job.step = "row" => n < Len(job.new) /\ info.blk = Cur
                  /\ job.step \in {"info", "row"}
                  /\ job.step = "info" /\ n = Len(job.new) => info.blk = job.new
<1>1. /\ Target /\ job.step \in {"info", "row"}
      /\ \E n \in Len(job.base) .. Len(job.new) :
             /\ job.todo = Upwards(job.new, n)
             /\ Stored(Upto(job.new, n))
             /\ job.step = "row" => n < Len(job.new) /\ info.blk = Cur
             /\ job.step = "info" /\ n = Len(job.new) => info.blk = job.new
  BY DEF Fits, Committing
<1>2. PICK n \in Len(job.base) .. Len(job.new) :
             /\ job.todo = Upwards(job.new, n)
             /\ Stored(Upto(job.new, n))
             /\ job.step = "row" => n < Len(job.new) /\ info.blk = Cur
             /\ job.step = "info" /\ n = Len(job.new) => info.blk = job.new
  BY <1>1
<1>3. /\ job.new \in Seq(Payloads) /\ Len(job.new) \in Nat /\ Len(job.new) \in Ids
      /\ Len(job.base) \in 1 .. Len(job.new) - 1
  BY <1>1, BlockFacts DEF Target, IsBlock
<1>4. n \in 1 .. Len(job.new) /\ n \in 0 .. Len(job.new)
  BY <1>3
<1>5. /\ job.todo = <<>> <=> n = Len(job.new)
      /\ n < Len(job.new) => /\ Cur = Upto(job.new, n + 1)
                             /\ Tail(job.todo) = Upwards(job.new, n + 1)
  BY <1>2, <1>3, <1>4, UpwardsFacts DEF Cur
<1>6. ASSUME n < Len(job.new) PROVE Len(Upto(job.new, n + 1)) = n + 1
  <2>1. n + 1 \in 0 .. Len(job.new)
    BY <1>3, <1>4, <1>6
  <2> QED
    BY <1>3, <2>1, UptoFacts
<1>7. job.todo # <<>> => n < Len(job.new)
  BY <1>4, <1>5
<1> QED
  BY <1>1, <1>2, <1>3, <1>4, <1>5, <1>6, <1>7

LEMMA CommitFitsOn ==
    ASSUME IsJob(job), Fits, CommitInfo \/ CommitRow \/ Committed
    PROVE  Fits'
<1>1. job.mode = "commit"
  BY DEF CommitInfo, CommitRow, Committed, At
<1>2. /\ Target /\ job.new \in Seq(Payloads) /\ Len(job.new) \in Nat /\ Len(job.new) \in Ids
  BY <1>1, CommitFacts
<1>3. PICK n \in Len(job.base) .. Len(job.new) :
          /\ n \in 1 .. Len(job.new) /\ n \in 0 .. Len(job.new)
          /\ job.todo = Upwards(job.new, n) /\ Stored(Upto(job.new, n))
          /\ job.todo = <<>> => n = Len(job.new)
          /\ n < Len(job.new) => /\ Cur = Upto(job.new, n + 1)
                                 /\ Len(Cur) = n + 1
                                 /\ Tail(job.todo) = Upwards(job.new, n + 1)
          /\ job.todo # <<>> => n < Len(job.new)
          /\ job.step = "row" => n < Len(job.new) /\ info.blk = Cur
          /\ job.step \in {"info", "row"}
          /\ job.step = "info" /\ n = Len(job.new) => info.blk = job.new
  BY <1>1, CommitFacts
<1>4. CASE CommitInfo
  <2>1. job' = [job EXCEPT !.step = "row"] /\ rows' = rows /\ info'.blk = Cur /\ n < Len(job.new)
    BY <1>3, <1>4 DEF CommitInfo
  <2>2. /\ job'.mode = "commit" /\ job'.step = "row" /\ job'.todo = job.todo
        /\ job'.base = job.base /\ job'.new = job.new /\ job'.host = job.host /\ job'.at = job.at
    BY <1>1, <2>1 DEF IsJob, JobFields
  <2>3. Cur' = Cur
    BY <2>2 DEF Cur
  <2>4. Target' /\ Stored(Upto(job.new, n))'
    BY <1>2, <1>3, <2>1, <2>2 DEF Target, Stored
  <2>5. Committing'
    BY <1>3, <2>1, <2>2, <2>3, <2>4 DEF Committing
  <2> QED
    BY <2>2, <2>5, CommitFits
<1>5. CASE CommitRow
  <2>1. /\ job' = [job EXCEPT !.step = "info", !.todo = Tail(job.todo)] /\ info' = info
        /\ n < Len(job.new) /\ info.blk = Cur
    BY <1>3, <1>5 DEF CommitRow, At
  <2>2. n \in 1 .. Len(job.new) - 1
    BY <1>2, <1>3, <2>1
  <2>3. rows = Image(Upto(job.new, n)) /\ IsBlock(Upto(job.new, n))
    BY <1>3 DEF Stored
  <2>4. rows[n + 1] = NoBlock
    <3>1. n + 1 \in Ids /\ Len(Upto(job.new, n)) = n
      BY <1>2, <1>3, <2>2, UptoFacts, BoundsAssumption DEF Ids
    <3>2. ~ (n + 1 <= n)
      BY <1>3
    <3> QED
      BY <1>3, <3>1, <3>2, StoredFacts
  <2>5. rows' = [rows EXCEPT ![n + 1] = Upto(job.new, n + 1)]
    BY <1>3, <1>5, <2>1, <2>4 DEF CommitRow
  <2>6. rows' = Image(Upto(job.new, n + 1))
    BY <1>2, <2>2, <2>3, <2>5, ImageNext
  <2>7. /\ job'.mode = "commit" /\ job'.step = "info" /\ job'.todo = Upwards(job.new, n + 1)
        /\ job'.base = job.base /\ job'.new = job.new /\ job'.host = job.host /\ job'.at = job.at
    BY <1>1, <1>3, <2>1 DEF IsJob, JobFields
  <2>8. n + 1 \in Len(job.base) .. Len(job.new) /\ n + 1 \in 0 .. Len(job.new) /\ n + 1 \in Ids
    <3>1. Len(job.base) \in 1 .. Len(job.new) - 1
      BY <1>2 DEF Target
    <3> QED
      BY <1>2, <1>3, <2>2, <3>1, BoundsAssumption DEF Ids
  <2>9. Target' /\ Stored(Upto(job.new, n + 1))'
    BY <1>2, <2>6, <2>7, <2>8, UptoFacts DEF Target, Stored
  <2>10. n + 1 = Len(job.new) => info'.blk = job'.new
    BY <1>2, <1>3, <2>1, <2>7, UptoAll
  <2>11. Committing'
    BY <2>7, <2>8, <2>9, <2>10 DEF Committing
  <2> QED
    BY <2>7, <2>11, CommitFits
<1>6. CASE Committed
  <2>1. job.todo = <<>> /\ UNCHANGED chainVars
    BY <1>6 DEF Committed
  <2>2. n = Len(job.new) /\ info.blk = job.new /\ Stored(info.blk)
    <3>1. n = Len(job.new)
      BY <1>3, <2>1
    <3>2. ~ (n < Len(job.new))
      BY <1>2, <3>1
    <3> QED
      BY <1>2, <1>3, <3>1, <3>2, UptoAll
  <2>3. CASE job.host = <<>>
    BY <1>6, <2>1, <2>2, <2>3, Settles DEF Committed, Stored, chainVars
  <2>4. CASE job.host # <<>>
    <3> DEFINE b == Begin("collect", "header", <<Upto(job.host, job.at)>>)
    <3>1. job' = [b EXCEPT !.hash = job.kept]
      BY <1>6, <2>4 DEF Committed
    <3>2. /\ IsJob(b) /\ b.mode = "collect" /\ b.step = "header" /\ b.host = job.host
          /\ b.todo = <<Upto(job.host, job.at)>>
      BY BeginKeeps
    <3>3. /\ job.host \in PeerChains /\ job.at = Len(job.new) + 1 /\ job.at <= Len(job.host)
      BY <1>2, <2>4 DEF Target
    <3>4. job.at \in 1 .. Len(job.host)
      <4>1. job.host \in Seq(Payloads)
        BY <3>3, ChainsAssumption DEF Chains
      <4>2. Len(job.host) \in Nat
        BY <4>1, LenProperties
      <4> QED
        BY <1>2, <3>3, <4>2
    <3>5. IsBlock(Upto(job.host, job.at)) /\ Len(Upto(job.host, job.at)) = Len(info.blk) + 1
      BY <2>2, <3>3, <3>4, PeerFacts
    <3> HIDE DEF b
    <3>6. /\ job'.mode = "collect" /\ job'.step = "header" /\ job'.host = job.host
          /\ job'.todo = <<Upto(job.host, job.at)>>
      BY <3>1, <3>2 DEF IsJob, JobFields
    <3> QED
      BY <2>1, <2>2, <3>3, <3>5, <3>6, AddsBlock
  <2> QED
    BY <2>3, <2>4
<1> QED
  BY <1>4, <1>5, <1>6

-----------------------------------------------------------------------------
(* All steps.                                                              *)

LEMMA StillFits ==
    ASSUME Fits, UNCHANGED <<chainVars, job>>
    PROVE  Fits'
<1>1. rows' = rows /\ info' = info /\ job' = job
  BY DEF chainVars
<1>2. Cur' = Cur /\ (Target' <=> Target)
  BY <1>1 DEF Cur, Target
<1>3. \A b : Stored(b)' <=> Stored(b)
  BY <1>1 DEF Stored
<1>4. \A own : HasOwn(own)' <=> HasOwn(own)
  BY <1>1, <1>3 DEF HasOwn
<1> QED
  BY <1>1, <1>2, <1>3, <1>4 DEF Fits, Waiting, Adding, Replacing, Committing, Resetting

LEMMA CrashIncidents ==
    ASSUME Crashes
    PROVE  /\ \/ incidents' = incidents \cup {"crash"}
              \/ incidents' = incidents \cup {"crash"} \cup {"mixed"}
           /\ crashes' = crashes + 1 /\ job' = NoJob
<1>1. CASE CrashInUndo
  BY <1>1 DEF CrashInUndo, Tear, Undo, Dies
<1> QED
  BY <1>1 DEF Crashes, Crash, CrashInExecTx, CrashInUnlogTx, CrashInInsert, CrashInBlockError,
              CrashInTxParser, Dies

(* What has gone wrong stays so.                                           *)
LEMMA IncidentsGrow ==
    ASSUME [Next]_vars
    PROVE  incidents \subseteq incidents'
<1>1. CASE StartJob
  BY <1>1 DEF StartJob, StartCollect, ParseBlockQueue, StartGenerate, StartReset, runVars
<1>2. CASE CollectNext \/ StopCollect \/ FormBlock \/ CheckHeader \/ UpdBlockInfo
           \/ InsertIntoBlockchain \/ BlockRefused \/ UnlogTx \/ UndoTx \/ UndoneBlock \/ ResetInfo
  BY <1>2 DEF CollectNext, StopCollect, FormBlock, CheckHeader, UpdBlockInfo,
              InsertIntoBlockchain, BlockRefused, UnlogTx, UndoTx, Undo, UndoneBlock, ResetInfo, runVars
<1>3. CASE MarkTx \/ ExecTx \/ FrontFails \/ InitFails \/ MainFails \/ RollbackTo \/ LogTx
  BY <1>3 DEF MarkTx, ExecTx, FrontFails, InitFails, MainFails, RollbackTo, LogTx,
              RollbackFront, RecordStop, Undo, runVars
<1>4. CASE ApplyFork \/ DropOwn \/ CommitInfo \/ CommitRow \/ Committed
           \/ ForkPanics \/ UndoFork \/ RestoreOwn \/ RestoreInfo \/ RestoreFails
  BY <1>4 DEF ApplyFork, DropOwn, CommitInfo, CommitRow, Committed, ForkPanics, UndoFork,
              RestoreOwn, RestoreInfo, RestoreFails, runVars
<1>5. CASE ParseQueue \/ UNCHANGED vars \/ \E t \in Tx : Submit(t) \/ UpdFullNodes(t)
  BY <1>5 DEF ParseQueue, vars, Submit, UpdFullNodes, runVars
<1> QED
  BY <1>1, <1>2, <1>3, <1>4, <1>5, CrashIncidents DEF Next, JobStep

LEMMA StaysUntidy ==
    ASSUME [Next]_vars, Tidy'
    PROVE  Tidy
BY IncidentsGrow DEF Tidy

LEMMA JobFits ==
    ASSUME IsJob(job), Fits, JobStep, Tidy'
    PROVE  Fits'
<1>1. CASE MarkTx \/ ExecTx \/ FrontFails \/ InitFails \/ MainFails \/ RollbackTo \/ LogTx
  BY <1>1, WithinSteps, SameFits
<1>2. CASE UnlogTx \/ UndoTx
  BY <1>2, UndoingSteps, SameFits
<1>3. CASE ForkPanics \/ RestoreFails
  <2>1. "panic" \in incidents' \/ "unrestored" \in incidents'
    BY <1>3 DEF ForkPanics, RestoreFails
  <2> QED
    BY <2>1 DEF Tidy
<1> QED
  BY <1>1, <1>2, <1>3, CollectFits, GenerateFits, HeaderFits, UpdatedFits, StoreFits, UndoneFits,
     ResetEnds, ForkFitsOn, DropFits, CommitFitsOn, RestoredFits DEF JobStep

LEMMA StepFits == Inv /\ ChainInv /\ [Next]_vars => ChainInv'
<1> SUFFICES ASSUME Inv, ChainInv, [Next]_vars, Tidy' PROVE Fits'
  BY DEF ChainInv
<1>1. Fits /\ IsJob(job)
  BY StaysUntidy DEF ChainInv, Inv, JobInv, AtWork
<1>2. CASE JobStep
  BY <1>1, <1>2, JobFits
<1>3. CASE StartJob
  BY <1>1, <1>3, CollectFits, QueuedFits, GenerateFits, StartResetFits DEF StartJob
<1>4. CASE Crashes
  BY <1>4, CrashIncidents DEF Tidy
<1>5. CASE ParseQueue \/ UNCHANGED vars \/ \E t \in Tx : Submit(t) \/ UpdFullNodes(t)
  BY <1>1, <1>5, StillFits DEF ParseQueue, vars, Submit, UpdFullNodes, chainVars
<1> QED
  BY <1>2, <1>3, <1>4, <1>5 DEF Next

LEMMA ChainHolds == Spec => []ChainInv
<1>1. Init => ChainInv
  BY StartFits DEF ChainInv
<1> QED
  BY <1>1, StepFits, Holds, PTL DEF Spec

(* Between two jobs block_chain holds the block that info_block names, its *)
(* ancestors and nothing else: after every fork that is taken or undone,   *)
(* every refused block and every reset.                                    *)
THEOREM ChainIsStored == Spec => []StoredChain
<1>1. ChainInv => StoredChain
  BY DEF ChainInv, Fits, Waiting, Tidy, StoredChain, Idle, Stored, Image
<1> QED
  BY <1>1, ChainHolds, PTL

-----------------------------------------------------------------------------
(* Types, whatever has gone wrong.                                         *)

AtTxs == {"mark", "exec", "rollback", "log"}

Blocks == Chains \ {NoBlock}
Hashes == Tx \cup {NoTx, Garbage}

JobRecords ==
    [mode : Modes, step : Steps, todo : Seq(Blocks), pos : Nat,
     base : Chains, new : Chains, host : Chains, at : Nat, hash : Hashes, kept : Hashes]

(* A block is stored at its id, and block 1 always is.                     *)
RowsOK ==
    /\ rows \in [Ids -> Chains]
    /\ \A id \in Ids : rows[id] # NoBlock => Len(rows[id]) = id
    /\ rows[1] # NoBlock

InfoOK == info \in [blk : Blocks, by : Makers]

LedgerOK == ledger \in Seq(Effects) /\ logTx \subseteq Tx

PoolOK == trans \in [Tx -> RowStates] /\ queue \subseteq Tx

RunOK ==
    /\ crashes \in Nat
    /\ incidents \subseteq {"crash", "panic", "stopped", "unrolled", "unrestored", "mixed"}

(* The chain that the collector or a fork goes back to.                    *)
HostOK(j) ==
    /\ j.mode = "none" => j.host = <<>>
    /\ j.mode \in {"loop", "collect"} => j.host \in PeerChains
    /\ j.mode = "loop" => j.at >= 2
    /\ j.mode \in ForkModes \cup {"commit"} =>
           /\ Len(j.base) >= 1
           /\ j.host # <<>> => j.host \in PeerChains /\ j.at \in 2 .. Len(j.host)

(* A job that is at a block has one, and at a transaction it has that.  A  *)
(* block that is collected or generated is not block 1.                    *)
PlaceOK(j) ==
    /\ j.step \in AtTxs \cup {"undo"} => /\ j.todo # <<>>
                                         /\ j.pos \in 1 .. Len(Txs(Head(j.todo)))
    /\ j.step = "unlog" =>
           j.pos \in 0 .. IF j.todo = <<>> THEN 0 ELSE Len(Txs(Head(j.todo)))
    /\ j.step \in {"error", "row"} => j.todo # <<>>
    /\ j.step \in UndoSteps => j.mode \notin AddModes
    /\ j.mode \in AddModes /\ j.todo # <<>> => Len(Head(j.todo)) > 1

(* A reset deletes nothing at or below the block it goes back to.          *)
ResetOK ==
    job.mode = "reset" =>
        /\ job.at \in Ids /\ rows[job.at] # NoBlock
        /\ \A i \in 1 .. Len(job.todo) : Len(job.todo[i]) > job.at

JobOK == job \in JobRecords /\ HostOK(job) /\ PlaceOK(job) /\ ResetOK

TypeInv == RowsOK /\ InfoOK /\ LedgerOK /\ PoolOK /\ RunOK /\ JobOK

(* Sequences of blocks.                                                    *)
LEMMA FunIsSeq ==
    ASSUME NEW S, NEW n \in Int, NEW s \in [1 .. n -> S]
    PROVE  s \in Seq(S)
<1>1. CASE n \in Nat
  BY <1>1, FunFacts
<1>2. CASE n < 0
  <2>1. 1 .. n = 1 .. 0 /\ 0 \in Nat
    BY <1>2
  <2>2. s \in [1 .. 0 -> S]
    BY <2>1
  <2> QED
    BY <2>1, <2>2, FunFacts
<1> QED
  BY <1>1, <1>2

LEMMA ReverseFacts ==
    ASSUME NEW S, NEW s \in Seq(S)
    PROVE  Reverse(s) \in Seq(S) /\ Len(Reverse(s)) = Len(s)
           /\ \A i \in 1 .. Len(s) : \E k \in 1 .. Len(s) : Reverse(s)[i] = s[k]
<1> DEFINE r == [i \in 1 .. Len(s) |-> s[Len(s) - i + 1]]
<1>1. Len(s) \in Nat
  BY LenProperties
<1>2. \A i \in 1 .. Len(s) : Len(s) - i + 1 \in 1 .. Len(s)
  BY <1>1
<1>3. \A i \in 1 .. Len(s) : s[i] \in S
  BY ElementOfSeq
<1>4. r \in [1 .. Len(s) -> S]
  BY <1>2, <1>3
<1>5. \A i \in 1 .. Len(s) : r[i] = s[Len(s) - i + 1]
  OBVIOUS
<1>6. Reverse(s) = r
  BY DEF Reverse
<1> HIDE DEF r
<1>7. r \in Seq(S) /\ Len(r) = Len(s)
  BY <1>1, <1>4, FunFacts
<1> QED
  BY <1>2, <1>5, <1>6, <1>7

LEMMA AboveTypes ==
    ASSUME RowsOK, NEW id
    PROVE  LET s == Reverse(StoredAbove(id)) IN
           /\ s \in Seq(Blocks) /\ StoredAbove(id) \in Seq(Blocks)
           /\ \A i \in 1 .. Len(s) : Len(s[i]) > id
<1> DEFINE T == {k \in Ids : k > id /\ rows[k] # NoBlock}
           n == Cardinality(T)
           s == StoredAbove(id)
<1>1. MaxId \in Nat /\ T \in SUBSET (1 .. MaxId)
  BY BoundsAssumption DEF Ids
<1>2. n \in Nat /\ \A k \in 1 .. n : Nth(T, k) \in T
  <2> HIDE DEF T
  <2> QED
    BY <1>1, NthFacts
<1>3. \A k \in T : rows[k] \in Blocks /\ Len(rows[k]) > id
  BY DEF RowsOK, Blocks
<1>4. s = [i \in 1 .. n |-> rows[Nth(T, i)]]
  BY DEF StoredAbove
<1>5. s \in [1 .. n -> Blocks] /\ \A i \in 1 .. n : Len(s[i]) > id
  <2> HIDE DEF T, n, s
  <2> QED
    BY <1>2, <1>3, <1>4
<1> HIDE DEF T, n, s
<1>6. s \in Seq(Blocks) /\ Len(s) = n
  BY <1>2, <1>5, FunFacts
<1>7. /\ Reverse(s) \in Seq(Blocks) /\ Len(Reverse(s)) = Len(s)
      /\ \A i \in 1 .. Len(s) : \E k \in 1 .. Len(s) : Reverse(s)[i] = s[k]
  BY <1>6, ReverseFacts
<1>8. \A i \in 1 .. Len(Reverse(s)) : Len(Reverse(s)[i]) > id
  BY <1>5, <1>6, <1>7
<1> QED
  BY <1>6, <1>7, <1>8 DEF s

LEMMA BetweenTypes ==
    ASSUME NEW base \in Chains, NEW new \in Chains
    PROVE  Between(base, new) \in Seq(Blocks) /\ Reverse(Between(base, new)) \in Seq(Blocks)
<1> DEFINE n == Len(new) - Len(base)
           s == Between(base, new)
<1>1. Len(base) \in Nat /\ Len(new) \in Nat /\ n \in Int /\ new \in Seq(Payloads)
  BY LenProperties DEF Chains
<1>2. \A i \in 1 .. n : Upto(new, Len(base) + i) \in Blocks
  <2> SUFFICES ASSUME NEW i \in 1 .. n PROVE Upto(new, Len(base) + i) \in Blocks
    OBVIOUS
  <2>1. Len(base) + i \in 0 .. Len(new) /\ Len(base) + i # 0
    BY <1>1
  <2> QED
    BY <1>1, <2>1, UptoFacts DEF Blocks, Chains
<1>3. s \in [1 .. n -> Blocks]
  BY <1>2 DEF Between
<1> HIDE DEF n, s
<1>4. s \in Seq(Blocks)
  BY <1>1, <1>3, FunIsSeq
<1> QED
  BY <1>4, ReverseFacts DEF s

LEMMA TodoTypes ==
    ASSUME NEW todo \in Seq(Blocks), todo # <<>>
    PROVE  /\ Head(todo) \in Blocks /\ Tail(todo) \in Seq(Blocks) /\ Head(todo) = todo[1]
           /\ Len(todo) \in Nat /\ Len(todo) >= 1 /\ Len(Tail(todo)) = Len(todo) - 1
           /\ \A i \in 1 .. Len(todo) - 1 : Tail(todo)[i] = todo[i + 1]
<1>1. Len(todo) \in Nat /\ Len(todo) >= 1
  BY LenProperties, EmptySeq
<1>2. Head(todo) = todo[1] /\ todo[1] \in Blocks
  BY <1>1, HeadTailProperties, ElementOfSeq
<1> QED
  BY <1>1, <1>2, HeadTailProperties

LEMMA BlockTypes ==
    ASSUME NEW b \in Blocks
    PROVE  /\ Txs(b) \in Seq(Tx) /\ Len(Txs(b)) \in Nat /\ (Txs(b) = <<>> <=> Len(Txs(b)) = 0)
           /\ \A p \in 1 .. Len(Txs(b)) : Txs(b)[p] \in Tx
           /\ Last(b).by \in Makers /\ Front(b) \in Chains /\ b \in Chains
<1>1. b \in Seq(Payloads) /\ b # <<>>
  BY DEF Blocks, Chains, NoBlock
<1>2. Len(b) \in Nat /\ Len(b) \in 1 .. Len(b) /\ Len(b) - 1 \in 0 .. Len(b)
  BY <1>1, LenProperties, EmptySeq
<1>3. Last(b) \in Payloads
  BY <1>1, <1>2, ElementOfSeq DEF Last
<1>4. Txs(b) \in Seq(Tx) /\ Last(b).by \in Makers
  BY <1>3 DEF Txs, Payloads
<1>5. Len(Txs(b)) \in Nat /\ (Txs(b) = <<>> <=> Len(Txs(b)) = 0)
      /\ \A p \in 1 .. Len(Txs(b)) : Txs(b)[p] \in Tx
  BY <1>4, LenProperties, EmptySeq, ElementOfSeq
<1>6. Front(b) \in Seq(Payloads)
  BY <1>1, <1>2, FrontIsUpto, UptoFacts
<1> QED
  BY <1>1, <1>4, <1>5, <1>6 DEF Chains

LEMMA PeerTypes ==
    ASSUME NEW host \in PeerChains
    PROVE  /\ host \in Chains /\ host # <<>> /\ Len(host) \in Nat
           /\ \A id \in 1 .. Len(host) : Upto(host, id) \in Blocks /\ Len(Upto(host, id)) = id
<1>1. host \in Chains /\ host # <<>> /\ Len(host) \in Nat
  BY ChainsAssumption, LenProperties DEF Chains
<1>2. ASSUME NEW id \in 1 .. Len(host)
      PROVE  Upto(host, id) \in Blocks /\ Len(Upto(host, id)) = id
  <2>1. IsBlock(Upto(host, id)) /\ Len(Upto(host, id)) = id
    BY PeerFacts
  <2> QED
    BY <2>1, BlockFacts DEF IsBlock, Blocks, Chains
<1> QED
  BY <1>1, <1>2

LEMMA BlockLength ==
    ASSUME NEW b \in Blocks
    PROVE  Len(b) \in Nat /\ Len(b) >= 1
BY LenProperties, EmptySeq DEF Blocks, Chains, NoBlock

(* The transaction at hand is one.                                         *)
LEMMA CurTypes ==
    ASSUME JobOK
    PROVE  /\ IsJob(job)
           /\ job.todo # <<>> => Cur \in Blocks
           /\ \/ job.step \in AtTxs \cup {"undo"}
              \/ job.step = "unlog" /\ job.pos > 0
              => CurTx \in Tx /\ job.todo # <<>> /\ job.pos \in 1 .. Len(Txs(Cur))
<1>1. IsJob(job) /\ job.todo \in Seq(Blocks) /\ job.pos \in Nat
  BY DEF JobOK, JobRecords, IsJob, JobFields
<1>2. job.todo # <<>> => Cur \in Blocks
  BY <1>1, TodoTypes DEF Cur
<1>3. ASSUME \/ job.step \in AtTxs \cup {"undo"}
             \/ job.step = "unlog" /\ job.pos > 0
      PROVE  job.todo # <<>> /\ job.pos \in 1 .. Len(Txs(Cur))
  BY <1>1, <1>3 DEF JobOK, PlaceOK, Cur
<1> QED
  BY <1>1, <1>2, <1>3, BlockTypes DEF CurTx

-----------------------------------------------------------------------------
(* The pool, the ledger and the history.                                   *)

(* The statements on the rows of transactions.                             *)
LEMMA RowStatesKept ==
    ASSUME PoolOK, NEW t \in Tx
    PROVE  /\ trans[t] \in RowStates /\ Parsed(t, trans[t]) \in RowStates
           /\ Parsed(t, "none") \in RowStates /\ "none" \in RowStates
           /\ Used(trans[t]) \in RowStates /\ Unchecked(trans[t]) \in RowStates
           /\ Unverified(trans[t]) \in RowStates /\ Dropped(trans[t]) \in RowStates
           /\ Unused(trans[t]) \in RowStates
<1>1. trans[t] \in RowStates
  BY DEF PoolOK
<1>2. \A row \in RowStates :
          /\ Dropped(row) \in RowStates /\ Used(row) \in RowStates
          /\ Unchecked(row) \in RowStates /\ Unverified(row) \in RowStates
          /\ Unused(row) \in RowStates
  BY DEF RowStates, Dropped, Used, Unchecked, Unverified, Unused
<1>3. "none" \in RowStates /\ "ok" \in RowStates
  BY DEF RowStates
<1> QED
  BY <1>1, <1>2, <1>3 DEF Parsed

LEMMA ChangeTypes ==
    ASSUME PoolOK, NEW t \in Tx, NEW row \in RowStates, ChangeRow(t, row)
    PROVE  trans' \in [Tx -> RowStates]
BY DEF PoolOK, ChangeRow

LEMMA ParserTypes ==
    ASSUME PoolOK, NEW txs, TxParser(txs)
    PROVE  PoolOK'
<1>1. queue' \subseteq Tx
  BY DEF TxParser, PoolOK
<1>2. \A t \in Tx : (IF t \in txs THEN Parsed(t, trans[t]) ELSE trans[t]) \in RowStates
  BY RowStatesKept
<1>3. trans' = [t \in Tx |-> IF t \in txs THEN Parsed(t, trans[t]) ELSE trans[t]]
  BY DEF TxParser
<1>4. trans' \in [Tx -> RowStates]
  BY <1>2, <1>3
<1> QED
  BY <1>1, <1>4 DEF PoolOK

LEMMA QueueTypes ==
    ASSUME PoolOK, ParseQueue
    PROVE  PoolOK'
<1>1. PICK looped \in SUBSET (NewTxs \ queue) :
          LET row(t) == IF t \in looped THEN "none" ELSE trans[t]
              seen == queue \cup (NewTxs \ looped) IN
          trans' = [t \in Tx |-> IF t \in seen THEN Parsed(t, row(t)) ELSE row(t)]
  BY DEF ParseQueue
<1> DEFINE row(t) == IF t \in looped THEN "none" ELSE trans[t]
           seen == queue \cup (NewTxs \ looped)
<1>2. \A t \in Tx : row(t) \in RowStates /\ Parsed(t, row(t)) \in RowStates
  BY RowStatesKept
<1>3. trans' = [t \in Tx |-> IF t \in seen THEN Parsed(t, row(t)) ELSE row(t)]
  BY <1>1
<1> HIDE DEF row, seen
<1>4. trans' \in [Tx -> RowStates]
  BY <1>2, <1>3
<1>5. queue' = {}
  BY DEF ParseQueue
<1> QED
  BY <1>4, <1>5 DEF PoolOK

LEMMA UnverifyTypes ==
    ASSUME PoolOK, UnverifyAll
    PROVE  trans' \in [Tx -> RowStates]
<1>1. \A t \in Tx : Unverified(trans[t]) \in RowStates
  BY RowStatesKept
<1> QED
  BY <1>1 DEF UnverifyAll

LEMMA GetBlocksPool ==
    ASSUME PoolOK, NEW host, NEW id, NEW limit, GetBlocks(host, id, limit), queue' = queue
    PROVE  PoolOK'
<1>1. UNCHANGED trans \/ UnverifyAll
  BY DEF GetBlocks
<1> QED
  BY <1>1, UnverifyTypes DEF PoolOK

LEMMA HeaderPool ==
    ASSUME PoolOK, CheckHeader
    PROVE  PoolOK'
<1>1. \A t \in Tx : Unused(trans[t]) \in RowStates
  BY RowStatesKept
<1>2. trans' = trans \/ trans' = [t \in Tx |-> Unused(trans[t])]
  BY DEF CheckHeader
<1>3. trans' \in [Tx -> RowStates]
  BY <1>1, <1>2 DEF PoolOK
<1> QED
  BY <1>3 DEF PoolOK, CheckHeader

LEMMA RefusedPool ==
    ASSUME PoolOK, BlockRefused
    PROVE  PoolOK'
<1>1. \A t \in Tx : (IF t = job.hash THEN Dropped(trans[t]) ELSE trans[t]) \in RowStates
  BY RowStatesKept
<1>2. /\ trans' = [t \in Tx |-> IF t = job.hash THEN Dropped(trans[t]) ELSE trans[t]]
      /\ queue' = queue \ {job.hash}
  BY DEF BlockRefused, BlockError
<1>3. trans' \in [Tx -> RowStates]
  BY <1>1, <1>2
<1> QED
  BY <1>2, <1>3 DEF PoolOK

LEMMA TxPool ==
    ASSUME PoolOK, JobOK, MarkTx \/ FrontFails \/ RollbackTo \/ UnlogTx \/ CrashInUnlogTx
    PROVE  PoolOK'
<1>1. CurTx \in Tx
  <2>1. job.step \in AtTxs \cup {"undo"} \/ (job.step = "unlog" /\ job.pos > 0)
    BY DEF MarkTx, FrontFails, RollbackTo, UnlogTx, CrashInUnlogTx, AtTxs
  <2> QED
    BY <2>1, CurTypes
<1>2. \/ ChangeRow(CurTx, Unchecked(trans[CurTx])) \/ ChangeRow(CurTx, Used(trans[CurTx]))
      \/ ChangeRow(CurTx, "none")
  BY DEF MarkTx, FrontFails, RollbackTo, UnlogTx, CrashInUnlogTx, RollbackFront
<1>3. queue' \in {queue, queue \cup {CurTx}, queue \ {CurTx}}
  BY DEF MarkTx, FrontFails, RollbackTo, UnlogTx, CrashInUnlogTx
<1>4. trans' \in [Tx -> RowStates]
  BY <1>1, <1>2, RowStatesKept, ChangeTypes
<1> QED
  BY <1>1, <1>3, <1>4 DEF PoolOK

LEMMA CrashPool ==
    ASSUME PoolOK, JobOK, Crashes
    PROVE  PoolOK'
<1>1. CASE CrashInTxParser
  <2>1. PICK t \in queue \cup NewTxs, row \in {"none", "ok"} :
            \E seen \in SUBSET ((queue \cup NewTxs) \ {t}) :
                /\ trans' = [u \in Tx |-> IF u = t THEN row
                                 ELSE IF u \in seen THEN Parsed(u, trans[u])
                                 ELSE trans[u]]
                /\ queue' = queue \ seen
    BY <1>1 DEF CrashInTxParser
  <2>2. PICK seen \in SUBSET ((queue \cup NewTxs) \ {t}) :
            /\ trans' = [u \in Tx |-> IF u = t THEN row
                             ELSE IF u \in seen THEN Parsed(u, trans[u])
                             ELSE trans[u]]
            /\ queue' = queue \ seen
    BY <2>1
  <2>3. \A u \in Tx : trans[u] \in RowStates /\ Parsed(u, trans[u]) \in RowStates
    BY RowStatesKept
  <2>4. row \in RowStates
    BY DEF RowStates
  <2>5. trans' \in [Tx -> RowStates]
    BY <2>2, <2>3, <2>4
  <2> QED
    BY <2>2, <2>5 DEF PoolOK
<1>2. CASE Crash \/ CrashInExecTx \/ CrashInUndo \/ CrashInInsert \/ CrashInBlockError
  <2>1. trans' = trans /\ queue' \subseteq queue
    BY <1>2 DEF Crash, CrashInExecTx, CrashInUndo, CrashInInsert, CrashInBlockError, poolVars
  <2> QED
    BY <2>1 DEF PoolOK
<1> QED
  BY <1>1, <1>2, TxPool DEF Crashes

LEMMA PoolTypes ==
    ASSUME PoolOK, JobOK, [Next]_vars
    PROVE  PoolOK'
<1>1. CASE \E t \in Tx : Submit(t) \/ UpdFullNodes(t)
  <2>1. PICK t \in Tx : Submit(t) \/ UpdFullNodes(t)
    BY <1>1
  <2>2. CASE Submit(t)
    BY <2>2 DEF Submit, PoolOK
  <2>3. CASE UpdFullNodes(t)
    BY <2>3, ParserTypes DEF UpdFullNodes
  <2> QED
    BY <2>1, <2>2, <2>3
<1>2. CASE StartJob
  <2>1. CASE \E host \in PeerChains : StartCollect(host)
    BY <2>1 DEF StartCollect, poolVars, PoolOK
  <2>2. CASE \E host \in PeerChains : \E id \in 2 .. Len(host) : ParseBlockQueue(host, id)
    BY <2>2, GetBlocksPool DEF ParseBlockQueue
  <2>3. CASE StartGenerate
    BY <2>3, ParserTypes DEF StartGenerate, AllTxParser
  <2>4. CASE \E id \in Ids : StartReset(id)
    BY <2>4, UnverifyTypes DEF StartReset, PoolOK
  <2> QED
    BY <1>2, <2>1, <2>2, <2>3, <2>4 DEF StartJob
<1>3. CASE CollectNext
  <2>1. queue' = queue /\ (UnverifyAll \/ GetBlocks(job.host, job.at - 1, RB2))
    BY <1>3 DEF CollectNext
  <2> QED
    BY <2>1, UnverifyTypes, GetBlocksPool DEF PoolOK
<1>4. CASE StopCollect \/ FormBlock \/ ExecTx \/ InitFails \/ MainFails \/ LogTx \/ UpdBlockInfo
           \/ InsertIntoBlockchain \/ UndoTx \/ UndoneBlock \/ ResetInfo
  BY <1>4 DEF StopCollect, FormBlock, ExecTx, InitFails, MainFails, LogTx, UpdBlockInfo,
              InsertIntoBlockchain, UndoTx, UndoneBlock, ResetInfo, poolVars, PoolOK
<1>5. CASE ApplyFork \/ DropOwn \/ CommitInfo \/ CommitRow \/ Committed
           \/ ForkPanics \/ UndoFork \/ RestoreOwn \/ RestoreInfo \/ RestoreFails
  BY <1>5 DEF ApplyFork, DropOwn, CommitInfo, CommitRow, Committed, ForkPanics, UndoFork,
              RestoreOwn, RestoreInfo, RestoreFails, poolVars, PoolOK
<1>6. CASE UNCHANGED vars
  BY <1>6 DEF vars, poolVars, PoolOK
<1> QED
  BY <1>1, <1>2, <1>3, <1>4, <1>5, <1>6, QueueTypes, HeaderPool, RefusedPool, TxPool, CrashPool
     DEF Next, JobStep

LEMMA KeepTypes ==
    ASSUME LedgerOK, NEW kept \in SUBSET DOMAIN ledger, Keep(kept)
    PROVE  ledger' \in Seq(Effects)
<1> DEFINE n == Cardinality(kept)
<1>1. Len(ledger) \in Nat /\ DOMAIN ledger = 1 .. Len(ledger)
      /\ \A i \in 1 .. Len(ledger) : ledger[i] \in Effects
  BY LenProperties, ElementOfSeq DEF LedgerOK
<1>2. kept \in SUBSET (1 .. Len(ledger))
  BY <1>1
<1>3. ledger' = [k \in 1 .. n |-> ledger[Nth(kept, k)]]
  BY DEF Keep
<1>4. n \in Nat /\ \A k \in 1 .. n : Nth(kept, k) \in kept
  BY <1>1, <1>2, NthFacts
<1> HIDE DEF n
<1>5. ledger' \in [1 .. n -> Effects]
  BY <1>1, <1>2, <1>3, <1>4
<1> QED
  BY <1>4, <1>5, FunFacts

LEMMA UndoTypes ==
    ASSUME LedgerOK, NEW t, NEW incident, Undo(t, incident)
    PROVE  ledger' \in Seq(Effects)
<1>1. Others(t) \in SUBSET DOMAIN ledger
  BY DEF Others
<1> QED
  BY <1>1, KeepTypes DEF Undo

LEMMA ApplyTypes ==
    ASSUME LedgerOK, NEW t \in Tx, NEW part \in Parts, Apply(t, part)
    PROVE  ledger' \in Seq(Effects)
<1>1. [tx |-> t, part |-> part] \in Effects
  BY DEF Effects
<1> QED
  BY <1>1, AppendProperties DEF Apply, LedgerOK

LEMMA TearTypes ==
    ASSUME LedgerOK, NEW t \in Tx, Tear(t)
    PROVE  ledger' \in Seq(Effects)
<1>1. Len(ledger) \in Nat /\ DOMAIN ledger = 1 .. Len(ledger)
      /\ \A i \in 1 .. Len(ledger) : ledger[i] \in Effects
  BY LenProperties, ElementOfSeq DEF LedgerOK
<1>2. PICK i \in SUBSET Whole :
          ledger' = [k \in DOMAIN ledger |->
              IF ledger[k].tx # t THEN ledger[k]
              ELSE [tx |-> t, part |-> IF k \in i THEN "tornAll" ELSE "tornSome"]]
  BY DEF Tear
<1>3. /\ [tx |-> t, part |-> "tornAll"] \in Effects
      /\ [tx |-> t, part |-> "tornSome"] \in Effects
  BY DEF Effects, Parts
<1>4. ledger' \in [1 .. Len(ledger) -> Effects]
  BY <1>1, <1>2, <1>3
<1> QED
  BY <1>1, <1>4, FunFacts

LEMMA LedgerTypes ==
    ASSUME LedgerOK, JobOK, [Next]_vars
    PROVE  LedgerOK'
<1>1. CASE ExecTx \/ InitFails \/ MainFails
  <2>1. job.step = "exec" /\ logTx' = logTx /\ (Apply(CurTx, "all") \/ Apply(CurTx, "some"))
    BY <1>1 DEF ExecTx, InitFails, MainFails
  <2>2. CurTx \in Tx
    BY <2>1, CurTypes DEF AtTxs
  <2>3. "all" \in Parts /\ "some" \in Parts
    BY DEF Parts
  <2> QED
    BY <2>1, <2>2, <2>3, ApplyTypes DEF LedgerOK
<1>2. CASE RollbackTo \/ UndoTx
  <2>1. logTx' = logTx /\ \E incident : Undo(CurTx, incident)
    BY <1>2 DEF RollbackTo, UndoTx
  <2> QED
    BY <2>1, UndoTypes DEF LedgerOK
<1>3. CASE LogTx
  <2>1. CurTx \in Tx
    BY <1>3, CurTypes DEF LogTx, AtTxs
  <2> QED
    BY <1>3, <2>1 DEF LogTx, LedgerOK
<1>4. CASE UnlogTx
  BY <1>4 DEF UnlogTx, LedgerOK
<1>5. CASE StartJob \/ ParseQueue \/ UNCHANGED vars \/ \E t \in Tx : Submit(t) \/ UpdFullNodes(t)
  BY <1>5 DEF StartJob, StartCollect, ParseBlockQueue, StartGenerate, StartReset, ParseQueue,
              vars, Submit, UpdFullNodes, LedgerOK
<1>6. CASE CollectNext \/ StopCollect \/ FormBlock \/ CheckHeader \/ MarkTx \/ FrontFails
           \/ UpdBlockInfo \/ InsertIntoBlockchain \/ UndoneBlock \/ ResetInfo \/ BlockRefused
  BY <1>6 DEF CollectNext, StopCollect, FormBlock, CheckHeader, MarkTx, FrontFails, UpdBlockInfo,
              InsertIntoBlockchain, UndoneBlock, ResetInfo, BlockRefused, LedgerOK
<1>7. CASE ApplyFork \/ DropOwn \/ CommitInfo \/ CommitRow \/ Committed
           \/ ForkPanics \/ UndoFork \/ RestoreOwn \/ RestoreInfo \/ RestoreFails
  BY <1>7 DEF ApplyFork, DropOwn, CommitInfo, CommitRow, Committed, ForkPanics, UndoFork,
              RestoreOwn, RestoreInfo, RestoreFails, LedgerOK
<1>8. CASE Crashes
  <2>1. CASE CrashInExecTx
    <3>1. PICK part \in Parts : Apply(CurTx, part)
      BY <2>1 DEF CrashInExecTx
    <3>2. CurTx \in Tx /\ logTx' = logTx
      BY <2>1, CurTypes DEF CrashInExecTx, AtTxs
    <3> QED
      BY <3>1, <3>2, ApplyTypes DEF LedgerOK
  <2>2. CASE CrashInUndo
    <3>1. CurTx \in Tx /\ logTx' = logTx /\ (Tear(CurTx) \/ Undo(CurTx, {"crash"}))
      BY <2>2, CurTypes DEF CrashInUndo, AtTxs
    <3> QED
      BY <3>1, TearTypes, UndoTypes DEF LedgerOK
  <2>3. CASE Crash \/ CrashInUnlogTx \/ CrashInInsert \/ CrashInBlockError \/ CrashInTxParser
    BY <2>3 DEF Crash, CrashInUnlogTx, CrashInInsert, CrashInBlockError, CrashInTxParser, LedgerOK
  <2> QED
    BY <1>8, <2>1, <2>2, <2>3 DEF Crashes
<1> QED
  BY <1>1, <1>2, <1>3, <1>4, <1>5, <1>6, <1>7, <1>8 DEF Next, JobStep

LEMMA RunTypes ==
    ASSUME RunOK, [Next]_vars
    PROVE  RunOK'
<1>1. CASE StartJob
  BY <1>1 DEF StartJob, StartCollect, ParseBlockQueue, StartGenerate, StartReset, runVars, RunOK
<1>2. CASE CollectNext \/ StopCollect \/ FormBlock \/ CheckHeader \/ UpdBlockInfo
           \/ InsertIntoBlockchain \/ BlockRefused \/ UnlogTx \/ UndoTx \/ UndoneBlock \/ ResetInfo
  BY <1>2 DEF CollectNext, StopCollect, FormBlock, CheckHeader, UpdBlockInfo, InsertIntoBlockchain,
              BlockRefused, UnlogTx, UndoTx, Undo, UndoneBlock, ResetInfo, runVars, RunOK
<1>3. CASE MarkTx \/ ExecTx \/ FrontFails \/ InitFails \/ MainFails \/ RollbackTo \/ LogTx
  BY <1>3 DEF MarkTx, ExecTx, FrontFails, InitFails, MainFails, RollbackTo, LogTx,
              RollbackFront, RecordStop, Undo, runVars, RunOK
<1>4. CASE ApplyFork \/ DropOwn \/ CommitInfo \/ CommitRow \/ Committed
           \/ ForkPanics \/ UndoFork \/ RestoreOwn \/ RestoreInfo \/ RestoreFails
  BY <1>4 DEF ApplyFork, DropOwn, CommitInfo, CommitRow, Committed, ForkPanics, UndoFork,
              RestoreOwn, RestoreInfo, RestoreFails, runVars, RunOK
<1>5. CASE Crashes
  <2>1. crashes' \in Nat
    BY <1>5, CrashIncidents DEF RunOK
  <2>2. incidents' \subseteq incidents \cup {"crash", "mixed"}
    BY <1>5, CrashIncidents
  <2> QED
    BY <2>1, <2>2 DEF RunOK
<1>6. CASE ParseQueue \/ UNCHANGED vars \/ \E t \in Tx : Submit(t) \/ UpdFullNodes(t)
  BY <1>6 DEF ParseQueue, vars, Submit, UpdFullNodes, runVars, RunOK
<1> QED
  BY <1>1, <1>2, <1>3, <1>4, <1>5, <1>6 DEF Next, JobStep

-----------------------------------------------------------------------------
(* The job.                                                                *)

LEMMA NoJobTypes ==
    NoJob \in JobRecords /\ HostOK(NoJob) /\ PlaceOK(NoJob) /\ NoJob.mode = "none"
<1>1. <<>> \in Seq(Blocks) /\ <<>> \in Seq(Payloads)
  OBVIOUS
<1>2. NoJob \in JobRecords
  BY <1>1 DEF NoJob, JobRecords, Modes, Steps, Chains, Hashes
<1> QED
  BY <1>2 DEF NoJob, HostOK, PlaceOK, ForkModes, AtTxs, UndoSteps, AddModes

LEMMA NoneOK ==
    ASSUME job' = NoJob
    PROVE  JobOK'
BY NoJobTypes DEF JobOK, ResetOK

LEMMA BeginTypes ==
    ASSUME job \in JobRecords, NEW mode \in Modes, NEW step \in Steps, NEW todo \in Seq(Blocks)
    PROVE  Begin(mode, step, todo) \in JobRecords
BY DEF Begin, JobRecords

LEMMA BeginUndoTypes ==
    ASSUME job \in JobRecords, NEW mode \in Modes, NEW todo \in Seq(Blocks)
    PROVE  /\ BeginUndo(mode, todo) \in JobRecords
           /\ LET b == BeginUndo(mode, todo) IN
                  b.pos \in 0 .. IF todo = <<>> THEN 0 ELSE Len(Txs(Head(todo)))
<1> DEFINE pos == IF todo = <<>> THEN 0 ELSE Len(Txs(Head(todo)))
           b == Begin(mode, "unlog", todo)
<1>1. pos \in Nat
  BY TodoTypes, BlockTypes
<1>2. b \in JobRecords
  BY BeginTypes DEF Steps
<1>3. BeginUndo(mode, todo) = [b EXCEPT !.pos = pos]
  BY DEF BeginUndo
<1> HIDE DEF pos, b
<1>4. BeginUndo(mode, todo) \in JobRecords /\ BeginUndo(mode, todo).pos = pos
  BY <1>1, <1>2, <1>3 DEF JobRecords
<1> QED
  BY <1>1, <1>4 DEF pos

LEMMA RecordsAreJobs == \A j \in JobRecords : IsJob(j)
BY DEF JobRecords, IsJob, JobFields

(* A step that goes on with the same blocks, or with those after the first.*)
LEMMA StaysOK ==
    ASSUME JobOK, job' \in JobRecords, PlaceOK(job'),
           job'.mode = job.mode, job'.host = job.host, job'.at = job.at, job'.base = job.base,
           (rows' = rows /\ job'.todo = job.todo) \/ job.mode # "reset"
    PROVE  JobOK'
<1>1. HostOK(job')
  BY DEF JobOK, HostOK
<1>2. ResetOK'
  BY DEF JobOK, ResetOK
<1> QED
  BY <1>1, <1>2 DEF JobOK

LEMMA TaskOK ==
    ASSUME JobOK, SameTask, job' \in JobRecords, PlaceOK(job')
    PROVE  JobOK'
BY StaysOK DEF SameTask

LEMMA HashTypes ==
    ASSUME JobOK, job.step \in AtTxs
    PROVE  CurTx \in Hashes /\ HashAfterRollback \in Hashes
BY CurTypes DEF Hashes, HashAfterRollback

(* Applying the transactions of a block.                                   *)
LEMMA WithinOK ==
    ASSUME JobOK, MarkTx \/ ExecTx \/ FrontFails \/ InitFails \/ MainFails \/ RollbackTo \/ LogTx
    PROVE  JobOK'
<1>1. /\ job \in JobRecords /\ IsJob(job) /\ job.step \in AtTxs /\ job.todo # <<>>
      /\ job.pos \in 1 .. Len(Txs(Cur)) /\ Len(Txs(Cur)) \in Nat /\ job.todo \in Seq(Blocks)
  <2>1. job.step \in AtTxs
    BY DEF MarkTx, ExecTx, FrontFails, InitFails, MainFails, RollbackTo, LogTx, AtTxs
  <2> QED
    BY <2>1, CurTypes, BlockTypes DEF JobOK, JobRecords
<1>2. SameTask
  BY <1>1, WithinSteps
<1>3. CurTx \in Hashes /\ HashAfterRollback \in Hashes
  BY <1>1, HashTypes
<1>4. ASSUME NEW step \in AtTxs \cup {"error", "info"},
             \/ job' = [job EXCEPT !.step = step]
             \/ \E hash \in Hashes : job' = [job EXCEPT !.step = step, !.hash = hash]
             \/ \E pos \in 1 .. Len(Txs(Cur)) : job' = [job EXCEPT !.step = step, !.pos = pos]
      PROVE  JobOK'
  <2>1. step \in Steps /\ step \notin {"unlog", "undo", "row"}
    BY DEF AtTxs, Steps
  <2>2. /\ job' \in JobRecords /\ job'.step = step /\ job'.todo = job.todo
        /\ job'.pos \in 1 .. Len(Txs(Cur))
    <3>1. CASE job' = [job EXCEPT !.step = step]
      BY <1>1, <2>1, <3>1 DEF JobRecords
    <3>2. CASE \E hash \in Hashes : job' = [job EXCEPT !.step = step, !.hash = hash]
      BY <1>1, <2>1, <3>2 DEF JobRecords
    <3>3. ASSUME NEW pos \in 1 .. Len(Txs(Cur)), job' = [job EXCEPT !.step = step, !.pos = pos]
          PROVE  /\ job' \in JobRecords /\ job'.step = step /\ job'.todo = job.todo
                 /\ job'.pos \in 1 .. Len(Txs(Cur))
      <4>1. pos \in Nat
        BY <1>1, <3>3
      <4> QED
        BY <1>1, <2>1, <3>3, <4>1 DEF JobRecords
    <3> QED
      BY <1>4, <3>1, <3>2, <3>3
  <2>3. PlaceOK(job')
    BY <1>1, <1>2, <2>1, <2>2 DEF PlaceOK, Cur, JobOK, SameTask, UndoSteps
  <2> QED
    BY <1>2, <2>2, <2>3, TaskOK
<1>5. CASE MarkTx \/ FrontFails \/ RollbackTo
  <2>1. \/ job' = [job EXCEPT !.step = "exec", !.hash = CurTx]
        \/ job' = [job EXCEPT !.step = "error", !.hash = HashAfterRollback]
    BY <1>5 DEF MarkTx, FrontFails, RollbackTo, RollbackFront
  <2> QED
    BY <1>3, <1>4, <2>1 DEF AtTxs
<1>6. CASE ExecTx \/ InitFails \/ MainFails
  BY <1>4, <1>6 DEF ExecTx, InitFails, MainFails, AtTxs
<1>7. CASE LogTx
  <2>1. CASE job.pos < Len(Txs(Cur))
    <3>1. job.pos + 1 \in 1 .. Len(Txs(Cur))
      BY <1>1, <2>1
    <3>2. job' = [job EXCEPT !.step = "mark", !.pos = job.pos + 1]
      BY <1>7, <2>1 DEF LogTx
    <3> QED
      BY <1>4, <3>1, <3>2 DEF AtTxs
  <2>2. CASE ~ (job.pos < Len(Txs(Cur)))
    BY <1>4, <1>7, <2>2 DEF LogTx
  <2> QED
    BY <2>1, <2>2
<1> QED
  BY <1>5, <1>6, <1>7

LEMMA HeaderOK ==
    ASSUME JobOK, CheckHeader
    PROVE  JobOK'
<1>1. /\ job \in JobRecords /\ IsJob(job) /\ job.todo # <<>> /\ Cur \in Blocks /\ rows' = rows
  BY CurTypes DEF JobOK, CheckHeader, chainVars
<1>2. CASE ~ GoodHeader(Cur)
  <2>1. job' = [job EXCEPT !.step = "error"]
    BY <1>2 DEF CheckHeader
  <2>2. /\ job' \in JobRecords /\ job'.step = "error" /\ job'.todo = job.todo
        /\ job'.mode = job.mode /\ job'.host = job.host /\ job'.at = job.at /\ job'.base = job.base
    BY <1>1, <2>1 DEF JobRecords, Steps
  <2>3. PlaceOK(job')
    BY <1>1, <2>2 DEF PlaceOK, AtTxs, JobOK, UndoSteps
  <2> QED
    BY <1>1, <2>2, <2>3, StaysOK
<1>3. CASE GoodHeader(Cur)
  <2> DEFINE step == IF Txs(Cur) = <<>> THEN "info" ELSE "mark"
  <2>1. job' = [job EXCEPT !.pos = 1, !.step = step]
    BY <1>3 DEF CheckHeader
  <2>2. step \in {"info", "mark"} /\ (step = "mark" => 1 \in 1 .. Len(Txs(Cur)))
    BY <1>1, BlockTypes
  <2> HIDE DEF step
  <2>3. /\ job' \in JobRecords /\ job'.step = step /\ job'.todo = job.todo /\ job'.pos = 1
        /\ job'.mode = job.mode /\ job'.host = job.host /\ job'.at = job.at /\ job'.base = job.base
    BY <1>1, <2>1, <2>2 DEF JobRecords, Steps
  <2>4. PlaceOK(job')
    BY <1>1, <2>2, <2>3 DEF PlaceOK, AtTxs, Cur, JobOK, UndoSteps
  <2> QED
    BY <1>1, <2>3, <2>4, StaysOK
<1> QED
  BY <1>2, <1>3

LEMMA UndoingOK ==
    ASSUME JobOK, UnlogTx \/ UndoTx
    PROVE  JobOK'
<1>1. job \in JobRecords /\ IsJob(job) /\ SameTask /\ job.step \in UndoSteps
  BY CurTypes, UndoingSteps DEF JobOK
<1>2. /\ CurTx \in Hashes /\ job.todo # <<>> /\ job.pos \in 1 .. Len(Txs(Cur))
      /\ Len(Txs(Cur)) \in Nat
  <2>1. job.step = "undo" \/ (job.step = "unlog" /\ job.pos > 0)
    BY DEF UnlogTx, UndoTx
  <2> QED
    BY <2>1, CurTypes, BlockTypes DEF Hashes
<1>3. CASE UnlogTx
  <2>1. /\ job' \in JobRecords /\ job'.step = "undo" /\ job'.todo = job.todo /\ job'.pos = job.pos
    BY <1>1, <1>2, <1>3 DEF UnlogTx, JobRecords, Steps
  <2>2. PlaceOK(job')
    BY <1>1, <1>2, <2>1 DEF PlaceOK, AtTxs, Cur, JobOK, SameTask
  <2> QED
    BY <1>1, <2>1, <2>2, TaskOK
<1>4. CASE UndoTx
  <2>1. job.pos - 1 \in 0 .. Len(Txs(Cur)) /\ job.pos - 1 \in Nat
    BY <1>2
  <2>2. /\ job' \in JobRecords /\ job'.step = "unlog" /\ job'.todo = job.todo
        /\ job'.pos = job.pos - 1
    BY <1>1, <1>4, <2>1 DEF UndoTx, JobRecords, Steps
  <2>3. PlaceOK(job')
    BY <1>1, <1>2, <2>1, <2>2 DEF PlaceOK, AtTxs, Cur, JobOK, SameTask
  <2> QED
    BY <1>1, <2>2, <2>3, TaskOK
<1> QED
  BY <1>3, <1>4

(* Going on with the next block, or with the other table.                  *)
LEMMA NextBlockOK ==
    ASSUME JobOK, UpdBlockInfo \/ CommitInfo \/ CommitRow
    PROVE  JobOK'
<1>1. /\ job \in JobRecords /\ job.todo \in Seq(Blocks) /\ job.mode # "reset" /\ job.todo # <<>>
  BY DEF JobOK, JobRecords, PlaceOK, UpdBlockInfo, CommitInfo, CommitRow, At, ApplyModes
<1>2. Tail(job.todo) \in Seq(Blocks)
  BY <1>1, TodoTypes
<1>3. ASSUME NEW step \in {"row", "header", "info"}, NEW todo \in Seq(Blocks),
             step = "row" => todo # <<>>, todo = job.todo \/ job.mode \notin AddModes,
             job' = [job EXCEPT !.step = step, !.todo = todo]
      PROVE  JobOK'
  <2>1. /\ job' \in JobRecords /\ job'.step = step /\ job'.todo = todo
        /\ job'.mode = job.mode /\ job'.host = job.host /\ job'.at = job.at /\ job'.base = job.base
    BY <1>1, <1>3 DEF JobRecords, Steps
  <2>2. PlaceOK(job')
    BY <1>3, <2>1 DEF PlaceOK, AtTxs, JobOK, UndoSteps
  <2> QED
    BY <1>1, <2>1, <2>2, StaysOK
<1>4. CASE UpdBlockInfo \/ CommitInfo
  <2>1. \/ job' = [job EXCEPT !.step = "row"]
        \/ /\ job' = [job EXCEPT !.step = "header", !.todo = Tail(job.todo)]
           /\ job.mode \notin AddModes
    BY <1>4 DEF UpdBlockInfo, CommitInfo, AddModes
  <2>2. [job EXCEPT !.step = "row"] = [job EXCEPT !.step = "row", !.todo = job.todo]
    BY <1>1 DEF JobRecords
  <2> QED
    BY <1>1, <1>2, <1>3, <2>1, <2>2
<1>5. CASE CommitRow
  BY <1>2, <1>3, <1>5 DEF CommitRow, At, AddModes
<1> QED
  BY <1>4, <1>5

(* A job, or a part of it, that begins.                                    *)
LEMMA BegunOK ==
    ASSUME JobOK, NEW mode \in Modes, NEW step \in {"form", "header", "info"},
           NEW todo \in Seq(Blocks), job' = Begin(mode, step, todo),
           mode \notin {"none", "loop", "reset"},
           mode = "collect" => job.host \in PeerChains,
           mode \in ForkModes \cup {"commit"} => job.mode \in ForkModes,
           mode \in AddModes /\ todo # <<>> => Len(Head(todo)) > 1
    PROVE  JobOK'
<1>1. /\ job' \in JobRecords /\ job'.mode = mode /\ job'.step = step /\ job'.host = job.host
      /\ job'.at = job.at /\ job'.base = job.base /\ job'.todo = todo
  <2>1. job \in JobRecords /\ IsJob(job) /\ step \in Steps
    BY CurTypes DEF JobOK, Steps
  <2>2. Begin(mode, step, todo) \in JobRecords
    BY <2>1, BeginTypes
  <2> QED
    BY <2>1, <2>2, BeginKeeps
<1>2. HostOK(job')
  BY <1>1 DEF JobOK, HostOK, ForkModes
<1>3. PlaceOK(job') /\ ResetOK'
  BY <1>1 DEF PlaceOK, AtTxs, ResetOK, UndoSteps
<1> QED
  BY <1>1, <1>2, <1>3 DEF JobOK

LEMMA BegunUndoOK ==
    ASSUME JobOK, NEW mode \in Modes, NEW todo \in Seq(Blocks), job' = BeginUndo(mode, todo),
           mode \notin AddModes,
           mode = job.mode \/ (mode = "undoNew" /\ job.mode \in ForkModes),
           mode = "reset" => /\ \A i \in 1 .. Len(todo) : Len(todo[i]) > job.at
                             /\ rows'[job.at] = rows[job.at]
    PROVE  JobOK'
<1>1. /\ job' \in JobRecords /\ job'.mode = mode /\ job'.step = "unlog" /\ job'.host = job.host
      /\ job'.at = job.at /\ job'.base = job.base /\ job'.todo = todo
      /\ job'.pos \in 0 .. IF todo = <<>> THEN 0 ELSE Len(Txs(Head(todo)))
  BY CurTypes, BeginUndoTypes, BeginUndoKeeps DEF JobOK
<1>2. HostOK(job')
  BY <1>1 DEF JobOK, HostOK, ForkModes
<1>3. PlaceOK(job')
  BY <1>1 DEF PlaceOK, AtTxs
<1>4. ResetOK'
  BY <1>1 DEF JobOK, ResetOK
<1> QED
  BY <1>1, <1>2, <1>3, <1>4 DEF JobOK

(* GetBlocks begins to replace own blocks, or nothing.                     *)
LEMMA GetBlocksOK ==
    ASSUME RowsOK, JobOK, NEW host \in PeerChains, NEW id \in Nat, id <= Len(host),
           NEW limit, GetBlocks(host, id, limit),
           job.host # <<>> => job.host \in PeerChains /\ job.at \in 2 .. Len(job.host)
    PROVE  JobOK'
<1> DEFINE T == ForkPoints(host, id)
           k == Max(T)
           todo == Reverse(StoredAbove(k - 1))
           base == Upto(host, k - 1)
           new == Upto(host, id)
<1>1. CASE job' = NoJob
  BY <1>1, NoneOK
<1>2. CASE job' # NoJob
  <2>1. /\ T # {}
        /\ job' = [BeginUndo("undoOwn", todo) EXCEPT
                       !.base = base, !.new = new, !.hash = NoTx, !.kept = job.hash]
    BY <1>2 DEF GetBlocks
  <2>2. k \in 2 .. id
    <3>1. T \in SUBSET (0 .. id)
      BY DEF ForkPoints
    <3>2. k \in T
      BY <2>1, <3>1, Greatest
    <3> QED
      BY <3>2 DEF ForkPoints
  <2>3. k - 1 \in 1 .. Len(host) /\ id \in 1 .. Len(host) /\ k - 1 >= 1
    BY <2>2, PeerTypes
  <2>4. base \in Chains /\ Len(base) >= 1 /\ new \in Chains
    BY <2>3, PeerTypes DEF Blocks
  <2>5. todo \in Seq(Blocks)
    BY AboveTypes
  <2>6. job \in JobRecords /\ job.hash \in Hashes /\ NoTx \in Hashes /\ "undoOwn" \in Modes
    BY DEF JobOK, JobRecords, Hashes, Modes, UndoModes
  <2> DEFINE b == BeginUndo("undoOwn", todo)
  <2>7. /\ b \in JobRecords /\ b.mode = "undoOwn" /\ b.step = "unlog" /\ b.todo = todo
        /\ b.host = job.host /\ b.at = job.at
        /\ b.pos \in 0 .. IF todo = <<>> THEN 0 ELSE Len(Txs(Head(todo)))
    BY <2>5, <2>6, CurTypes, BeginUndoTypes, BeginUndoKeeps
  <2> HIDE DEF T, k, todo, base, new, b
  <2>8. /\ job' \in JobRecords /\ job'.mode = "undoOwn" /\ job'.step = "unlog" /\ job'.todo = todo
        /\ job'.host = job.host /\ job'.at = job.at /\ job'.base = base
        /\ job'.pos \in 0 .. IF todo = <<>> THEN 0 ELSE Len(Txs(Head(todo)))
    BY <2>1, <2>4, <2>6, <2>7 DEF b, JobRecords
  <2>9. HostOK(job')
    BY <2>4, <2>8 DEF HostOK
  <2>10. PlaceOK(job') /\ ResetOK'
    BY <2>8 DEF PlaceOK, AtTxs, ResetOK, AddModes
  <2> QED
    BY <2>8, <2>9, <2>10 DEF JobOK
<1> QED
  BY <1>1, <1>2

LEMMA CollectOK ==
    ASSUME RowsOK, InfoOK, JobOK,
           \/ \E host \in PeerChains : StartCollect(host)
           \/ \E host \in PeerChains : \E id \in 2 .. Len(host) : ParseBlockQueue(host, id)
           \/ CollectNext \/ StopCollect
    PROVE  JobOK'
<1>1. ASSUME NEW host \in PeerChains, StartCollect(host)
      PROVE  JobOK'
  <2>1. Len(info.blk) + 1 \in Nat /\ Len(info.blk) + 1 >= 2
    BY BlockLength DEF InfoOK
  <2>2. job' = [NoJob EXCEPT !.mode = "loop", !.host = host, !.at = Len(info.blk) + 1]
    BY <1>1 DEF StartCollect
  <2>3. NoJob \in JobRecords /\ NoJob.step = "" /\ host \in Chains
    BY NoJobTypes, PeerTypes DEF NoJob
  <2> HIDE DEF NoJob
  <2>4. /\ job' \in JobRecords /\ job'.mode = "loop" /\ job'.step = "" /\ job'.host = host
        /\ job'.at >= 2
    BY <2>1, <2>2, <2>3 DEF JobRecords, Modes
  <2>5. HostOK(job') /\ PlaceOK(job') /\ ResetOK'
    BY <2>4 DEF HostOK, PlaceOK, ResetOK, AtTxs, ForkModes, AddModes, UndoSteps
  <2> QED
    BY <2>4, <2>5 DEF JobOK
<1>2. ASSUME NEW host \in PeerChains, NEW id \in 2 .. Len(host), ParseBlockQueue(host, id)
      PROVE  JobOK'
  <2>1. id \in Nat /\ id <= Len(host)
    BY PeerTypes
  <2>2. GetBlocks(host, id, RB1) /\ job.host = <<>>
    BY <1>2 DEF ParseBlockQueue, Idle, JobOK, HostOK
  <2> QED
    BY <2>1, <2>2, GetBlocksOK
<1>3. CASE CollectNext
  <2>1. /\ job \in JobRecords /\ job.mode = "loop" /\ job.host \in PeerChains /\ job.at \in Nat
        /\ job.at >= 2 /\ job.at <= Len(job.host)
    BY <1>3 DEF CollectNext, JobOK, HostOK, JobRecords
  <2>2. /\ Len(job.host) \in Nat /\ job.at \in 1 .. Len(job.host) /\ job.at \in 2 .. Len(job.host)
        /\ job.at - 1 \in Nat /\ job.at - 1 <= Len(job.host)
    BY <2>1, PeerTypes
  <2>3. CASE GetBlocks(job.host, job.at - 1, RB2)
    BY <2>1, <2>2, <2>3, GetBlocksOK
  <2>4. CASE job' = Begin("collect", "header", <<Upto(job.host, job.at)>>)
    <3>1. /\ <<Upto(job.host, job.at)>> \in Seq(Blocks)
          /\ Len(Head(<<Upto(job.host, job.at)>>)) > 1
      BY <2>1, <2>2, PeerTypes
    <3>2. "collect" \in Modes /\ "collect" \notin {"none", "loop", "reset"} \cup ForkModes \cup {"commit"}
      BY DEF Modes, ApplyModes, ForkModes
    <3> QED
      BY <2>1, <2>4, <3>1, <3>2, BegunOK
  <2> QED
    BY <1>3, <2>3, <2>4 DEF CollectNext
<1>4. CASE StopCollect
  BY <1>4, NoneOK DEF StopCollect
<1> QED
  BY <1>1, <1>2, <1>3, <1>4

LEMMA FormsTxs ==
    ASSUME NEW txs \in SetToSeqs({t \in Tx : trans[t] = "ok"})
    PROVE  txs \in Seq(Tx)
<1> DEFINE S == {t \in Tx : trans[t] = "ok"}
<1>1. S \in SUBSET Tx
  OBVIOUS
<1>2. Cardinality(S) \in Nat
  BY <1>1, TxAssumption, FS_Subset, FS_CardinalityType
<1>3. txs \in [1 .. Cardinality(S) -> S]
  BY DEF SetToSeqs
<1> HIDE DEF S
<1>4. txs \in [1 .. Cardinality(S) -> Tx]
  BY <1>1, <1>3
<1> QED
  BY <1>2, <1>4, SeqDef

LEMMA GenerateOK ==
    ASSUME InfoOK, JobOK, StartGenerate \/ FormBlock \/ BlockRefused
    PROVE  JobOK'
<1>1. /\ <<>> \in Seq(Blocks) /\ "generate" \in Modes
      /\ "generate" \notin {"none", "loop", "reset", "collect"} \cup ForkModes \cup {"commit"}
  BY DEF Modes, ApplyModes, ForkModes
<1>2. CASE job' = Begin("generate", "form", <<>>)
  BY <1>1, <1>2, BegunOK
<1>3. CASE FormBlock
  <2>1. PICK txs \in SetToSeqs({t \in Tx : trans[t] = "ok"}) :
            job' = Begin("generate", "header",
                         <<Append(info.blk, [txs |-> txs, by |-> Self, bad |-> FALSE])>>)
    BY <1>3 DEF FormBlock
  <2> DEFINE payload == [txs |-> txs, by |-> Self, bad |-> FALSE]
             blk == Append(info.blk, payload)
  <2>2. payload \in Payloads
    <3>1. txs \in Seq(Tx)
      BY FormsTxs
    <3> QED
      BY <3>1, ChainsAssumption DEF Payloads
  <2>3. info.blk \in Seq(Payloads) /\ Len(info.blk) \in Nat /\ Len(info.blk) >= 1
    BY BlockLength DEF InfoOK, Blocks, Chains
  <2>4. blk \in Seq(Payloads) /\ Len(blk) = Len(info.blk) + 1
    BY <2>2, <2>3, AppendProperties
  <2>5. blk # <<>> /\ Len(blk) > 1
    BY <2>3, <2>4, LenProperties
  <2> HIDE DEF blk, payload
  <2>6. <<blk>> \in Seq(Blocks) /\ Head(<<blk>>) = blk
    BY <2>4, <2>5 DEF Blocks, Chains, NoBlock
  <2>7. job' = Begin("generate", "header", <<blk>>)
    BY <2>1 DEF blk, payload
  <2> QED
    BY <1>1, <2>5, <2>6, <2>7, BegunOK
<1>4. CASE StartGenerate
  BY <1>2, <1>4 DEF StartGenerate
<1>5. CASE BlockRefused
  BY <1>2, <1>5, NoneOK DEF BlockRefused
<1> QED
  BY <1>3, <1>4, <1>5

(* The collector goes on, the generator ends.                              *)
LEMMA StoreOK ==
    ASSUME JobOK, InsertIntoBlockchain
    PROVE  JobOK'
<1>1. /\ job \in JobRecords /\ IsJob(job) /\ Cur \in Blocks
      /\ job.mode \in {"collect", "generate"} /\ job.step = "row"
  BY CurTypes DEF JobOK, PlaceOK, InsertIntoBlockchain
<1>2. CASE job.mode = "generate"
  BY <1>2, NoneOK DEF InsertIntoBlockchain
<1>3. CASE job.mode = "collect"
  <2>1. job' = [Begin("loop", "", <<>>) EXCEPT !.at = Len(Cur) + 1]
    BY <1>3 DEF InsertIntoBlockchain
  <2>2. Len(Cur) + 1 \in Nat /\ Len(Cur) + 1 >= 2
    BY <1>1, BlockLength
  <2> DEFINE b == Begin("loop", "", <<>>)
  <2>3. b \in JobRecords /\ b.mode = "loop" /\ b.step = "" /\ b.host = job.host
    <3>1. "loop" \in Modes /\ "" \in Steps /\ <<>> \in Seq(Blocks)
      BY DEF Modes, Steps
    <3>2. b \in JobRecords
      BY <1>1, <3>1, BeginTypes
    <3>3. b.mode = "loop" /\ b.step = "" /\ b.host = job.host
      BY <1>1 DEF Begin, IsJob, JobFields
    <3> QED
      BY <3>2, <3>3
  <2> HIDE DEF b
  <2>4. /\ job' \in JobRecords /\ job'.mode = "loop" /\ job'.step = "" /\ job'.host = job.host
        /\ job'.at >= 2
    BY <2>1, <2>2, <2>3 DEF b, JobRecords
  <2>5. job.host \in PeerChains
    BY <1>3 DEF JobOK, HostOK
  <2>6. HostOK(job') /\ PlaceOK(job') /\ ResetOK'
    BY <2>4, <2>5 DEF HostOK, PlaceOK, ResetOK, AtTxs, ForkModes, AddModes, UndoSteps
  <2> QED
    BY <2>4, <2>6 DEF JobOK
<1> QED
  BY <1>1, <1>2, <1>3

LEMMA StartResetOK ==
    ASSUME RowsOK, JobOK, NEW id \in Ids, StartReset(id)
    PROVE  JobOK'
<1> DEFINE todo == Reverse(StoredAbove(id))
           b == BeginUndo("reset", todo)
<1>1. /\ job' = [b EXCEPT !.at = id] /\ rows[id] # NoBlock /\ rows' = rows
      /\ job.mode = "none" /\ id \in Nat
  BY BoundsAssumption DEF StartReset, Idle, chainVars, Ids
<1>2. todo \in Seq(Blocks) /\ \A i \in 1 .. Len(todo) : Len(todo[i]) > id
  BY AboveTypes
<1>3. "reset" \in Modes /\ job \in JobRecords /\ IsJob(job)
  BY CurTypes DEF Modes, UndoModes, JobOK
<1>4. /\ b \in JobRecords /\ b.mode = "reset" /\ b.step = "unlog" /\ b.todo = todo
      /\ b.pos \in 0 .. IF todo = <<>> THEN 0 ELSE Len(Txs(Head(todo)))
  BY <1>2, <1>3, BeginUndoTypes, BeginUndoKeeps
<1> HIDE DEF b, todo
<1>5. /\ job' \in JobRecords /\ job'.mode = "reset" /\ job'.step = "unlog" /\ job'.todo = todo
      /\ job'.at = id /\ job'.pos \in 0 .. IF todo = <<>> THEN 0 ELSE Len(Txs(Head(todo)))
  BY <1>1, <1>4 DEF JobRecords
<1>6. HostOK(job') /\ PlaceOK(job')
  BY <1>5 DEF HostOK, PlaceOK, AtTxs, ForkModes, AddModes
<1>7. ResetOK'
  BY <1>1, <1>2, <1>5 DEF ResetOK
<1> QED
  BY <1>5, <1>6, <1>7 DEF JobOK

(* A reset deletes the block it has undone, which is above the one it goes *)
(* back to.                                                                *)
LEMMA UndoneOK ==
    ASSUME RowsOK, JobOK, UndoneBlock
    PROVE  JobOK' /\ RowsOK'
<1>1. /\ job \in JobRecords /\ job.todo \in Seq(Blocks) /\ job.mode \in Modes /\ job.todo # <<>>
      /\ job' = BeginUndo(job.mode, Tail(job.todo)) /\ job.mode \notin AddModes
  BY DEF JobOK, JobRecords, PlaceOK, UndoSteps, UndoneBlock
<1>2. /\ Tail(job.todo) \in Seq(Blocks) /\ Cur = job.todo[1] /\ Cur \in Blocks
      /\ Len(job.todo) \in Nat /\ Len(job.todo) >= 1 /\ Len(Tail(job.todo)) = Len(job.todo) - 1
      /\ \A i \in 1 .. Len(job.todo) - 1 : Tail(job.todo)[i] = job.todo[i + 1]
  BY <1>1, TodoTypes DEF Cur
<1>3. CASE job.mode # "reset"
  <2>1. rows' = rows
    BY <1>3 DEF UndoneBlock
  <2>2. JobOK'
    BY <1>1, <1>2, <1>3, BegunUndoOK
  <2> QED
    BY <2>1, <2>2 DEF RowsOK
<1>4. CASE job.mode = "reset"
  <2>1. /\ rows' = [rows EXCEPT ![Len(Cur)] = NoBlock] /\ rows \in [Ids -> Chains]
        /\ job.at \in Ids /\ \A i \in 1 .. Len(job.todo) : Len(job.todo[i]) > job.at
    BY <1>4 DEF UndoneBlock, RowsOK, JobOK, ResetOK
  <2>2. Len(Cur) > job.at /\ Len(Cur) \in Nat /\ job.at \in Nat /\ job.at >= 1 /\ 1 \in Ids
    <3>1. 1 \in 1 .. Len(job.todo)
      BY <1>2
    <3>2. Len(Cur) \in Nat
      BY <1>2, LenProperties DEF Blocks, Chains
    <3> QED
      BY <1>2, <2>1, <3>1, <3>2, BoundsAssumption DEF Ids
  <2>3. /\ \A id \in Ids : rows'[id] = IF id = Len(Cur) THEN NoBlock ELSE rows[id]
        /\ rows' \in [Ids -> Chains] /\ rows'[job.at] = rows[job.at] /\ rows'[1] = rows[1]
    <3>1. NoBlock \in Chains
      BY DEF NoBlock, Chains
    <3>2. /\ \A id \in Ids : rows'[id] = IF id = Len(Cur) THEN NoBlock ELSE rows[id]
          /\ rows' \in [Ids -> Chains]
      BY <2>1, <3>1
    <3>3. job.at # Len(Cur) /\ 1 # Len(Cur)
      <4>1. \A a, n \in Nat : n > a /\ a >= 1 => a # n /\ 1 # n
        OBVIOUS
      <4> QED
        BY <2>2, <4>1, Zenon
    <3> QED
      BY <2>1, <2>2, <3>2, <3>3
  <2>4. \A i \in 1 .. Len(Tail(job.todo)) : Len(Tail(job.todo)[i]) > job.at
    BY <1>2, <2>1
  <2>5. JobOK'
    BY <1>1, <1>2, <2>3, <2>4, BegunUndoOK
  <2>6. RowsOK'
    BY <2>3 DEF RowsOK
  <2> QED
    BY <2>5, <2>6
<1> QED
  BY <1>3, <1>4

LEMMA EndsOK ==
    ASSUME ResetInfo \/ ForkPanics \/ RestoreInfo \/ RestoreFails \/ Crashes
    PROVE  JobOK'
BY NoneOK, CrashIncidents DEF ResetInfo, ForkPanics, RestoreInfo, RestoreFails

(* The parts of a fork.                                                    *)
LEMMA ForkOK ==
    ASSUME RowsOK, JobOK, ApplyFork \/ DropOwn \/ Committed \/ UndoFork \/ RestoreOwn
    PROVE  JobOK'
<1>1. /\ job \in JobRecords /\ job.base \in Chains /\ job.new \in Chains
      /\ Between(job.base, job.new) \in Seq(Blocks)
  BY BetweenTypes DEF JobOK, JobRecords
<1>2. /\ {"fork", "commit", "collect", "restore", "undoNew"} \subseteq Modes
      /\ {"fork", "restore", "undoNew"} \subseteq ForkModes
      /\ {"collect", "commit"} \cap ForkModes = {}
      /\ (ForkModes \cup {"commit"}) \cap AddModes = {}
  BY DEF Modes, ApplyModes, UndoModes, ForkModes, AddModes
<1>3. CASE ApplyFork
  <2>1. job.mode \in ForkModes /\ job' = Begin("fork", "header", Between(job.base, job.new))
    BY <1>3 DEF ApplyFork, ForkModes
  <2> QED
    BY <1>1, <1>2, <2>1, BegunOK
<1>4. CASE DropOwn
  <2>1. job.mode \in ForkModes /\ job' = Begin("commit", "info", Between(job.base, job.new))
    BY <1>4 DEF DropOwn, ForkModes
  <2> QED
    BY <1>1, <1>2, <2>1, BegunOK
<1>5. CASE RestoreOwn
  <2>1. job.mode \in ForkModes /\ job' = Begin("restore", "header", StoredAbove(Len(job.base)))
    BY <1>5 DEF RestoreOwn, ForkModes
  <2>2. StoredAbove(Len(job.base)) \in Seq(Blocks)
    BY AboveTypes
  <2> QED
    BY <1>2, <2>1, <2>2, BegunOK
<1>6. CASE UndoFork
  <2>1. /\ job.mode \in ForkModes /\ job.todo # <<>>
        /\ job' = BeginUndo("undoNew", Reverse(Between(job.base, Front(Cur))))
    BY <1>6 DEF UndoFork, At, ForkModes, JobOK, PlaceOK
  <2>2. Front(Cur) \in Chains
    BY <2>1, CurTypes, BlockTypes
  <2>3. Reverse(Between(job.base, Front(Cur))) \in Seq(Blocks)
    BY <1>1, <2>2, BetweenTypes
  <2> QED
    BY <1>2, <2>1, <2>3, BegunUndoOK
<1>7. CASE Committed
  <2>1. job.mode = "commit" /\ (job.host # <<>> => job.host \in PeerChains /\ job.at \in 2 .. Len(job.host))
    BY <1>7 DEF Committed, JobOK, HostOK
  <2>2. CASE job.host = <<>>
    BY <1>7, <2>2, NoneOK DEF Committed
  <2>3. CASE job.host # <<>>
    <3> DEFINE b == Begin("collect", "header", <<Upto(job.host, job.at)>>)
    <3>1. job' = [b EXCEPT !.hash = job.kept]
      BY <1>7, <2>3 DEF Committed
    <3>2. /\ <<Upto(job.host, job.at)>> \in Seq(Blocks)
          /\ Len(Head(<<Upto(job.host, job.at)>>)) > 1
      <4>1. job.at \in 1 .. Len(job.host)
        BY <2>1, <2>3, PeerTypes
      <4> QED
        BY <2>1, <2>3, <4>1, PeerTypes
    <3>3. /\ b \in JobRecords /\ b.mode = "collect" /\ b.step = "header" /\ b.host = job.host
          /\ b.todo = <<Upto(job.host, job.at)>>
      <4>1. "header" \in Steps /\ IsJob(job)
        BY CurTypes DEF Steps
      <4>2. b \in JobRecords
        BY <1>1, <1>2, <3>2, <4>1, BeginTypes
      <4> QED
        BY <4>1, <4>2, BeginKeeps
    <3> HIDE DEF b
    <3>4. job.kept \in Hashes
      BY <1>1 DEF JobRecords
    <3>5. /\ job' \in JobRecords /\ job'.mode = "collect" /\ job'.step = "header"
          /\ job'.host \in PeerChains /\ job'.todo = <<Upto(job.host, job.at)>>
      BY <2>1, <2>3, <3>1, <3>3, <3>4 DEF JobRecords
    <3>6. HostOK(job') /\ PlaceOK(job') /\ ResetOK'
      BY <3>2, <3>5 DEF HostOK, PlaceOK, ResetOK, AtTxs, ForkModes, UndoSteps
    <3> QED
      BY <3>5, <3>6 DEF JobOK
  <2> QED
    BY <2>2, <2>3
<1> QED
  BY <1>3, <1>4, <1>5, <1>6, <1>7

LEMMA StillOK ==
    ASSUME JobOK, job' = job, rows' = rows
    PROVE  JobOK'
BY DEF JobOK, ResetOK

LEMMA JobTypes ==
    ASSUME RowsOK, InfoOK, JobOK, [Next]_vars
    PROVE  JobOK'
<1>1. CASE StartJob
  BY <1>1, CollectOK, GenerateOK, StartResetOK DEF StartJob
<1>2. CASE JobStep
  BY <1>2, CollectOK, GenerateOK, HeaderOK, WithinOK, NextBlockOK, StoreOK, UndoingOK, UndoneOK,
     EndsOK, ForkOK DEF JobStep
<1>3. CASE ParseQueue \/ UNCHANGED vars \/ \E t \in Tx : Submit(t) \/ UpdFullNodes(t)
  BY <1>3, StillOK DEF ParseQueue, vars, Submit, UpdFullNodes, chainVars
<1> QED
  BY <1>1, <1>2, <1>3, EndsOK DEF Next

-----------------------------------------------------------------------------
(* The stored blocks and info_block.                                       *)

LEMMA PutOK ==
    ASSUME RowsOK, NEW b \in Blocks, rows' = [rows EXCEPT ![Len(b)] = b]
    PROVE  RowsOK'
<1>1. b \in Chains /\ b # NoBlock /\ rows \in [Ids -> Chains]
  BY DEF Blocks, RowsOK
<1>2. 1 \in Ids
  BY BoundsAssumption DEF Ids
<1>3. /\ rows' \in [Ids -> Chains]
      /\ \A id \in Ids : rows'[id] = IF id = Len(b) THEN b ELSE rows[id]
  BY <1>1
<1> QED
  BY <1>1, <1>2, <1>3 DEF RowsOK

LEMMA RowTypes ==
    ASSUME RowsOK, JobOK, [Next]_vars
    PROVE  RowsOK'
<1>1. CASE InsertIntoBlockchain \/ CommitRow
  <2>1. job.step = "row"
    BY <1>1 DEF InsertIntoBlockchain, CommitRow, At
  <2>2. Cur \in Blocks
    BY <2>1, CurTypes DEF JobOK, PlaceOK
  <2>3. rows' = rows \/ rows' = [rows EXCEPT ![Len(Cur)] = Cur]
    BY <1>1 DEF InsertIntoBlockchain, CommitRow
  <2> QED
    BY <2>2, <2>3, PutOK DEF RowsOK
<1>2. CASE DropOwn
  <2>1. /\ rows' = [id \in Ids |-> IF id > Len(job.base) THEN NoBlock ELSE rows[id]]
        /\ job.base \in Chains /\ Len(job.base) >= 1
    BY <1>2 DEF DropOwn, JobOK, HostOK, JobRecords, ForkModes
  <2>2. 1 \in Ids /\ Len(job.base) \in Nat /\ NoBlock \in Chains
    BY <2>1, BoundsAssumption, LenProperties DEF Ids, Chains, NoBlock
  <2>3. rows' \in [Ids -> Chains] /\ \A id \in Ids : rows'[id] = NoBlock \/ rows'[id] = rows[id]
    BY <2>1, <2>2 DEF RowsOK
  <2>4. rows'[1] = rows[1]
    BY <2>1, <2>2
  <2> QED
    BY <2>3, <2>4 DEF RowsOK
<1>3. CASE StartJob \/ ParseQueue \/ UNCHANGED vars \/ \E t \in Tx : Submit(t) \/ UpdFullNodes(t)
  <2>1. rows' = rows
    BY <1>3 DEF StartJob, StartCollect, ParseBlockQueue, StartGenerate, StartReset, ParseQueue,
                vars, Submit, UpdFullNodes, chainVars
  <2> QED
    BY <2>1 DEF RowsOK
<1>4. CASE CollectNext \/ StopCollect \/ FormBlock \/ CheckHeader \/ UpdBlockInfo
           \/ BlockRefused \/ UnlogTx \/ UndoTx \/ ResetInfo
           \/ MarkTx \/ ExecTx \/ FrontFails \/ InitFails \/ MainFails \/ RollbackTo \/ LogTx
  <2>1. rows' = rows
    BY <1>4 DEF CollectNext, StopCollect, FormBlock, CheckHeader, UpdBlockInfo, BlockRefused,
                UnlogTx, UndoTx, ResetInfo, MarkTx, ExecTx, FrontFails, InitFails, MainFails,
                RollbackTo, LogTx, chainVars
  <2> QED
    BY <2>1 DEF RowsOK
<1>5. CASE ApplyFork \/ CommitInfo \/ Committed \/ ForkPanics \/ UndoFork \/ RestoreOwn
           \/ RestoreInfo \/ RestoreFails
  <2>1. rows' = rows
    BY <1>5 DEF ApplyFork, CommitInfo, Committed, ForkPanics, UndoFork, RestoreOwn,
                RestoreInfo, RestoreFails, chainVars
  <2> QED
    BY <2>1 DEF RowsOK
<1>6. CASE CrashInInsert
  <2>1. Len(Cur) # 1 /\ rows' = [rows EXCEPT ![Len(Cur)] = NoBlock]
    <3>1. /\ job.mode \in AddModes /\ job.step = "row" /\ PlaceOK(job)
          /\ rows' = [rows EXCEPT ![Len(Cur)] = NoBlock]
      BY <1>6 DEF CrashInInsert, AddModes, JobOK
    <3>2. Len(Cur) > 1
      BY <3>1 DEF PlaceOK, Cur
    <3>3. ~ (1 > 1)
      OBVIOUS
    <3> QED
      BY <3>1, <3>2, <3>3
  <2>2. rows \in [Ids -> Chains] /\ NoBlock \in Chains /\ 1 \in Ids
    BY BoundsAssumption DEF RowsOK, Chains, NoBlock, Ids
  <2>3. /\ rows' \in [Ids -> Chains] /\ rows'[1] = rows[1]
        /\ \A id \in Ids : rows'[id] = NoBlock \/ rows'[id] = rows[id]
    BY <2>1, <2>2
  <2> QED
    BY <2>3 DEF RowsOK
<1>7. CASE Crash \/ CrashInExecTx \/ CrashInUndo \/ CrashInUnlogTx \/ CrashInBlockError
           \/ CrashInTxParser
  <2>1. rows' = rows
    BY <1>7 DEF Crash, CrashInExecTx, CrashInUndo, CrashInUnlogTx, CrashInBlockError,
                CrashInTxParser, chainVars
  <2> QED
    BY <2>1 DEF RowsOK
<1> QED
  BY <1>1, <1>2, <1>3, <1>4, <1>5, <1>6, <1>7, UndoneOK DEF Next, JobStep, Crashes

LEMMA InfoTypes ==
    ASSUME RowsOK, InfoOK, JobOK, [Next]_vars
    PROVE  InfoOK'
<1>1. CASE UpdBlockInfo \/ CommitInfo
  <2>1. info' = [blk |-> Cur, by |-> Last(Cur).by] /\ job.todo # <<>>
    BY <1>1 DEF UpdBlockInfo, CommitInfo
  <2>2. Cur \in Blocks /\ Last(Cur).by \in Makers
    BY <2>1, CurTypes, BlockTypes
  <2> QED
    BY <2>1, <2>2 DEF InfoOK
<1>2. CASE ResetInfo
  <2>1. /\ info' = [blk |-> rows[job.at], by |-> Last(rows[job.at]).by]
        /\ job.at \in Ids /\ rows[job.at] # NoBlock
    BY <1>2 DEF ResetInfo, JobOK, ResetOK
  <2>2. rows[job.at] \in Blocks
    BY <2>1 DEF RowsOK, Blocks
  <2> QED
    BY <2>1, <2>2, BlockTypes DEF InfoOK
<1>3. CASE RestoreInfo
  <2> DEFINE T == {id \in Ids : rows[id] # NoBlock}
  <2>1. T \in SUBSET (0 .. MaxId) /\ MaxId \in Nat /\ 1 \in T
    BY BoundsAssumption DEF RowsOK, Ids
  <2>2. info' = [info EXCEPT !.blk = rows[Max(T)]]
    BY <1>3 DEF RestoreInfo
  <2> HIDE DEF T
  <2>3. Max(T) \in T
    BY <2>1, Greatest
  <2>4. rows[Max(T)] \in Blocks
    BY <2>3 DEF T, RowsOK, Blocks
  <2> QED
    BY <2>2, <2>4 DEF InfoOK
<1>4. CASE StartJob \/ ParseQueue \/ Crashes \/ UNCHANGED vars \/ \E t \in Tx : Submit(t) \/ UpdFullNodes(t)
  <2>1. info' = info
    BY <1>4 DEF StartJob, StartCollect, ParseBlockQueue, StartGenerate, StartReset, ParseQueue,
                Crashes, Crash, CrashInExecTx, CrashInUndo, CrashInUnlogTx, CrashInInsert,
                CrashInBlockError, CrashInTxParser, vars, Submit, UpdFullNodes, chainVars
  <2> QED
    BY <2>1 DEF InfoOK
<1>5. CASE CollectNext \/ StopCollect \/ FormBlock \/ CheckHeader \/ InsertIntoBlockchain
           \/ BlockRefused \/ UnlogTx \/ UndoTx \/ UndoneBlock
           \/ MarkTx \/ ExecTx \/ FrontFails \/ InitFails \/ MainFails \/ RollbackTo \/ LogTx
  <2>1. info' = info
    BY <1>5 DEF CollectNext, StopCollect, FormBlock, CheckHeader, InsertIntoBlockchain, BlockRefused,
                UnlogTx, UndoTx, UndoneBlock, MarkTx, ExecTx, FrontFails, InitFails, MainFails,
                RollbackTo, LogTx, chainVars
  <2> QED
    BY <2>1 DEF InfoOK
<1>6. CASE ApplyFork \/ DropOwn \/ CommitRow \/ Committed \/ ForkPanics \/ UndoFork \/ RestoreOwn
           \/ RestoreFails
  <2>1. info' = info
    BY <1>6 DEF ApplyFork, DropOwn, CommitRow, Committed, ForkPanics, UndoFork, RestoreOwn,
                RestoreFails, chainVars
  <2> QED
    BY <2>1 DEF InfoOK
<1> QED
  BY <1>1, <1>2, <1>3, <1>4, <1>5, <1>6 DEF Next, JobStep

LEMMA TypeStarts == Init => TypeInv
<1> SUFFICES ASSUME Init PROVE TypeInv
  OBVIOUS
<1>1. Genesis \in Payloads /\ <<Genesis>> \in Seq(Payloads) /\ Len(<<Genesis>>) = 1
  BY ChainsAssumption
<1>2. <<Genesis>> \in Chains /\ <<Genesis>> # NoBlock /\ NoBlock \in Chains /\ 1 \in Ids
  BY <1>1, BoundsAssumption DEF Chains, NoBlock, Ids
<1>3. rows \in [Ids -> Chains] /\ rows[1] = <<Genesis>> /\ \A id \in Ids : rows[id] # NoBlock => id = 1
  BY <1>2 DEF Init
<1>4. RowsOK
  BY <1>1, <1>2, <1>3 DEF RowsOK
<1>5. InfoOK
  BY <1>1, <1>2 DEF Init, InfoOK, Blocks, Payloads
<1>6. LedgerOK /\ RunOK
  BY DEF Init, LedgerOK, RunOK
<1>7. PoolOK
  BY DEF Init, PoolOK, RowStates
<1>8. JobOK
  BY NoJobTypes DEF Init, JobOK, ResetOK
<1> QED
  BY <1>4, <1>5, <1>6, <1>7, <1>8 DEF TypeInv

LEMMA TypesHold == Spec => []TypeInv
<1>1. TypeInv /\ [Next]_vars => TypeInv'
  BY RowTypes, InfoTypes, LedgerTypes, PoolTypes, RunTypes, JobTypes DEF TypeInv
<1> QED
  BY <1>1, TypeStarts, PTL DEF Spec

(* Whatever goes wrong, every table holds what it is for, and a job is at  *)
(* a block and a transaction that there are.                               *)
THEOREM TypeCorrect == Spec => []TypeOK
<1>1. TypeInv => TypeOK
  <2> SUFFICES ASSUME TypeInv PROVE TypeOK
    OBVIOUS
  <2>1. Seq(Blocks) \subseteq Seq(Chains)
    BY DEF Blocks
  <2>2. job \in [mode : Modes, step : Steps, todo : Seq(Chains), pos : Nat,
                 base : Chains, new : Chains, host : Chains, at : Nat,
                 hash : Tx \cup {NoTx, Garbage}, kept : Tx \cup {NoTx, Garbage}]
    BY <2>1 DEF TypeInv, JobOK, JobRecords, Hashes
  <2>3. info \in [blk : Chains, by : Makers]
    BY DEF TypeInv, InfoOK, Blocks
  <2> QED
    BY <2>2, <2>3 DEF TypeInv, TypeOK, RowsOK, LedgerOK, PoolOK, RunOK
<1> QED
  BY <1>1, TypesHold, PTL
=============================================================================
