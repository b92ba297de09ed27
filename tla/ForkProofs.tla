----------------------------- MODULE ForkProofs -----------------------------
(* Proofs about the transactions of the stored chain: they are logged, each*)
(* once, the ledger is their effects in the order of the chain, and while a*)
(* fork replaces own blocks none of them is lost.                          *)
EXTENDS StoredChainProofs

-----------------------------------------------------------------------------
(* Sequences of sequences.                                                 *)

(* The concatenations of the first sequences of a sequence of sequences.   *)
FlatNext(ss, f, i) == IF i = 1 THEN ss[i] ELSE f[i - 1] \o ss[i]

IsFlat(ss, f, n) == f = [i \in 1 .. n |-> FlatNext(ss, f, i)]

LEMMA FlatExists ==
    ASSUME NEW ss, NEW n \in Nat
    PROVE  \E f : IsFlat(ss, f, n)
<1> DEFINE T == {m \in Nat : ~ \E f : IsFlat(ss, f, m)}
<1> SUFFICES ASSUME T # {} PROVE FALSE
  OBVIOUS
<1>1. PICK m \in T : \A k \in T : m <= k
  <2>1. T \in SUBSET Nat
    OBVIOUS
  <2> HIDE DEF T
  <2> QED
    BY <2>1, Least
<1>2. m # 0
  <2>1. IsFlat(ss, <<>>, 0)
    BY DEF IsFlat
  <2> QED
    BY <1>1, <2>1
<1>3. m - 1 \in Nat /\ m - 1 \notin T
  BY <1>1, <1>2
<1>4. PICK g : IsFlat(ss, g, m - 1)
  BY <1>3
<1> DEFINE f == [i \in 1 .. m |-> FlatNext(ss, g, i)]
<1>5. \A i \in 1 .. m - 1 : f[i] = g[i]
  BY <1>1, <1>4 DEF IsFlat
<1>6. ASSUME NEW i \in 1 .. m PROVE FlatNext(ss, g, i) = FlatNext(ss, f, i)
  <2>1. i # 1 => i - 1 \in 1 .. m - 1
    BY <1>1, <1>2
  <2> QED
    BY <1>5, <2>1 DEF FlatNext
<1>7. IsFlat(ss, f, m)
  BY <1>6 DEF IsFlat
<1> QED
  BY <1>1, <1>7

LEMMA FlatAgrees ==
    ASSUME NEW ss, NEW tt, NEW f, NEW g, NEW n \in Nat, NEW m \in Nat, n <= m,
           \A i \in 1 .. n : ss[i] = tt[i], IsFlat(ss, f, n), IsFlat(tt, g, m)
    PROVE  \A i \in 1 .. n : f[i] = g[i]
<1> DEFINE T == {i \in 1 .. n : f[i] # g[i]}
<1> SUFFICES ASSUME T # {} PROVE FALSE
  OBVIOUS
<1>1. PICK i \in T : \A k \in T : i <= k
  <2>1. T \in SUBSET Nat
    OBVIOUS
  <2> HIDE DEF T
  <2> QED
    BY <2>1, Least
<1>2. i \in 1 .. n /\ i \in 1 .. m /\ f[i] # g[i]
  BY <1>1
<1>3. f[i] = FlatNext(ss, f, i) /\ g[i] = FlatNext(tt, g, i)
  BY <1>2 DEF IsFlat
<1>4. i # 1 => i - 1 \in 1 .. n /\ i - 1 \notin T
  BY <1>1, <1>2
<1> QED
  BY <1>2, <1>3, <1>4 DEF FlatNext

LEMMA FlatSeqs ==
    ASSUME NEW S, NEW n \in Nat, NEW ss \in [1 .. n -> Seq(S)], NEW f, IsFlat(ss, f, n)
    PROVE  \A i \in 1 .. n : f[i] \in Seq(S)
<1> DEFINE T == {i \in 1 .. n : f[i] \notin Seq(S)}
<1> SUFFICES ASSUME T # {} PROVE FALSE
  OBVIOUS
<1>1. PICK i \in T : \A k \in T : i <= k
  <2>1. T \in SUBSET Nat
    OBVIOUS
  <2> HIDE DEF T
  <2> QED
    BY <2>1, Least
<1>2. f[i] = FlatNext(ss, f, i) /\ i \in 1 .. n /\ ss[i] \in Seq(S)
  BY <1>1 DEF IsFlat
<1>3. i # 1
  BY <1>1, <1>2 DEF FlatNext
<1>4. f[i - 1] \in Seq(S)
  BY <1>1, <1>2, <1>3
<1>5. f[i] = f[i - 1] \o ss[i]
  BY <1>2, <1>3 DEF FlatNext
<1>6. f[i] \in Seq(S)
  BY <1>2, <1>4, <1>5, ConcatProperties
<1> QED
  BY <1>1, <1>6

(* FlattenSeq is the last of them.                                         *)
LEMMA FlattenIsFlat ==
    ASSUME NEW S, NEW ss \in Seq(S), ss # <<>>
    PROVE  \E f : IsFlat(ss, f, Len(ss)) /\ FlattenSeq(ss) = f[Len(ss)]
<1> DEFINE f == CHOOSE f : IsFlat(ss, f, Len(ss))
<1>1. Len(ss) \in Nat /\ Len(ss) # 0
  BY LenProperties, EmptySeq
<1>2. IsFlat(ss, f, Len(ss))
  BY <1>1, FlatExists
<1>3. FlattenSeq(ss) = f[Len(ss)]
  BY <1>1 DEF FlattenSeq, IsFlat, FlatNext
<1> QED
  BY <1>2, <1>3

LEMMA FlattenFacts ==
    ASSUME NEW S, NEW ss \in Seq(Seq(S)), NEW s \in Seq(S)
    PROVE  /\ FlattenSeq(ss) \in Seq(S)
           /\ FlattenSeq(Append(ss, s)) = FlattenSeq(ss) \o s
           /\ FlattenSeq(<<>>) = <<>>
<1> DEFINE n == Len(ss)
           tt == Append(ss, s)
<1>1. n \in Nat /\ ss \in [1 .. n -> Seq(S)] /\ (n = 0 <=> ss = <<>>)
  BY LenProperties, EmptySeq
<1>2. /\ tt \in Seq(Seq(S)) /\ Len(tt) = n + 1 /\ tt # <<>> /\ tt[n + 1] = s
      /\ \A i \in 1 .. n : ss[i] = tt[i]
  BY AppendProperties
<1>3. FlattenSeq(<<>>) = <<>>
  BY EmptySeq DEF FlattenSeq
<1>4. PICK g : IsFlat(tt, g, n + 1) /\ FlattenSeq(tt) = g[n + 1]
  <2> HIDE DEF tt
  <2> QED
    BY <1>2, FlattenIsFlat
<1>5. g[n + 1] = IF n = 0 THEN s ELSE g[n] \o s
  <2> HIDE DEF n, tt
  <2>1. PICK k : k = n + 1
    OBVIOUS
  <2>2. k \in 1 .. k /\ k - 1 = n /\ (k = 1 <=> n = 0)
    BY <1>1, <2>1
  <2>3. g[k] = FlatNext(tt, g, k)
    BY <1>4, <2>1, <2>2 DEF IsFlat
  <2>4. g[k] = IF k = 1 THEN tt[k] ELSE g[k - 1] \o tt[k]
    BY <2>3 DEF FlatNext
  <2> QED
    BY <1>2, <2>1, <2>2, <2>4
<1>6. CASE n = 0
  <2>1. FlattenSeq(ss) = <<>> /\ FlattenSeq(tt) = s
    BY <1>1, <1>3, <1>4, <1>5, <1>6
  <2> QED
    BY <1>3, <2>1, EmptySeq, ConcatEmptySeq
<1>7. CASE n # 0
  <2>1. PICK f : IsFlat(ss, f, n) /\ FlattenSeq(ss) = f[n]
    BY <1>1, <1>7, FlattenIsFlat
  <2>2. f[n] \in Seq(S)
    <3>1. \A i \in 1 .. n : f[i] \in Seq(S)
      BY <1>1, <2>1, FlatSeqs
    <3> QED
      BY <1>1, <1>7, <3>1
  <2>3. f[n] = g[n]
    <3>1. n <= n + 1 /\ n + 1 \in Nat /\ n \in 1 .. n
      BY <1>1, <1>7
    <3>2. \A i \in 1 .. n : f[i] = g[i]
      <4>1. PICK k \in Nat : k = n + 1
        BY <3>1
      <4>2. /\ n \in Nat /\ n <= k /\ \A i \in 1 .. n : ss[i] = tt[i]
            /\ IsFlat(ss, f, n) /\ IsFlat(tt, g, k)
        BY <1>1, <1>2, <1>4, <2>1, <3>1, <4>1
      <4> HIDE DEF n, tt
      <4>3. ASSUME NEW i \in 1 .. n PROVE f[i] = g[i]
        BY <4>2, FlatAgrees
      <4> QED
        BY <4>3
    <3> QED
      BY <3>1, <3>2
  <2> QED
    BY <1>3, <1>4, <1>5, <1>7, <2>1, <2>2, <2>3
<1> QED
  BY <1>6, <1>7

-----------------------------------------------------------------------------
(* Where the transactions of a chain are: block and place in it.           *)

Slots(c) == {s \in (1 .. Len(c)) \X Nat : s[2] \in 1 .. Len(c[s[1]].txs)}

TxAt(c, s) == c[s[1]].txs[s[2]]

(* Those of the first n blocks, and the first k of the next one.           *)
Before(c, n, k) == {s \in Slots(c) : s[1] <= n \/ (s[1] = n + 1 /\ s[2] <= k)}

(* They are logged, and no two are the same.                               *)
Sound(c, S) ==
    \A s \in S : /\ TxAt(c, s) \in logTx
                 /\ \A r \in S : TxAt(c, r) = TxAt(c, s) => r = s

(* They are, in order, what is applied, and nothing is applied in part.    *)
TxsTo(c, n, k) ==
    IF k = 0 THEN ChainTxs(Upto(c, n))
    ELSE ChainTxs(Upto(c, n)) \o SubSeq(c[n + 1].txs, 1, k)

EffectsOf(txs) == [i \in DOMAIN txs |-> Effect(txs[i])]

Exact(c, n, k) == ledger = EffectsOf(TxsTo(c, n, k))

Done(c, n, k) == Sound(c, Before(c, n, k)) /\ Exact(c, n, k)
AllApplied(c) == Sound(c, Slots(c)) /\ ledger = EffectsOf(ChainTxs(c))

Part(t) == [tx |-> t, part |-> "some"]

LEMMA TxsFacts ==
    ASSUME NEW c \in Seq(Payloads), NEW n \in 1 .. Len(c)
    PROVE  /\ c[n].txs \in Seq(Tx) /\ Len(c[n].txs) \in Nat
           /\ c[n].txs = <<>> <=> Len(c[n].txs) = 0
           /\ Txs(Upto(c, n)) = c[n].txs
           /\ Len(c) \in Nat /\ n \in Nat
<1>1. Len(c) \in Nat /\ n \in 0 .. Len(c) /\ n \in Nat
  BY LenProperties
<1>2. c[n] \in Payloads
  BY ElementOfSeq
<1>3. c[n].txs \in Seq(Tx)
  BY <1>2 DEF Payloads
<1>4. Len(c[n].txs) \in Nat /\ (c[n].txs = <<>> <=> Len(c[n].txs) = 0)
  BY <1>3, LenProperties, EmptySeq
<1>5. Upto(c, n) \in Seq(Payloads) /\ Len(Upto(c, n)) = n /\ Upto(c, n)[n] = c[n]
  BY <1>1, UptoFacts
<1>6. Txs(Upto(c, n)) = c[n].txs
  BY <1>5 DEF Txs, Last
<1> QED
  BY <1>1, <1>3, <1>4, <1>6

LEMMA SlotFacts ==
    ASSUME NEW c \in Seq(Payloads), NEW s \in Slots(c)
    PROVE  /\ s = <<s[1], s[2]>> /\ s[1] \in 1 .. Len(c) /\ s[1] \in Nat /\ s[2] \in Nat
           /\ s[2] \in 1 .. Len(c[s[1]].txs)
<1>1. s \in (1 .. Len(c)) \X Nat /\ s[2] \in 1 .. Len(c[s[1]].txs)
  BY DEF Slots
<1>2. s = <<s[1], s[2]>> /\ s[1] \in 1 .. Len(c) /\ s[2] \in Nat
  BY <1>1
<1> QED
  BY <1>1, <1>2, LenProperties

(* All of the blocks up to n.                                              *)
LEMMA BeforeFacts ==
    ASSUME NEW c \in Seq(Payloads), NEW n \in 0 .. Len(c)
    PROVE  /\ Before(c, n, 0) = {s \in Slots(c) : s[1] <= n}
           /\ Before(c, Len(c), 0) = Slots(c)
           /\ n < Len(c) => Before(c, n, Len(c[n + 1].txs)) = Before(c, n + 1, 0)
<1>1. Len(c) \in Nat /\ n \in Nat
  BY LenProperties
<1>2. \A k \in 0 .. Len(c) : Before(c, k, 0) = {s \in Slots(c) : s[1] <= k}
  <2>1. \A s \in Slots(c) : ~ (s[2] <= 0)
    BY SlotFacts
  <2> QED
    BY <2>1 DEF Before
<1>3. Before(c, Len(c), 0) = Slots(c)
  <2>1. \A s \in Slots(c) : s[1] <= Len(c)
    BY <1>1, SlotFacts
  <2> QED
    BY <1>1, <1>2, <2>1
<1>4. ASSUME n < Len(c) PROVE Before(c, n, Len(c[n + 1].txs)) = Before(c, n + 1, 0)
  <2>1. n + 1 \in 0 .. Len(c)
    BY <1>1, <1>4
  <2>2. \A s \in Slots(c) : s[1] = n + 1 => s[2] <= Len(c[n + 1].txs)
    <3> SUFFICES ASSUME NEW s \in Slots(c), s[1] = n + 1 PROVE s[2] <= Len(c[n + 1].txs)
      OBVIOUS
    <3>1. n + 1 \in 1 .. Len(c) /\ s[2] \in 1 .. Len(c[n + 1].txs)
      BY <1>1, <1>4, SlotFacts
    <3> QED
      BY <3>1, TxsFacts
  <2>3. \A s \in Slots(c) : s[1] <= n + 1 <=> s[1] <= n \/ s[1] = n + 1
    BY <1>1, SlotFacts
  <2>4. Before(c, n, Len(c[n + 1].txs)) = {s \in Slots(c) : s[1] <= n + 1}
    BY <2>2, <2>3 DEF Before
  <2> QED
    BY <1>2, <2>1, <2>4
<1> QED
  BY <1>2, <1>3, <1>4

(* One transaction more.                                                   *)
LEMMA BeforeTx ==
    ASSUME NEW c \in Seq(Payloads), NEW n \in 1 .. Len(c), NEW k \in 1 .. Len(c[n].txs)
    PROVE  /\ <<n, k>> \in Slots(c) /\ <<n, k>> \notin Before(c, n - 1, k - 1)
           /\ Before(c, n - 1, k) = Before(c, n - 1, k - 1) \cup {<<n, k>>}
<1>1. Len(c) \in Nat /\ n \in Nat /\ Len(c[n].txs) \in Nat /\ k \in Nat /\ n - 1 + 1 = n
  BY TxsFacts
<1>2. <<n, k>> \in Slots(c)
  BY <1>1 DEF Slots
<1>3. <<n, k>> \notin Before(c, n - 1, k - 1)
  BY <1>1 DEF Before
<1>4. \A s \in Slots(c) : s[1] = n => (s[2] <= k <=> s[2] <= k - 1 \/ s = <<n, k>>)
  BY <1>1, SlotFacts
<1>5. ASSUME NEW s \in Slots(c)
      PROVE  s \in Before(c, n - 1, k) <=> s \in Before(c, n - 1, k - 1) \/ s = <<n, k>>
  BY <1>1, <1>2, <1>4, <1>5 DEF Before
<1>6. Before(c, n - 1, k) \subseteq Slots(c) /\ Before(c, n - 1, k - 1) \subseteq Slots(c)
  BY DEF Before
<1> QED
  BY <1>2, <1>3, <1>5, <1>6

(* The transactions of a chain, block by block ...                         *)
LEMMA ChainTxsFacts ==
    ASSUME NEW c \in Seq(Payloads), NEW n \in 0 .. Len(c)
    PROVE  /\ ChainTxs(Upto(c, n)) \in Seq(Tx)
           /\ n = 0 => ChainTxs(Upto(c, n)) = <<>>
           /\ n < Len(c) =>
                  ChainTxs(Upto(c, n + 1)) = ChainTxs(Upto(c, n)) \o c[n + 1].txs
<1> DEFINE lists(k) == [i \in 1 .. k |-> c[i].txs]
<1>1. Len(c) \in Nat /\ n \in Nat
  BY LenProperties
<1>2. \A i \in 1 .. Len(c) : c[i].txs \in Seq(Tx)
  BY TxsFacts
<1>3. ASSUME NEW k \in 0 .. Len(c)
      PROVE  /\ ChainTxs(Upto(c, k)) = FlattenSeq(lists(k))
             /\ lists(k) \in Seq(Seq(Tx)) /\ Len(lists(k)) = k
  <2>1. k \in Nat
    BY <1>1
  <2>2. /\ Upto(c, k) \in Seq(Payloads) /\ Len(Upto(c, k)) = k
        /\ \A i \in 1 .. k : Upto(c, k)[i] = c[i]
    BY <2>1, UptoFacts
  <2>3. DOMAIN Upto(c, k) = 1 .. k
    BY <2>2, LenProperties
  <2>4. [i \in DOMAIN Upto(c, k) |-> Upto(c, k)[i].txs] = lists(k)
    BY <2>2, <2>3
  <2>5. lists(k) \in [1 .. k -> Seq(Tx)]
    BY <1>1, <1>2
  <2> HIDE DEF lists
  <2>6. lists(k) \in Seq(Seq(Tx)) /\ Len(lists(k)) = k
    BY <2>1, <2>5, FunFacts
  <2> QED
    BY <2>4, <2>6 DEF ChainTxs
<1>4. FlattenSeq(<<>>) = <<>> /\ \A k \in 0 .. Len(c) : FlattenSeq(lists(k)) \in Seq(Tx)
  <2> HIDE DEF lists
  <2>1. <<>> \in Seq(Tx)
    BY EmptySeq
  <2> QED
    BY <1>1, <1>3, <2>1, FlattenFacts
<1>5. ASSUME n = 0 PROVE ChainTxs(Upto(c, n)) = <<>>
  <2> HIDE DEF lists
  <2>1. lists(n) = <<>>
    BY <1>3, <1>5, EmptySeq
  <2> QED
    BY <1>3, <1>4, <2>1
<1>6. ASSUME n < Len(c)
      PROVE  ChainTxs(Upto(c, n + 1)) = ChainTxs(Upto(c, n)) \o c[n + 1].txs
  <2>1. PICK k \in 1 .. Len(c) : k = n + 1 /\ k \in 0 .. Len(c) /\ k \in Nat
    BY <1>1, <1>6
  <2>2. c[k].txs \in Seq(Tx)
    BY <1>2
  <2>3. lists(k) = Append(lists(n), c[k].txs)
    <3> DEFINE a == Append(lists(n), c[k].txs)
    <3>1. /\ lists(n) \in Seq(Seq(Tx)) /\ Len(lists(n)) = n
          /\ lists(k) \in Seq(Seq(Tx)) /\ Len(lists(k)) = k
      BY <1>3, <2>1
    <3>2. \A i \in 1 .. n : lists(n)[i] = c[i].txs
      OBVIOUS
    <3>3. \A i \in 1 .. k : lists(k)[i] = c[i].txs
      OBVIOUS
    <3> HIDE DEF lists
    <3>4. /\ a \in Seq(Seq(Tx)) /\ Len(a) = n + 1 /\ a[n + 1] = c[k].txs
          /\ \A i \in 1 .. n : a[i] = lists(n)[i]
      BY <2>2, <3>1, AppendProperties
    <3>5. \A i \in 1 .. k : i \in 1 .. n \/ i = n + 1
      BY <1>1, <2>1
    <3>6. \A i \in 1 .. k : lists(k)[i] = a[i]
      <4> HIDE DEF a
      <4> QED
        BY <2>1, <3>2, <3>3, <3>4, <3>5
    <3> HIDE DEF a
    <3>7. lists(k) = a
      BY <2>1, <3>1, <3>4, <3>6, SeqEqual
    <3> QED
      BY <3>7 DEF a
  <2>4. lists(n) \in Seq(Seq(Tx))
    BY <1>3
  <2> HIDE DEF lists
  <2>5. FlattenSeq(Append(lists(n), c[k].txs)) = FlattenSeq(lists(n)) \o c[k].txs
    BY <2>2, <2>4, FlattenFacts
  <2>6. ChainTxs(Upto(c, k)) = ChainTxs(Upto(c, n)) \o c[k].txs
    BY <1>3, <2>1, <2>3, <2>5
  <2> QED
    BY <2>1, <2>6
<1> QED
  BY <1>3, <1>4, <1>5, <1>6

(* ... and one by one.                                                     *)
LEMMA TxsToFacts ==
    ASSUME NEW c \in Seq(Payloads), NEW n \in 1 .. Len(c), NEW k \in 1 .. Len(c[n].txs)
    PROVE  /\ TxsTo(c, n - 1, k - 1) \in Seq(Tx) /\ c[n].txs[k] \in Tx
           /\ TxsTo(c, n - 1, k) = Append(TxsTo(c, n - 1, k - 1), c[n].txs[k])
<1> DEFINE txs == c[n].txs
<1>1. Len(c) \in Nat /\ n \in Nat /\ txs \in Seq(Tx) /\ Len(txs) \in Nat
  BY TxsFacts
<1>2. PICK m \in 0 .. Len(c) : m = n - 1 /\ m + 1 = n
  BY <1>1
<1> DEFINE low == ChainTxs(Upto(c, m))
<1>3. low \in Seq(Tx)
  BY ChainTxsFacts
<1>4. txs[k] \in Tx
  BY <1>1, ElementOfSeq
<1>5. TxsTo(c, m, k) = low \o SubSeq(txs, 1, k)
  <2>1. k # 0
    BY <1>1
  <2> QED
    BY <1>2, <2>1 DEF TxsTo
<1>6. SubSeq(txs, 1, k) = Append(SubSeq(txs, 1, k - 1), txs[k]) /\ SubSeq(txs, 1, k - 1) \in Seq(Tx)
      /\ (k = 1 => SubSeq(txs, 1, k - 1) = <<>>)
  <2>1. k \in 1 .. Len(txs) /\ k - 1 \in 0 .. Len(txs) /\ 1 .. k - 1 \subseteq 1 .. Len(txs)
    BY <1>1
  <2>2. \A i \in 1 .. Len(txs) : txs[i] \in Tx
    BY <1>1, ElementOfSeq
  <2> HIDE DEF txs
  <2>3. SubSeq(txs, 1, k - 1) \in Seq(Tx) /\ Len(SubSeq(txs, 1, k - 1)) = k - 1
    BY <1>1, <2>1, <2>2, SubSeqProperties
  <2>4. k = 1 => SubSeq(txs, 1, k - 1) = <<>>
    BY <2>3, EmptySeq
  <2>5. SubSeq(txs, 1, k) = Append(SubSeq(txs, 1, k - 1), txs[k])
    BY <1>1, <2>1, SubSeqRecursiveSecond
  <2> QED
    BY <2>3, <2>4, <2>5
<1>7. TxsTo(c, m, k - 1) = low \o SubSeq(txs, 1, k - 1)
  <2>1. CASE k = 1
    <3>1. low \o <<>> = low
      <4> HIDE DEF low
      <4> QED
        BY <1>3, ConcatEmptySeq
    <3>2. k - 1 = 0
      BY <2>1
    <3> QED
      BY <1>6, <2>1, <3>1, <3>2 DEF TxsTo
  <2>2. CASE k # 1
    <3>1. k - 1 # 0
      BY <1>1, <2>2
    <3> QED
      BY <1>2, <3>1 DEF TxsTo
  <2> QED
    BY <2>1, <2>2
<1>8. low \o Append(SubSeq(txs, 1, k - 1), txs[k]) = Append(low \o SubSeq(txs, 1, k - 1), txs[k])
      /\ low \o SubSeq(txs, 1, k - 1) \in Seq(Tx)
  <2> DEFINE sub == SubSeq(txs, 1, k - 1)
             t == txs[k]
  <2>1. sub \in Seq(Tx) /\ t \in Tx
    BY <1>4, <1>6
  <2> HIDE DEF low, txs, sub, t
  <2>2. low \o sub \in Seq(Tx) /\ <<t>> \in Seq(Tx)
    BY <1>3, <2>1, ConcatProperties
  <2>3. Append(sub, t) = sub \o <<t>> /\ Append(low \o sub, t) = (low \o sub) \o <<t>>
    BY <2>1, <2>2, AppendIsConcat
  <2>4. (low \o sub) \o <<t>> = low \o (sub \o <<t>>)
    <3>1. PICK u : u = <<t>>
      OBVIOUS
    <3>2. (low \o sub) \o u = low \o (sub \o u)
      BY <1>3, <2>1, <2>2, <3>1, ConcatAssociative
    <3> QED
      BY <3>1, <3>2
  <2> QED
    BY <2>2, <2>3, <2>4 DEF sub, t
<1> QED
  BY <1>2, <1>4, <1>5, <1>6, <1>7, <1>8

(* A whole block.                                                          *)
LEMMA TxsToBlock ==
    ASSUME NEW c \in Seq(Payloads), NEW n \in 0 .. Len(c), n < Len(c)
    PROVE  TxsTo(c, n, Len(c[n + 1].txs)) = TxsTo(c, n + 1, 0)
<1>1. PICK k \in 1 .. Len(c) : k = n + 1
  BY LenProperties
<1> DEFINE txs == c[k].txs
<1>2. txs \in Seq(Tx) /\ Len(txs) \in Nat /\ (txs = <<>> <=> Len(txs) = 0)
  BY TxsFacts
<1>3. ChainTxs(Upto(c, n)) \in Seq(Tx) /\ ChainTxs(Upto(c, k)) = ChainTxs(Upto(c, n)) \o txs
  BY <1>1, ChainTxsFacts
<1>4. CASE txs = <<>>
  <2>1. ChainTxs(Upto(c, n)) \o <<>> = ChainTxs(Upto(c, n))
    BY <1>3, ConcatEmptySeq
  <2> QED
    BY <1>1, <1>2, <1>3, <1>4, <2>1 DEF TxsTo
<1>5. CASE txs # <<>>
  <2>1. SubSeq(txs, 1, Len(txs)) = txs
    <3> HIDE DEF txs
    <3> QED
      BY <1>2, SubSeqFull
  <2> QED
    BY <1>1, <1>2, <1>3, <1>5, <2>1 DEF TxsTo
<1> QED
  BY <1>4, <1>5

LEMMA EffectsFacts ==
    ASSUME NEW txs \in Seq(Tx), NEW t \in Tx
    PROVE  /\ EffectsOf(Append(txs, t)) = Append(EffectsOf(txs), Effect(t))
           /\ EffectsOf(txs) \in Seq({Effect(u) : u \in Tx})
           /\ Len(EffectsOf(txs)) = Len(txs)
           /\ \A i \in 1 .. Len(txs) : EffectsOf(txs)[i] = Effect(txs[i])
<1> DEFINE S == {Effect(u) : u \in Tx}
           n == Len(txs)
           long == Append(txs, t)
           e == EffectsOf(txs)
           f == EffectsOf(long)
           g == Append(e, Effect(t))
<1>1. n \in Nat /\ DOMAIN txs = 1 .. n /\ \A i \in 1 .. n : txs[i] \in Tx
  BY LenProperties, ElementOfSeq
<1>2. /\ long \in Seq(Tx) /\ Len(long) = n + 1 /\ long[n + 1] = t
      /\ \A i \in 1 .. n : long[i] = txs[i]
  BY AppendProperties
<1>3. DOMAIN long = 1 .. n + 1 /\ n + 1 \in Nat /\ \A i \in 1 .. n + 1 : long[i] \in Tx
  <2> HIDE DEF long
  <2> QED
    BY <1>1, <1>2, LenProperties, ElementOfSeq
<1>4. e \in [1 .. n -> S] /\ \A i \in 1 .. n : e[i] = Effect(txs[i])
  BY <1>1 DEF EffectsOf
<1>5. f \in [1 .. n + 1 -> S] /\ \A i \in 1 .. n + 1 : f[i] = Effect(long[i])
  <2> HIDE DEF long
  <2> QED
    BY <1>3 DEF EffectsOf
<1>6. e \in Seq(S) /\ Len(e) = n /\ f \in Seq(S) /\ Len(f) = n + 1
  <2> HIDE DEF e, f, S, n, long
  <2> QED
    BY <1>1, <1>3, <1>4, <1>5, FunFacts
<1>7. /\ g \in Seq(S) /\ Len(g) = n + 1 /\ g[n + 1] = Effect(t)
      /\ \A i \in 1 .. n : g[i] = e[i]
  <2>1. Effect(t) \in S
    OBVIOUS
  <2> HIDE DEF e, S
  <2> QED
    BY <1>6, <2>1, AppendProperties
<1>8. \A i \in 1 .. n + 1 : f[i] = g[i]
  <2>1. \A i \in 1 .. n + 1 : i \in 1 .. n \/ i = n + 1
    BY <1>1
  <2> HIDE DEF e, f, g, n, long
  <2> QED
    BY <1>2, <1>4, <1>5, <1>7, <2>1
<1>9. f = g
  <2> HIDE DEF e, f, g, n, S
  <2> QED
    BY <1>6, <1>7, <1>8, SeqEqual
<1> QED
  BY <1>4, <1>6, <1>9

(* The undo of the last transaction takes away what it has added.          *)
LEMMA UndoLast ==
    ASSUME NEW S, NEW E \in Seq(S), NEW e, ledger = Append(E, e), Unmixed,
           e.tx = CurTx, e.part \in {"all", "some"}, \A i \in 1 .. Len(E) : E[i].tx # CurTx
    PROVE  InOrder(CurTx) /\ \A incident : Undo(CurTx, incident) => ledger' = E
<1> DEFINE n == Len(E)
           kept == Others(CurTx)
           size == Cardinality(kept)
<1>1. n \in Nat /\ E \in [1 .. n -> S]
  BY LenProperties
<1>2. /\ Len(ledger) = n + 1 /\ DOMAIN ledger = 1 .. n + 1 /\ ledger[n + 1] = e
      /\ \A i \in 1 .. n : ledger[i] = E[i]
  <2>1. E \in Seq(S \cup {e})
    <3>1. E \in [1 .. n -> S \cup {e}]
      BY <1>1
    <3> HIDE DEF n
    <3> QED
      BY <1>1, <3>1, SeqDef
  <2>2. /\ ledger \in Seq(S \cup {e}) /\ Len(ledger) = n + 1 /\ ledger[n + 1] = e
        /\ \A i \in 1 .. n : ledger[i] = E[i]
    BY <2>1, AppendProperties
  <2>3. DOMAIN ledger = 1 .. n + 1
    BY <2>2, LenProperties
  <2> QED
    BY <2>2, <2>3
<1>3. \A i \in 1 .. n + 1 : ledger[i].tx # CurTx <=> i \in 1 .. n
  <2>1. \A i \in 1 .. n + 1 : i \in 1 .. n \/ i = n + 1
    BY <1>1
  <2>2. ~ (n + 1 \in 1 .. n)
    BY <1>1
  <2> HIDE DEF n
  <2> QED
    BY <1>2, <2>1, <2>2 DEF n
<1>4. kept = 1 .. n
  <2>1. 1 .. n \subseteq 1 .. n + 1
    BY <1>1
  <2> HIDE DEF n
  <2> QED
    BY <1>2, <1>3, <2>1 DEF Others
<1>5. size = n /\ \A k \in 1 .. n : Nth(kept, k) = k
  <2>1. Cardinality(1 .. n) = n
    <3> HIDE DEF n
    <3> QED
      BY <1>1, FS_Interval
  <2>2. ASSUME NEW k \in 1 .. n PROVE Nth(1 .. n, k) = k
    <3>1. k \in 1 .. n - 0 /\ 0 \in Nat /\ 0 + 1 = 1 /\ 0 + k = k
      BY <1>1
    <3>2. Nth((0 + 1) .. n, k) = 0 + k
      <4> HIDE DEF n
      <4> QED
        BY <1>1, <3>1, NthInterval
    <3> QED
      BY <3>1, <3>2
  <2> HIDE DEF n, kept
  <2> QED
    BY <1>4, <2>1, <2>2
<1>6. InOrder(CurTx)
  <2>1. \A i \in DOMAIN ledger : ledger[i].tx = CurTx => i = n + 1
    BY <1>2, <1>3
  <2>2. \A j \in DOMAIN ledger : ~ (n + 1 < j)
    BY <1>1, <1>2
  <2> HIDE DEF n
  <2> QED
    BY <1>2, <2>1, <2>2 DEF InOrder, Unmixed
<1>7. ASSUME Keep(kept) PROVE ledger' = E
  <2>1. ledger' = [k \in 1 .. size |-> ledger[Nth(kept, k)]]
    BY <1>7 DEF Keep
  <2> HIDE DEF n, kept, size
  <2>2. ledger' = [k \in 1 .. n |-> E[k]]
    BY <1>2, <1>5, <2>1
  <2> QED
    BY <1>1, <2>2
<1> QED
  BY <1>6, <1>7 DEF Undo

(* Chains that agree up to n have the same transactions there.             *)
LEMMA DoneSame ==
    ASSUME NEW c \in Seq(Payloads), NEW d \in Seq(Payloads),
           NEW n \in 0 .. Len(c), n \in 0 .. Len(d), Upto(c, n) = Upto(d, n)
    PROVE  /\ Done(c, n, 0) => Done(d, n, 0)
           /\ Done(c, n, 0)' => Done(d, n, 0)'
<1>1. \A i \in 1 .. n : c[i] = d[i]
  <2>1. \A i \in 1 .. n : Upto(c, n)[i] = c[i] /\ Upto(d, n)[i] = d[i]
    BY UptoFacts
  <2> QED
    BY <2>1
<1>2. Len(c) \in Nat /\ Len(d) \in Nat /\ n \in Nat
  BY LenProperties
<1>3. ASSUME NEW s \in Before(d, n, 0) PROVE s \in Before(c, n, 0) /\ TxAt(c, s) = TxAt(d, s)
  <2>1. s \in Slots(d) /\ s[1] <= n
    BY BeforeFacts
  <2>2. /\ s = <<s[1], s[2]>> /\ s[1] \in 1 .. Len(d) /\ s[1] \in Nat /\ s[2] \in Nat
        /\ s[2] \in 1 .. Len(d[s[1]].txs)
    BY <2>1, SlotFacts
  <2>3. s[1] \in 1 .. n /\ s[1] \in 1 .. Len(c)
    BY <1>2, <2>1, <2>2
  <2>4. c[s[1]] = d[s[1]]
    BY <1>1, <2>3
  <2>5. s \in Slots(c)
    BY <2>2, <2>3, <2>4 DEF Slots
  <2> QED
    BY <2>1, <2>4, <2>5, BeforeFacts DEF TxAt
<1>4. TxsTo(c, n, 0) = TxsTo(d, n, 0)
  BY DEF TxsTo
<1>5. Sound(c, Before(c, n, 0)) => Sound(d, Before(d, n, 0))
  BY <1>3 DEF Sound
<1>6. Sound(c, Before(c, n, 0))' => Sound(d, Before(d, n, 0))'
  BY <1>3 DEF Sound
<1>7. /\ Exact(c, n, 0) => Exact(d, n, 0)
      /\ Exact(c, n, 0)' => Exact(d, n, 0)'
  BY <1>4 DEF Exact
<1> QED
  BY <1>5, <1>6, <1>7 DEF Done

LEMMA WholeIsDone ==
    ASSUME NEW c \in Seq(Payloads)
    PROVE  /\ AllApplied(c) <=> Done(c, Len(c), 0)
           /\ AllApplied(c)' <=> Done(c, Len(c), 0)'
           /\ \A n \in 0 .. Len(c) : /\ AllApplied(Upto(c, n)) <=> Done(c, n, 0)
                                     /\ AllApplied(Upto(c, n))' <=> Done(c, n, 0)'
<1>1. Len(c) \in Nat /\ Len(c) \in 0 .. Len(c)
  BY LenProperties
<1>2. \A d \in Seq(Payloads) : /\ AllApplied(d) <=> Done(d, Len(d), 0)
                               /\ AllApplied(d)' <=> Done(d, Len(d), 0)'
  <2> SUFFICES ASSUME NEW d \in Seq(Payloads)
               PROVE  /\ AllApplied(d) <=> Done(d, Len(d), 0)
                      /\ AllApplied(d)' <=> Done(d, Len(d), 0)'
    OBVIOUS
  <2>1. Len(d) \in 0 .. Len(d)
    BY LenProperties
  <2>2. Before(d, Len(d), 0) = Slots(d) /\ TxsTo(d, Len(d), 0) = ChainTxs(d)
    BY <2>1, BeforeFacts, UptoAll DEF TxsTo
  <2> QED
    BY <2>2 DEF AllApplied, Done, Exact
<1>3. ASSUME NEW n \in 0 .. Len(c)
      PROVE  /\ AllApplied(Upto(c, n)) <=> Done(c, n, 0)
             /\ AllApplied(Upto(c, n))' <=> Done(c, n, 0)'
  <2> DEFINE d == Upto(c, n)
  <2>1. d \in Seq(Payloads) /\ Len(d) = n /\ n \in 0 .. n /\ n \in Nat
    BY UptoFacts
  <2>2. Upto(d, n) = Upto(c, n) /\ n \in 0 .. Len(d)
    BY <2>1, UptoUpto
  <2> HIDE DEF d
  <2>3. /\ Done(d, n, 0) <=> Done(c, n, 0)
        /\ Done(d, n, 0)' <=> Done(c, n, 0)'
    BY <2>1, <2>2, DoneSame
  <2>4. /\ AllApplied(d) <=> Done(c, n, 0)
        /\ AllApplied(d)' <=> Done(c, n, 0)'
    BY <1>2, <2>1, <2>3
  <2> QED
    BY <2>4 DEF d
<1> QED
  BY <1>1, <1>2, <1>3

(* A transaction is logged that was not, or unlogged.                      *)
LEMMA SoundAdds ==
    ASSUME NEW c, NEW S, NEW s, Sound(c, S),
           TxAt(c, s) \notin logTx, logTx' = logTx \cup {TxAt(c, s)}
    PROVE  Sound(c, S \cup {s})'
BY DEF Sound, TxAt

LEMMA SoundRemoves ==
    ASSUME NEW c, NEW S, NEW s, s \notin S, Sound(c, S \cup {s}), logTx' = logTx \ {TxAt(c, s)}
    PROVE  Sound(c, S)'
BY DEF Sound, TxAt

LEMMA SoundSame ==
    ASSUME logTx' = logTx
    PROVE  \A c, S : Sound(c, S) <=> Sound(c, S)'
BY DEF Sound, TxAt

-----------------------------------------------------------------------------
(* The invariant.                                                          *)

AtTx == {"mark", "exec", "rollback", "log"}

(* The blocks of c up to n are applied, and of the next one what the job   *)
(* has got through.                                                        *)
Applying(c, n) ==
    /\ job.step \in {"header", "error"} => Done(c, n, 0)
    /\ job.step \in AtTx => /\ job.pos \in 1 .. Len(c[n + 1].txs)
                            /\ Sound(c, Before(c, n, job.pos - 1))
    /\ job.step \in {"mark", "exec"} => Exact(c, n, job.pos - 1)
    /\ job.step = "log" => Exact(c, n, job.pos)
    /\ job.step = "rollback" =>
           ledger = Append(EffectsOf(TxsTo(c, n, job.pos - 1)), Part(CurTx))
    /\ job.step = "info" => Done(c, n + 1, 0)
    /\ job.step \in {"error"} \cup Within => n < Len(c)

(* The blocks of c are undone down to m.                                   *)
Undoing(c, m) ==
    \E n \in m .. Len(c) :
        /\ job.todo = Downwards(c, m, n)
        /\ n = m => job.step = "unlog" /\ Done(c, m, 0)
        /\ n > m /\ job.step = "unlog" => /\ job.pos \in 0 .. Len(c[n].txs)
                                         /\ Done(c, n - 1, job.pos)
        /\ n > m /\ job.step = "undo" => /\ job.pos \in 1 .. Len(c[n].txs)
                                        /\ Sound(c, Before(c, n - 1, job.pos - 1))
                                        /\ Exact(c, n - 1, job.pos)

(* The transactions of a chain are logged or queued.                       *)
Queued(c) == \A s \in Slots(c) : TxAt(c, s) \in logTx \cup queue

AddsTxs ==
    job.mode \in AddModes =>
        /\ job.step \in {"form", "row", "header", "error"} => AllApplied(info.blk)
        /\ job.step \in Within => Applying(Cur, Len(Cur) - 1)

Applies(c) ==
    \E n \in Len(job.base) .. Len(c) : job.todo = Upwards(c, n) /\ Applying(c, n)

Replaces(own) ==
    /\ job.mode = "undoOwn" => Undoing(own, Len(job.base))
    /\ job.mode = "fork"    => Applies(job.new)
    /\ job.mode = "undoNew" => Undoing(job.new, Len(job.base))
    /\ job.mode = "restore" => Applies(own)

ForkTxs ==
    job.mode \in ForkModes => \E own : HasOwn(own) /\ Queued(own) /\ Replaces(own)

Keeps ==
    /\ job.mode \in {"none", "loop"} => AllApplied(info.blk)
    /\ AddsTxs
    /\ ForkTxs
    /\ job.mode = "commit" => AllApplied(job.new)
    /\ job.mode = "reset" => Undoing(info.blk, job.at)

KeepInv == incidents = {} => Keeps /\ crashes = 0

(* Each mode has its part.                                                 *)
LEMMA WaitKeeps ==
    ASSUME AllApplied(info.blk)', job'.mode \in {"none", "loop"} PROVE Keeps'
BY DEF Keeps, AddsTxs, ForkTxs, AddModes, ForkModes

LEMMA AddKeeps ==
    ASSUME AddsTxs', job'.mode \in AddModes PROVE Keeps'
BY DEF Keeps, ForkTxs, AddModes, ForkModes

LEMMA ForkKeeps ==
    ASSUME ForkTxs', job'.mode \in ForkModes PROVE Keeps'
BY DEF Keeps, AddsTxs, AddModes, ForkModes

LEMMA CommitKeeps ==
    ASSUME AllApplied(job.new)', job'.mode = "commit" PROVE Keeps'
BY DEF Keeps, AddsTxs, ForkTxs, AddModes, ForkModes

LEMMA ResetKeeps ==
    ASSUME Undoing(info.blk, job.at)', job'.mode = "reset" PROVE Keeps'
BY DEF Keeps, AddsTxs, ForkTxs, AddModes, ForkModes

-----------------------------------------------------------------------------
(* Steps within a block.                                                   *)

LEMMA CurFacts ==
    ASSUME NEW c \in Seq(Payloads), NEW n \in 0 .. Len(c) - 1, Cur = Upto(c, n + 1)
    PROVE  /\ n \in Nat /\ n + 1 \in 1 .. Len(c) /\ n < Len(c) /\ n \in 0 .. Len(c)
           /\ Len(c[n + 1].txs) \in Nat /\ Txs(Cur) = c[n + 1].txs
           /\ c[n + 1].txs = <<>> <=> Len(c[n + 1].txs) = 0
           /\ CurTx = TxAt(c, <<n + 1, job.pos>>)
<1>1. n \in Nat /\ n + 1 \in 1 .. Len(c) /\ n < Len(c) /\ n \in 0 .. Len(c)
  BY LenProperties
<1>2. /\ Len(c[n + 1].txs) \in Nat /\ Txs(Upto(c, n + 1)) = c[n + 1].txs
      /\ c[n + 1].txs = <<>> <=> Len(c[n + 1].txs) = 0
  BY <1>1, TxsFacts
<1> QED
  BY <1>1, <1>2 DEF CurTx, TxAt

(* What is applied is of the chain, so that a transaction is not there that*)
(* is not logged yet.                                                      *)
LEMMA NotApplied ==
    ASSUME Inv, Unmixed, crashes = 0, CurTx \notin logTx, job.step = "rollback",
           NEW txs \in Seq(Tx),
           ledger = Append(EffectsOf(txs), Part(CurTx))
    PROVE  \A i \in 1 .. Len(txs) : txs[i] # CurTx
<1> DEFINE e == EffectsOf(txs)
<1> SUFFICES ASSUME NEW i \in 1 .. Len(txs), txs[i] = CurTx PROVE FALSE
  OBVIOUS
<1>1. CurTx \in Tx /\ Len(txs) \in Nat
  BY LenProperties, ElementOfSeq
<1>2. Len(e) = Len(txs) /\ e[i] = Effect(CurTx) /\ e \in Seq({Effect(u) : u \in Tx})
  BY <1>1, EffectsFacts
<1>3. e \in Seq(Effects)
  <2>1. {Effect(u) : u \in Tx} \subseteq Effects
    BY DEF Effect, Effects, Parts
  <2> HIDE DEF e
  <2> QED
    BY <1>2, <2>1, SeqMonotonic
<1>4. Part(CurTx) \in Effects
  BY <1>1 DEF Part, Effects, Parts
<1>5. ledger[i] = e[i] /\ i \in DOMAIN ledger
  <2>1. ledger = Append(e, Part(CurTx))
    OBVIOUS
  <2> HIDE DEF e
  <2>2. /\ ledger \in Seq(Effects) /\ Len(ledger) = Len(e) + 1
        /\ \A k \in 1 .. Len(e) : ledger[k] = e[k]
    BY <1>3, <1>4, <2>1, AppendProperties
  <2>3. DOMAIN ledger = 1 .. Len(ledger) /\ i \in 1 .. Len(e) + 1
    BY <1>1, <1>2, <2>2, LenProperties
  <2> QED
    BY <1>2, <2>2, <2>3
<1>6. CurTx \in Applied
  BY <1>2, <1>5 DEF Applied, Whole, Effect
<1>7. Gap = {}
  BY GapFacts, FS_EmptySet DEF Inv, LogInv, Matched
<1> QED
  BY <1>6, <1>7 DEF Gap

(* What a failed transaction has done is last in the ledger.               *)
LEMMA RolledBackLast ==
    ASSUME Inv, Unmixed, crashes = 0,
           NEW c \in Seq(Payloads), NEW n \in 0 .. Len(c) - 1, Cur = Upto(c, n + 1),
           Applying(c, n), job.step = "rollback"
    PROVE  /\ InOrder(CurTx)
           /\ \A incident : Undo(CurTx, incident) =>
                  ledger' = EffectsOf(TxsTo(c, n, job.pos - 1))
<1>1. PICK k \in 1 .. Len(c[n + 1].txs) : k = job.pos
  BY DEF Applying, AtTx
<1>2. PICK i \in 1 .. Len(c) : i = n + 1 /\ i - 1 = n
  BY CurFacts
<1>3. k \in 1 .. Len(c[i].txs) /\ CurTx = c[i].txs[k]
  BY <1>1, <1>2, CurFacts DEF TxAt
<1>4. TxsTo(c, i - 1, k - 1) \in Seq(Tx) /\ CurTx \in Tx
  BY <1>3, TxsToFacts
<1>5. PICK txs \in Seq(Tx) : txs = TxsTo(c, n, k - 1)
  BY <1>2, <1>4
<1>6. ledger = Append(EffectsOf(txs), Part(CurTx))
  BY <1>1, <1>5 DEF Applying
<1>7. \A l \in 1 .. Len(txs) : txs[l] # CurTx
  BY <1>6, NotApplied DEF Inv, LogInv, Critical
<1>8. /\ EffectsOf(txs) \in Seq({Effect(u) : u \in Tx})
      /\ \A l \in 1 .. Len(EffectsOf(txs)) : EffectsOf(txs)[l].tx # CurTx
  <2>1. /\ EffectsOf(txs) \in Seq({Effect(u) : u \in Tx}) /\ Len(EffectsOf(txs)) = Len(txs)
        /\ \A l \in 1 .. Len(txs) : EffectsOf(txs)[l] = Effect(txs[l])
    BY <1>4, EffectsFacts
  <2>2. \A u : Effect(u).tx = u
    BY DEF Effect
  <2> QED
    BY <1>7, <2>1, <2>2
<1>9. Part(CurTx).tx = CurTx /\ Part(CurTx).part = "some"
  BY DEF Part
<1>10. InOrder(CurTx) /\ \A incident : Undo(CurTx, incident) => ledger' = EffectsOf(txs)
  BY <1>6, <1>8, <1>9, UndoLast
<1> QED
  BY <1>1, <1>5, <1>10

(* A step of applying keeps what is logged sound and the ledger exact,     *)
(* unless something goes wrong.                                            *)
LEMMA ApplyingStays ==
    ASSUME Inv, Unmixed, crashes = 0,
           NEW c \in Seq(Payloads), NEW n \in 0 .. Len(c) - 1, Cur = Upto(c, n + 1),
           Applying(c, n), incidents' = {},
           \/ CheckHeader \/ MarkTx \/ ExecTx \/ FrontFails \/ InitFails \/ MainFails
           \/ RollbackTo \/ LogTx
    PROVE  Applying(c, n)'
<1>1. IsJob(job)
  BY DEF Inv, JobInv, AtWork
<1>2. /\ n \in Nat /\ n + 1 \in 1 .. Len(c) /\ n < Len(c) /\ n \in 0 .. Len(c) /\ n + 1 - 1 = n
      /\ Len(c[n + 1].txs) \in Nat /\ Txs(Cur) = c[n + 1].txs
      /\ c[n + 1].txs = <<>> <=> Len(c[n + 1].txs) = 0
      /\ CurTx = TxAt(c, <<n + 1, job.pos>>)
  BY CurFacts
<1> DEFINE len == Len(c[n + 1].txs)
<1>3. ASSUME logTx' = logTx PROVE \A S : Sound(c, S) <=> Sound(c, S)'
  BY <1>3, SoundSame
<1>4. ASSUME ledger' = ledger PROVE \A k : Exact(c, n, k) <=> Exact(c, n, k)'
  BY <1>4 DEF Exact
(* Where the job is. *)
<1>5. ASSUME job.step \in AtTx
      PROVE  \E k \in 1 .. len : /\ k = job.pos /\ k - 1 \in Nat /\ Sound(c, Before(c, n, k - 1))
                                 /\ TxsTo(c, n, k - 1) \in Seq(Tx) /\ CurTx \in Tx
                                 /\ TxsTo(c, n, k) = Append(TxsTo(c, n, k - 1), CurTx)
                                 /\ EffectsOf(TxsTo(c, n, k))
                                        = Append(EffectsOf(TxsTo(c, n, k - 1)), Effect(CurTx))
  <2>1. PICK k \in 1 .. len : k = job.pos
    BY <1>5 DEF Applying
  <2>2. PICK i \in 1 .. Len(c) : i = n + 1 /\ i - 1 = n
    BY <1>2
  <2>3. k \in 1 .. Len(c[i].txs) /\ CurTx = c[i].txs[k] /\ k - 1 \in Nat
    BY <1>2, <2>1, <2>2 DEF TxAt
  <2>4. /\ TxsTo(c, i - 1, k - 1) \in Seq(Tx) /\ c[i].txs[k] \in Tx
        /\ TxsTo(c, i - 1, k) = Append(TxsTo(c, i - 1, k - 1), c[i].txs[k])
    BY <2>3, TxsToFacts
  <2>5. /\ TxsTo(c, n, k - 1) \in Seq(Tx) /\ CurTx \in Tx
        /\ TxsTo(c, n, k) = Append(TxsTo(c, n, k - 1), CurTx)
    BY <2>2, <2>3, <2>4
  <2>6. EffectsOf(TxsTo(c, n, k)) = Append(EffectsOf(TxsTo(c, n, k - 1)), Effect(CurTx))
    BY <2>5, EffectsFacts
  <2>7. Sound(c, Before(c, n, k - 1))
    BY <1>5, <2>1 DEF Applying
  <2> QED
    BY <2>1, <2>3, <2>5, <2>6, <2>7
(* The step stays at the transaction, or refuses the first one. *)
<1>6. ASSUME logTx' = logTx, job.step \in AtTx, job'.step \in AtTx, job'.pos = job.pos,
             job'.step \in {"mark", "exec"} => Exact(c, n, job.pos - 1)',
             job'.step = "log" => Exact(c, n, job.pos)',
             job'.step = "rollback" =>
                 (ledger = Append(EffectsOf(TxsTo(c, n, job.pos - 1)), Part(CurTx)))'
      PROVE  Applying(c, n)'
  <2>1. PICK k \in 1 .. len : k = job.pos /\ Sound(c, Before(c, n, k - 1))
    BY <1>5, <1>6
  <2>2. Sound(c, Before(c, n, k - 1))'
    BY <1>3, <1>6, <2>1
  <2> QED
    BY <1>2, <1>6, <2>1, <2>2 DEF Applying, AtTx, Within
<1>7. ASSUME logTx' = logTx, job.step \in AtTx, job.pos = 1, job'.step = "error",
             job'.pos = job.pos, Exact(c, n, job.pos - 1)'
      PROVE  Applying(c, n)'
  <2>1. PICK k \in 1 .. len : k = job.pos /\ Sound(c, Before(c, n, k - 1))
    BY <1>5, <1>7
  <2>2. k - 1 = 0
    BY <1>7, <2>1
  <2>3. Done(c, n, 0)'
    <3>1. Sound(c, Before(c, n, k - 1))'
      BY <1>3, <1>7, <2>1
    <3>2. Exact(c, n, 0)'
      <4>1. job'.pos - 1 = 0
        BY <1>7
      <4> QED
        BY <1>7, <4>1 DEF Exact
    <3> QED
      BY <2>2, <3>1, <3>2 DEF Done
  <2> QED
    BY <1>2, <1>7, <2>3 DEF Applying, AtTx, Within
<1>8. ASSUME job.step \in AtTx, RecordStop PROVE job.pos = 1
  BY <1>8 DEF RecordStop
<1>9. CASE CheckHeader
  <2>1. Done(c, n, 0)' /\ Done(c, n, 0)
    BY <1>3, <1>4, <1>9 DEF CheckHeader, Applying, Done
  <2>2. CASE ~ GoodHeader(Cur)
    <3>1. job'.step = "error"
      BY <1>1, <1>9, <2>2 DEF CheckHeader, IsJob, JobFields
    <3> QED
      BY <1>2, <2>1, <3>1 DEF Applying, AtTx, Within
  <2>3. CASE GoodHeader(Cur) /\ len = 0
    <3>1. job'.step = "info"
      BY <1>1, <1>2, <1>9, <2>3 DEF CheckHeader, IsJob, JobFields
    <3>2. Done(c, n + 1, 0)'
      <4>1. /\ Before(c, n, len) = Before(c, n + 1, 0)
            /\ TxsTo(c, n, len) = TxsTo(c, n + 1, 0)
        BY <1>2, BeforeFacts, TxsToBlock
      <4> QED
        BY <2>1, <2>3, <4>1 DEF Done, Exact
    <3> QED
      BY <1>2, <3>1, <3>2 DEF Applying, AtTx, Within
  <2>4. CASE GoodHeader(Cur) /\ len # 0
    <3>1. job'.step = "mark" /\ job'.pos = 1
      BY <1>1, <1>2, <1>9, <2>4 DEF CheckHeader, IsJob, JobFields
    <3> QED
      BY <1>2, <2>1, <2>4, <3>1 DEF Applying, AtTx, Within, Done
  <2> QED
    BY <2>2, <2>3, <2>4
<1>10. CASE MarkTx
  <2>1. logTx' = logTx /\ ledger' = ledger /\ job.step = "mark" /\ job.step \in AtTx
    BY <1>10 DEF MarkTx, AtTx
  <2>2. PICK k : k = job.pos - 1 /\ Exact(c, n, k)'
    BY <1>4, <2>1 DEF Applying
  <2>3. CASE IsDouble(CurTx)
    <3>1. RecordStop /\ job'.step = "error" /\ job'.pos = job.pos
      BY <1>1, <1>10, <2>3 DEF MarkTx, RollbackFront, IsJob, JobFields
    <3>2. Exact(c, n, job.pos - 1)'
      BY <2>2, <3>1
    <3> QED
      BY <1>7, <1>8, <2>1, <3>1, <3>2
  <2>4. CASE ~ IsDouble(CurTx)
    <3>1. job'.step = "exec" /\ job'.pos = job.pos
      BY <1>1, <1>10, <2>4 DEF MarkTx, IsJob, JobFields
    <3>2. Exact(c, n, job.pos - 1)'
      BY <2>2, <3>1
    <3> QED
      BY <1>6, <2>1, <3>1, <3>2 DEF AtTx
  <2> QED
    BY <2>3, <2>4
<1>11. CASE ExecTx
  <2>1. /\ logTx' = logTx /\ job.step = "exec" /\ job.step \in AtTx /\ job'.step = "log"
        /\ job'.pos = job.pos /\ ledger' = Append(ledger, Effect(CurTx))
    BY <1>1, <1>11 DEF ExecTx, Apply, Effect, AtTx, IsJob, JobFields
  <2>2. PICK k \in 1 .. len :
            /\ k = job.pos
            /\ EffectsOf(TxsTo(c, n, k)) = Append(EffectsOf(TxsTo(c, n, k - 1)), Effect(CurTx))
    BY <1>5, <2>1
  <2>3. ledger = EffectsOf(TxsTo(c, n, k - 1))
    BY <2>1, <2>2 DEF Applying, Exact
  <2>4. Exact(c, n, k)'
    BY <2>1, <2>2, <2>3 DEF Exact
  <2>5. Exact(c, n, job.pos)'
    BY <2>1, <2>2, <2>4
  <2> QED
    BY <1>6, <2>1, <2>5 DEF AtTx
<1>12. CASE MainFails
  <2>1. /\ logTx' = logTx /\ job.step = "exec" /\ job.step \in AtTx /\ job'.step = "rollback"
        /\ job'.pos = job.pos /\ job'.todo = job.todo /\ ledger' = Append(ledger, Part(CurTx))
    BY <1>1, <1>12 DEF MainFails, Apply, Part, AtTx, IsJob, JobFields
  <2>2. PICK k : k = job.pos - 1 /\ ledger = EffectsOf(TxsTo(c, n, k))
    BY <2>1 DEF Applying, Exact
  <2>3. CurTx' = CurTx
    BY <2>1 DEF CurTx, Cur
  <2>4. (ledger = Append(EffectsOf(TxsTo(c, n, job.pos - 1)), Part(CurTx)))'
    BY <2>1, <2>2, <2>3 DEF Part
  <2> QED
    BY <1>6, <2>1, <2>4 DEF AtTx
<1>13. CASE FrontFails
  <2>1. /\ logTx' = logTx /\ ledger' = ledger /\ job.step = "exec" /\ job.step \in AtTx
        /\ RecordStop /\ job'.step = "error" /\ job'.pos = job.pos
    BY <1>1, <1>13 DEF FrontFails, RollbackFront, AtTx, IsJob, JobFields
  <2>2. PICK k : k = job.pos - 1 /\ Exact(c, n, k)'
    BY <1>4, <2>1 DEF Applying
  <2>3. Exact(c, n, job.pos - 1)'
    BY <2>1, <2>2
  <2> QED
    BY <1>7, <1>8, <2>1, <2>3
<1>14. CASE RollbackTo
  <2>1. /\ logTx' = logTx /\ job.step = "rollback" /\ job.step \in AtTx
        /\ job'.step = "error" /\ job'.pos = job.pos
        /\ Undo(CurTx, IF job.pos = 1 THEN {} ELSE {"stopped"})
    BY <1>1, <1>14 DEF RollbackTo, AtTx, IsJob, JobFields
  <2>2. ledger' = EffectsOf(TxsTo(c, n, job.pos - 1))
    BY <2>1, RolledBackLast
  <2>3. Exact(c, n, job.pos - 1)'
    BY <2>1, <2>2 DEF Exact
  <2>4. job.pos = 1
    BY <2>1 DEF Undo
  <2> QED
    BY <1>7, <2>1, <2>3, <2>4
<1>15. CASE InitFails
  BY <1>15 DEF InitFails
<1>16. CASE LogTx
  <2>1. PICK k \in 1 .. len : k = job.pos /\ Sound(c, Before(c, n, k - 1))
    BY <1>5, <1>16 DEF LogTx, AtTx
  <2>2. /\ TxAt(c, <<n + 1, k>>) \notin logTx
        /\ logTx' = logTx \cup {TxAt(c, <<n + 1, k>>)} /\ ledger' = ledger
    BY <1>2, <1>16, <2>1 DEF LogTx, Inv, LogInv, Critical
  <2>3. Sound(c, Before(c, n, k))'
    <3>1. Before(c, n, k) = Before(c, n, k - 1) \cup {<<n + 1, k>>}
      <4>1. PICK i \in 1 .. Len(c) : i = n + 1
        BY <1>2
      <4>2. k \in 1 .. Len(c[i].txs) /\ i - 1 = n
        BY <1>2, <4>1
      <4>3. /\ <<i, k>> \in Slots(c) /\ <<i, k>> \notin Before(c, i - 1, k - 1)
            /\ Before(c, i - 1, k) = Before(c, i - 1, k - 1) \cup {<<i, k>>}
        BY <4>2, BeforeTx
      <4> QED
        BY <4>1, <4>2, <4>3
    <3>2. Sound(c, Before(c, n, k - 1) \cup {<<n + 1, k>>})'
      BY <2>1, <2>2, SoundAdds
    <3> QED
      BY <3>1, <3>2
  <2>4. Exact(c, n, k)'
    BY <1>4, <1>16, <2>1, <2>2 DEF LogTx, Applying
  <2>5. CASE k < len
    <3>1. job'.step = "mark" /\ job'.pos = k + 1
      BY <1>1, <1>2, <1>16, <2>1, <2>5 DEF LogTx, IsJob, JobFields
    <3>2. job'.pos \in 1 .. len /\ job'.pos - 1 = k
      BY <1>2, <2>5, <3>1
    <3> QED
      BY <1>2, <2>3, <2>4, <3>1, <3>2 DEF Applying, AtTx, Within
  <2>6. CASE ~ (k < len)
    <3>1. job'.step = "info" /\ k = len
      BY <1>1, <1>2, <1>16, <2>1, <2>6 DEF LogTx, IsJob, JobFields
    <3>2. Done(c, n + 1, 0)'
      <4>1. /\ Before(c, n, len) = Before(c, n + 1, 0)
            /\ TxsTo(c, n, len) = TxsTo(c, n + 1, 0)
        BY <1>2, BeforeFacts, TxsToBlock
      <4> QED
        BY <2>3, <2>4, <3>1, <4>1 DEF Done, Exact
    <3> QED
      BY <1>2, <3>1, <3>2 DEF Applying, AtTx, Within
  <2> QED
    BY <2>5, <2>6
<1> QED
  BY <1>9, <1>10, <1>11, <1>12, <1>13, <1>14, <1>15, <1>16

-----------------------------------------------------------------------------
(* Undoing.                                                                *)

LEMMA DownTodo ==
    ASSUME NEW c \in Seq(Payloads), NEW m \in 1 .. Len(c), Undoing(c, m)
    PROVE  \E n \in m .. Len(c) :
               /\ n \in 1 .. Len(c) /\ n \in 0 .. Len(c) /\ Len(c) \in Nat /\ n \in Nat /\ m \in Nat
               /\ job.todo = Downwards(c, m, n) /\ (job.todo = <<>> <=> n = m)
               /\ n > m => /\ Cur = Upto(c, n) /\ Tail(job.todo) = Downwards(c, m, n - 1)
                           /\ Len(c[n].txs) \in Nat /\ CurTx = TxAt(c, <<n, job.pos>>)
               /\ n = m => job.step = "unlog" /\ Done(c, m, 0)
               /\ n > m /\ job.step = "unlog" => /\ job.pos \in 0 .. Len(c[n].txs)
                                                /\ Done(c, n - 1, job.pos)
               /\ n > m /\ job.step = "undo" => /\ job.pos \in 1 .. Len(c[n].txs)
                                               /\ Sound(c, Before(c, n - 1, job.pos - 1))
                                               /\ Exact(c, n - 1, job.pos)
<1>1. PICK n \in m .. Len(c) :
          /\ job.todo = Downwards(c, m, n)
          /\ n = m => job.step = "unlog" /\ Done(c, m, 0)
          /\ n > m /\ job.step = "unlog" => /\ job.pos \in 0 .. Len(c[n].txs)
                                           /\ Done(c, n - 1, job.pos)
          /\ n > m /\ job.step = "undo" => /\ job.pos \in 1 .. Len(c[n].txs)
                                          /\ Sound(c, Before(c, n - 1, job.pos - 1))
                                          /\ Exact(c, n - 1, job.pos)
  BY DEF Undoing
<1>2. n \in 1 .. Len(c) /\ n \in 0 .. Len(c) /\ Len(c) \in Nat /\ n \in Nat /\ m \in Nat /\ m \in 0 .. n
  BY LenProperties
<1>3. /\ job.todo = <<>> <=> n = m
      /\ n > m => Cur = Upto(c, n) /\ Tail(job.todo) = Downwards(c, m, n - 1)
  BY <1>1, <1>2, DownwardsFacts DEF Cur
<1>4. Len(c[n].txs) \in Nat /\ Txs(Upto(c, n)) = c[n].txs
  BY <1>2, TxsFacts
<1>5. n > m => CurTx = TxAt(c, <<n, job.pos>>)
  BY <1>3, <1>4 DEF CurTx, TxAt
<1> QED
  BY <1>1, <1>2, <1>3, <1>4, <1>5

LEMMA UndoingStarts ==
    ASSUME NEW c \in Seq(Payloads), NEW m \in 1 .. Len(c), NEW n \in m .. Len(c), Done(c, n, 0),
           job'.step = "unlog", job'.todo = Downwards(c, m, n), logTx' = logTx, ledger' = ledger,
           job'.pos = IF job'.todo = <<>> THEN 0 ELSE Len(Txs(Head(job'.todo)))
    PROVE  Undoing(c, m)'
<1>1. /\ n \in 1 .. Len(c) /\ n \in 0 .. Len(c) /\ Len(c) \in Nat /\ n \in Nat /\ m \in Nat
      /\ m \in 0 .. n /\ n - 1 \in 0 .. Len(c) /\ n - 1 < Len(c) /\ n - 1 + 1 = n
  BY LenProperties
<1>2. \A S : Sound(c, S) <=> Sound(c, S)'
  BY SoundSame
<1>3. CASE n = m
  BY <1>2, <1>3 DEF Undoing, Done, Exact
<1>4. CASE n > m
  <2>1. job'.todo # <<>> /\ Head(job'.todo) = Upto(c, n)
    <3>1. m < n /\ n # m
      BY <1>1, <1>4
    <3>2. Downwards(c, m, n) # <<>> /\ Head(Downwards(c, m, n)) = Upto(c, n)
      BY <1>1, <3>1, DownwardsFacts
    <3> QED
      BY <3>2
  <2>2. Len(c[n].txs) \in Nat /\ Txs(Upto(c, n)) = c[n].txs
    BY <1>1, TxsFacts
  <2>3. job'.pos = Len(c[n].txs) /\ job'.pos \in 0 .. Len(c[n].txs)
    BY <2>1, <2>2
  <2>4. /\ Before(c, n - 1, Len(c[n].txs)) = Before(c, n, 0)
        /\ TxsTo(c, n - 1, Len(c[n].txs)) = TxsTo(c, n, 0)
    <3>1. PICK k \in 0 .. Len(c) : k = n - 1
      BY <1>1
    <3>2. /\ Before(c, k, Len(c[k + 1].txs)) = Before(c, k + 1, 0)
          /\ TxsTo(c, k, Len(c[k + 1].txs)) = TxsTo(c, k + 1, 0)
      BY <1>1, <3>1, BeforeFacts, TxsToBlock
    <3> QED
      BY <1>1, <3>1, <3>2
  <2>5. Done(c, n - 1, job.pos)'
    BY <1>2, <2>3, <2>4 DEF Done, Exact
  <2> QED
    BY <1>1, <1>4, <2>3, <2>5 DEF Undoing
<1> QED
  BY <1>1, <1>3, <1>4

(* A transaction is applied once, so that its undo takes nothing else away.*)
LEMMA UndoneLast ==
    ASSUME Inv, Unmixed, crashes = 0, NEW txs \in Seq(Tx), CurTx \in Tx,
           ledger = Append(EffectsOf(txs), Effect(CurTx))
    PROVE  InOrder(CurTx) /\ \A incident : Undo(CurTx, incident) => ledger' = EffectsOf(txs)
<1> DEFINE e == EffectsOf(txs)
           n == Len(txs)
           S == {Effect(u) : u \in Tx}
<1>1. /\ n \in Nat /\ e \in Seq(S) /\ Len(e) = n /\ \A i \in 1 .. n : e[i] = Effect(txs[i])
  BY LenProperties, EffectsFacts
<1>2. Effect(CurTx) \in S /\ Effect(CurTx).tx = CurTx /\ Effect(CurTx).part = "all"
  BY DEF Effect
<1>3. /\ Len(ledger) = n + 1 /\ DOMAIN ledger = 1 .. n + 1 /\ ledger[n + 1] = Effect(CurTx)
      /\ \A i \in 1 .. n : ledger[i] = e[i]
  <2>1. ledger = Append(e, Effect(CurTx))
    OBVIOUS
  <2> HIDE DEF e, S
  <2>2. /\ ledger \in Seq(S) /\ Len(ledger) = n + 1 /\ ledger[n + 1] = Effect(CurTx)
        /\ \A i \in 1 .. n : ledger[i] = e[i]
    BY <1>1, <1>2, <2>1, AppendProperties
  <2> QED
    BY <2>2, LenProperties
<1>4. ASSUME NEW i \in 1 .. n, e[i].tx = CurTx PROVE FALSE
  <2>1. ledger[i] = Effect(CurTx)
    <3>1. \A u : Effect(u).tx = u
      BY DEF Effect
    <3> QED
      BY <1>1, <1>3, <1>4, <3>1
  <2>2. i \in DOMAIN ledger /\ n + 1 \in DOMAIN ledger /\ i # n + 1
    BY <1>1, <1>3
  <2> QED
    BY <1>2, <1>3, <2>1, <2>2 DEF Inv, Matched, Distinct
<1> HIDE DEF S
<1> QED
  BY <1>1, <1>2, <1>4, UndoLast

LEMMA UndoingStays ==
    ASSUME Inv, Unmixed, crashes = 0, NEW c \in Seq(Payloads), NEW m \in 1 .. Len(c), Undoing(c, m),
           UnlogTx \/ UndoTx
    PROVE  Undoing(c, m)'
<1>1. IsJob(job) /\ JobInv
  BY DEF Inv, JobInv, AtWork
<1>2. PICK n \in m .. Len(c) :
               /\ n \in 1 .. Len(c) /\ n \in 0 .. Len(c) /\ Len(c) \in Nat /\ n \in Nat /\ m \in Nat
               /\ job.todo = Downwards(c, m, n) /\ (job.todo = <<>> <=> n = m)
               /\ n > m => /\ Cur = Upto(c, n) /\ Tail(job.todo) = Downwards(c, m, n - 1)
                           /\ Len(c[n].txs) \in Nat /\ CurTx = TxAt(c, <<n, job.pos>>)
               /\ n = m => job.step = "unlog" /\ Done(c, m, 0)
               /\ n > m /\ job.step = "unlog" => /\ job.pos \in 0 .. Len(c[n].txs)
                                                /\ Done(c, n - 1, job.pos)
               /\ n > m /\ job.step = "undo" => /\ job.pos \in 1 .. Len(c[n].txs)
                                               /\ Sound(c, Before(c, n - 1, job.pos - 1))
                                               /\ Exact(c, n - 1, job.pos)
  BY DownTodo
<1>3. n > m
  <2>1. job.step = "undo" \/ (job.step = "unlog" /\ job.pos > 0)
    BY DEF UnlogTx, UndoTx
  <2>2. job.todo # <<>>
    BY <1>1, <2>1 DEF JobInv, AtWork
  <2> QED
    BY <1>2, <2>2
<1>4. CASE UnlogTx
  <2>1. /\ job'.step = "undo" /\ job'.todo = job.todo /\ job'.pos = job.pos
        /\ logTx' = logTx \ {CurTx} /\ ledger' = ledger /\ job.step = "unlog" /\ job.pos > 0
    BY <1>1, <1>4 DEF UnlogTx, IsJob, JobFields
  <2>2. PICK k \in 1 .. Len(c[n].txs) : k = job.pos
    BY <1>2, <1>3, <2>1
  <2>3. /\ <<n, k>> \in Slots(c) /\ <<n, k>> \notin Before(c, n - 1, k - 1)
        /\ Before(c, n - 1, k) = Before(c, n - 1, k - 1) \cup {<<n, k>>}
    BY <1>2, BeforeTx
  <2>4. /\ Sound(c, Before(c, n - 1, k - 1) \cup {<<n, k>>})
        /\ logTx' = logTx \ {TxAt(c, <<n, k>>)} /\ Exact(c, n - 1, k)
    BY <1>2, <1>3, <2>1, <2>2, <2>3 DEF Done
  <2>5. Sound(c, Before(c, n - 1, k - 1))' /\ Exact(c, n - 1, k)'
    <3>1. Sound(c, Before(c, n - 1, k - 1))'
      BY <2>3, <2>4, SoundRemoves
    <3> QED
      BY <2>1, <2>4, <3>1 DEF Exact
  <2> QED
    BY <1>2, <1>3, <2>1, <2>2, <2>5 DEF Undoing
<1>5. CASE UndoTx
  <2>1. /\ job'.step = "unlog" /\ job'.todo = job.todo /\ job'.pos = job.pos - 1
        /\ logTx' = logTx /\ job.step = "undo" /\ Undo(CurTx, {})
    BY <1>1, <1>5 DEF UndoTx, IsJob, JobFields
  <2>2. PICK k \in 1 .. Len(c[n].txs) : k = job.pos
    BY <1>2, <1>3, <2>1
  <2>3. Sound(c, Before(c, n - 1, k - 1))'
    BY <1>2, <1>3, <2>1, <2>2, SoundSame
  <2>4. Exact(c, n - 1, k - 1)'
    <3>1. /\ TxsTo(c, n - 1, k - 1) \in Seq(Tx) /\ c[n].txs[k] \in Tx
          /\ TxsTo(c, n - 1, k) = Append(TxsTo(c, n - 1, k - 1), c[n].txs[k])
      BY <1>2, TxsToFacts
    <3>2. PICK txs \in Seq(Tx) : txs = TxsTo(c, n - 1, k - 1)
      BY <3>1
    <3>3. CurTx = c[n].txs[k] /\ CurTx \in Tx
      BY <1>2, <1>3, <2>2, <3>1 DEF TxAt
    <3>4. ledger = Append(EffectsOf(txs), Effect(CurTx))
      BY <1>2, <1>3, <2>1, <2>2, <3>1, <3>2, <3>3, EffectsFacts DEF Exact
    <3>5. ledger' = EffectsOf(txs)
      BY <2>1, <3>3, <3>4, UndoneLast
    <3> QED
      BY <3>2, <3>5 DEF Exact
  <2>5. job'.pos = k - 1 /\ k - 1 \in 0 .. Len(c[n].txs)
    BY <1>2, <1>3, <2>1, <2>2
  <2> QED
    BY <1>2, <1>3, <2>1, <2>3, <2>4, <2>5 DEF Undoing, Done
<1> QED
  BY <1>4, <1>5

(* The transaction to be undone is last in the ledger.                     *)
LEMMA UndoIsLast ==
    ASSUME Inv, Unmixed, crashes = 0, NEW c \in Seq(Payloads), NEW m \in 1 .. Len(c),
           Undoing(c, m), job.step = "undo"
    PROVE  InOrder(CurTx)
<1>1. PICK n \in m .. Len(c) :
          /\ n \in 1 .. Len(c) /\ n \in Nat /\ m \in Nat
          /\ job.todo = <<>> <=> n = m
          /\ n > m => CurTx = TxAt(c, <<n, job.pos>>)
          /\ n > m /\ job.step = "undo" => /\ job.pos \in 1 .. Len(c[n].txs)
                                          /\ Exact(c, n - 1, job.pos)
  BY DownTodo
<1>2. n > m
  <2>1. job.todo # <<>>
    BY DEF Inv, JobInv, AtWork
  <2> QED
    BY <1>1, <2>1
<1>3. PICK k \in 1 .. Len(c[n].txs) : k = job.pos
  BY <1>1, <1>2
<1>4. /\ TxsTo(c, n - 1, k - 1) \in Seq(Tx) /\ c[n].txs[k] \in Tx
      /\ TxsTo(c, n - 1, k) = Append(TxsTo(c, n - 1, k - 1), c[n].txs[k])
  BY <1>1, TxsToFacts
<1>5. PICK txs \in Seq(Tx) : txs = TxsTo(c, n - 1, k - 1)
  BY <1>4
<1>6. CurTx = c[n].txs[k] /\ CurTx \in Tx
  BY <1>1, <1>2, <1>3, <1>4 DEF TxAt
<1>7. ledger = Append(EffectsOf(txs), Effect(CurTx))
  BY <1>1, <1>2, <1>3, <1>4, <1>5, <1>6, EffectsFacts DEF Exact
<1> QED
  BY <1>6, <1>7, UndoneLast

(* A block is undone, and the next lower one follows.                      *)
LEMMA UndoingGoesOn ==
    ASSUME JobInv, NEW c \in Seq(Payloads), NEW m \in 1 .. Len(c), Undoing(c, m), UndoneBlock
    PROVE  Undoing(c, m)'
<1>1. IsJob(job)
  BY DEF JobInv, AtWork
<1>2. /\ job.step = "unlog" /\ job.pos = 0 /\ job.todo # <<>>
      /\ logTx' = logTx /\ ledger' = ledger
      /\ job' = BeginUndo(job.mode, Tail(job.todo))
  BY DEF UndoneBlock
<1>3. /\ job'.step = "unlog" /\ job'.todo = Tail(job.todo)
      /\ job'.pos = IF job'.todo = <<>> THEN 0 ELSE Len(Txs(Head(job'.todo)))
  BY <1>1, <1>2, BeginUndoKeeps
<1>4. PICK n \in m .. Len(c) :
          /\ n \in 1 .. Len(c) /\ n \in 0 .. Len(c) /\ Len(c) \in Nat /\ n \in Nat /\ m \in Nat
          /\ job.todo = Downwards(c, m, n) /\ (job.todo = <<>> <=> n = m)
          /\ n > m => Tail(job.todo) = Downwards(c, m, n - 1)
          /\ n > m /\ job.step = "unlog" => Done(c, n - 1, job.pos)
  BY DownTodo
<1>5. n > m /\ n - 1 \in m .. Len(c) /\ Done(c, n - 1, 0) /\ Tail(job.todo) = Downwards(c, m, n - 1)
  BY <1>2, <1>4
<1> DEFINE k == n - 1
<1>6. k \in m .. Len(c) /\ Done(c, k, 0) /\ job'.todo = Downwards(c, m, k)
  BY <1>3, <1>5
<1> HIDE DEF k
<1> QED
  BY <1>2, <1>3, <1>6, UndoingStarts

LEMMA UndoingEnds ==
    ASSUME NEW c \in Seq(Payloads), NEW m \in 1 .. Len(c), Undoing(c, m), job.todo = <<>>
    PROVE  Done(c, m, 0)
BY DownTodo

-----------------------------------------------------------------------------
(* Applying the blocks of a chain one after the other.                     *)

LEMMA SameLog ==
    ASSUME logTx' = logTx, ledger' = ledger
    PROVE  \A c : /\ \A n, k : Done(c, n, k) <=> Done(c, n, k)'
                  /\ AllApplied(c) <=> AllApplied(c)'
BY SoundSame DEF Done, AllApplied, Exact

LEMMA UpTodo ==
    ASSUME NEW c \in Seq(Payloads), Len(job.base) \in 1 .. Len(c), Applies(c)
    PROVE  \E n \in Len(job.base) .. Len(c) :
               /\ n \in 0 .. Len(c) /\ n \in Nat /\ Len(c) \in Nat
               /\ job.todo = Upwards(c, n) /\ Applying(c, n)
               /\ job.todo = <<>> <=> n = Len(c)
               /\ n < Len(c) => /\ n \in 0 .. Len(c) - 1 /\ Cur = Upto(c, n + 1)
                                /\ Tail(job.todo) = Upwards(c, n + 1)
<1>1. PICK n \in Len(job.base) .. Len(c) : job.todo = Upwards(c, n) /\ Applying(c, n)
  BY DEF Applies
<1>2. n \in 0 .. Len(c) /\ n \in Nat /\ Len(c) \in Nat
  BY LenProperties
<1>3. /\ job.todo = <<>> <=> n = Len(c)
      /\ n < Len(c) => Cur = Upto(c, n + 1) /\ Tail(job.todo) = Upwards(c, n + 1)
  BY <1>1, <1>2, UpwardsFacts DEF Cur
<1> QED
  BY <1>1, <1>2, <1>3

LEMMA AppliesStarts ==
    ASSUME NEW c \in Seq(Payloads), Len(job'.base) \in 1 .. Len(c), Done(c, Len(job'.base), 0),
           job'.step = "header", job'.todo = Upwards(c, Len(job'.base)),
           logTx' = logTx, ledger' = ledger
    PROVE  Applies(c)'
<1>1. Len(job'.base) \in Len(job'.base) .. Len(c)
  BY LenProperties
<1>2. Applying(c, Len(job.base))'
  BY SameLog DEF Applying, AtTx, Within
<1> QED
  BY <1>1, <1>2 DEF Applies

LEMMA AppliesStays ==
    ASSUME Inv, Unmixed, crashes = 0,
           NEW c \in Seq(Payloads), Len(job.base) \in 1 .. Len(c), Applies(c), incidents' = {},
           \/ CheckHeader \/ MarkTx \/ ExecTx \/ FrontFails \/ InitFails \/ MainFails
           \/ RollbackTo \/ LogTx,
           SameTask
    PROVE  Applies(c)'
<1>1. PICK n \in Len(job.base) .. Len(c) :
               /\ n \in 0 .. Len(c) /\ n \in Nat /\ Len(c) \in Nat
               /\ job.todo = Upwards(c, n) /\ Applying(c, n)
               /\ job.todo = <<>> <=> n = Len(c)
               /\ n < Len(c) => n \in 0 .. Len(c) - 1 /\ Cur = Upto(c, n + 1)
  BY UpTodo
<1>2. job.todo # <<>>
  BY DEF Inv, JobInv, AtWork, CheckHeader, MarkTx, ExecTx, FrontFails, InitFails, MainFails,
         RollbackTo, LogTx
<1>3. n \in 0 .. Len(c) - 1 /\ Cur = Upto(c, n + 1)
  BY <1>1, <1>2
<1>4. Applying(c, n)'
  BY <1>1, <1>3, ApplyingStays
<1> QED
  BY <1>1, <1>4 DEF Applies, SameTask

LEMMA AppliesNext ==
    ASSUME IsJob(job), NEW c \in Seq(Payloads), Len(job.base) \in 1 .. Len(c), Applies(c),
           UpdBlockInfo, job.mode \in {"fork", "restore"}
    PROVE  Applies(c)'
<1>1. PICK n \in Len(job.base) .. Len(c) :
               /\ n \in 0 .. Len(c) /\ n \in Nat /\ Len(c) \in Nat
               /\ job.todo = Upwards(c, n) /\ Applying(c, n)
               /\ job.todo = <<>> <=> n = Len(c)
               /\ n < Len(c) => Tail(job.todo) = Upwards(c, n + 1)
  BY UpTodo
<1>2. /\ job.step = "info" /\ job.todo # <<>> /\ logTx' = logTx /\ ledger' = ledger
      /\ job' = [job EXCEPT !.step = "header", !.todo = Tail(job.todo)]
  BY DEF UpdBlockInfo
<1>3. job'.step = "header" /\ job'.todo = Tail(job.todo) /\ job'.base = job.base
  BY <1>2 DEF IsJob, JobFields
<1>4. n < Len(c) /\ n + 1 \in Len(job.base) .. Len(c) /\ Tail(job.todo) = Upwards(c, n + 1)
  BY <1>1, <1>2
<1>5. Done(c, n + 1, 0)'
  BY <1>1, <1>2, SameLog DEF Applying
<1>6. Applying(c, n + 1)'
  BY <1>3, <1>5 DEF Applying, AtTx, Within
<1> QED
  BY <1>3, <1>4, <1>6 DEF Applies

LEMMA AppliesEnds ==
    ASSUME NEW c \in Seq(Payloads), Len(job.base) \in 1 .. Len(c), Applies(c), job.todo = <<>>,
           job.step \in {"header", "error"} \cup Within
    PROVE  AllApplied(c)
<1>1. PICK n \in Len(job.base) .. Len(c) :
               Applying(c, n) /\ n = Len(c) /\ n \in Nat
  BY UpTodo
<1>2. ~ (n < Len(c))
  BY <1>1
<1>3. Done(c, n, 0)
  BY <1>1, <1>2 DEF Applying
<1> QED
  BY <1>1, <1>3, WholeIsDone

-----------------------------------------------------------------------------
(* Outside of forks.                                                       *)

(* The chain that info_block names is whole, and another job follows.      *)
LEMMA RestKeeps ==
    ASSUME AllApplied(info.blk), logTx' = logTx, ledger' = ledger, info' = info,
           \/ job'.mode \in {"none", "loop"}
           \/ job'.mode \in AddModes /\ job'.step \in {"form", "header"}
    PROVE  Keeps'
<1>1. AllApplied(info.blk)'
  BY SameLog
<1>2. CASE job'.mode \in {"none", "loop"}
  BY <1>1, <1>2, WaitKeeps
<1>3. CASE job'.mode \in AddModes /\ job'.step \in {"form", "header"}
  <2>1. AddsTxs'
    BY <1>1, <1>3 DEF AddsTxs, Within
  <2> QED
    BY <1>3, <2>1, AddKeeps
<1> QED
  BY <1>2, <1>3

(* All own transactions are logged when a fork begins to replace blocks.   *)
LEMMA GetBlocksKeeps ==
    ASSUME IsJob(job), Stored(info.blk), AllApplied(info.blk),
           NEW host \in PeerChains, NEW id \in 1 .. Len(host),
           NEW limit, GetBlocks(host, id, limit), UNCHANGED <<chainVars, logTx, ledger>>,
           job.host # <<>> => /\ job.host \in PeerChains
                              /\ job.at = id + 1 /\ job.at <= Len(job.host)
    PROVE  Keeps'
<1>1. rows' = rows /\ info' = info /\ logTx' = logTx /\ ledger' = ledger
  BY DEF chainVars
<1>2. CASE job' = NoJob
  <2>1. job'.mode = "none"
    BY <1>2 DEF NoJob
  <2> QED
    BY <1>1, <2>1, RestKeeps
<1>3. CASE job' # NoJob
  <2>1. /\ job'.mode = "undoOwn" /\ job'.step = "unlog"
        /\ Target' /\ HasOwn(info.blk)' /\ Len(job'.base) \in 1 .. Len(info.blk)
        /\ job'.todo = Downwards(info.blk, Len(job'.base), Len(info.blk))
        /\ job'.pos = IF job'.todo = <<>> THEN 0 ELSE Len(Txs(Head(job'.todo)))
    BY <1>1, <1>3, Switches DEF chainVars
  <2>2. PICK c : c = info.blk
    OBVIOUS
  <2>3. PICK m : m = Len(job'.base)
    OBVIOUS
  <2>4. /\ c \in Seq(Payloads) /\ m \in 1 .. Len(c) /\ Len(c) \in m .. Len(c)
        /\ Done(c, Len(c), 0)
    <3>1. c \in Seq(Payloads) /\ Len(c) \in Nat
      BY <2>2, BlockFacts DEF Stored, IsBlock
    <3> QED
      BY <2>1, <2>2, <2>3, <3>1, WholeIsDone
  <2>5. Undoing(c, m)'
    BY <1>1, <2>1, <2>2, <2>3, <2>4, UndoingStarts
  <2>6. Replaces(c)'
    BY <2>1, <2>3, <2>5 DEF Replaces
  <2>7. HasOwn(c)' /\ Queued(c)'
    <3>1. \A s \in Slots(c) : TxAt(c, s) \in logTx
      BY <2>2 DEF AllApplied, Sound
    <3>2. HasOwn(c)'
      BY <1>1, <2>1, <2>2 
    <3> QED
      BY <1>1, <3>1, <3>2 DEF Queued, TxAt, Slots
  <2>8. ForkTxs' /\ job'.mode \in ForkModes
    BY <2>1, <2>6, <2>7 DEF ForkTxs, ForkModes
  <2> QED
    BY <2>8, ForkKeeps
<1> QED
  BY <1>2, <1>3

LEMMA StartResetKeeps ==
    ASSUME Fits, Keeps, NEW id \in Ids, StartReset(id)
    PROVE  Keeps'
<1>1. /\ IsJob(job) /\ Stored(info.blk) /\ AllApplied(info.blk)
      /\ rows' = rows /\ info' = info /\ logTx' = logTx /\ ledger' = ledger
      /\ rows[id] # NoBlock
  BY WaitingFacts DEF StartReset, chainVars, Keeps, Idle
<1>2. PICK c : c = info.blk
  OBVIOUS
<1>3. /\ c \in Seq(Payloads) /\ Len(c) \in Nat /\ id \in 1 .. Len(c) /\ Len(c) \in id .. Len(c)
      /\ Done(c, Len(c), 0)
  <2>1. c \in Seq(Payloads) /\ Len(c) \in Nat /\ id <= Len(c)
    BY <1>1, <1>2, StoredFacts, BlockFacts DEF Stored, IsBlock
  <2>2. id \in 1 .. Len(c) /\ Len(c) \in id .. Len(c)
    BY <2>1 DEF Ids
  <2> QED
    BY <1>1, <1>2, <2>1, <2>2, WholeIsDone
<1> DEFINE todo == Reverse(StoredAbove(id))
           b == BeginUndo("reset", todo)
<1>4. todo = Downwards(c, id, Len(c))
  BY <1>1, <1>2, <1>3, AboveStored
<1>5. job' = [b EXCEPT !.at = id]
  BY DEF StartReset
<1>6. /\ IsJob(b) /\ b.mode = "reset" /\ b.step = "unlog" /\ b.todo = todo
      /\ b.pos = IF todo = <<>> THEN 0 ELSE Len(Txs(Head(todo)))
  BY <1>1, BeginUndoKeeps
<1> HIDE DEF b, todo
<1>7. /\ job'.mode = "reset" /\ job'.step = "unlog" /\ job'.todo = todo /\ job'.at = id
      /\ job'.pos = IF todo = <<>> THEN 0 ELSE Len(Txs(Head(todo)))
  BY <1>5, <1>6 DEF IsJob, JobFields
<1>8. Undoing(c, id)'
  BY <1>1, <1>3, <1>4, <1>7, UndoingStarts
<1>9. Undoing(info.blk, job.at)'
  BY <1>1, <1>2, <1>7, <1>8
<1> QED
  BY <1>7, <1>9, ResetKeeps

LEMMA OutsideKeeps ==
    ASSUME Inv, Fits, Keeps,
           \/ \E host \in PeerChains : StartCollect(host)
           \/ \E host \in PeerChains : \E id \in 2 .. Len(host) : ParseBlockQueue(host, id)
           \/ StartGenerate \/ CollectNext \/ StopCollect \/ FormBlock
           \/ InsertIntoBlockchain \/ BlockRefused
    PROVE  Keeps'
<1>1. IsJob(job)
  BY DEF Inv, JobInv, AtWork
<1>2. CASE \E host \in PeerChains : StartCollect(host)
  <2>1. PICK host \in PeerChains : StartCollect(host)
    BY <1>2
  <2>2. /\ AllApplied(info.blk) /\ info' = info /\ UNCHANGED <<logTx, ledger>>
        /\ job' = [NoJob EXCEPT !.mode = "loop", !.host = host, !.at = Len(info.blk) + 1]
    BY <2>1 DEF StartCollect, chainVars, Keeps, Idle
  <2>3. job'.mode = "loop"
    BY <2>2 DEF NoJob
  <2> QED
    BY <2>2, <2>3, RestKeeps
<1>3. CASE \E host \in PeerChains : \E id \in 2 .. Len(host) : ParseBlockQueue(host, id)
  <2>1. PICK host \in PeerChains : \E id \in 2 .. Len(host) : ParseBlockQueue(host, id)
    BY <1>3
  <2>2. PICK id \in 2 .. Len(host) : ParseBlockQueue(host, id)
    BY <2>1
  <2>3. /\ Stored(info.blk) /\ AllApplied(info.blk) /\ job.host = <<>> /\ id \in 1 .. Len(host)
        /\ UNCHANGED <<chainVars, logTx, ledger>> /\ GetBlocks(host, id, RB1)
    BY <2>2, WaitingFacts DEF ParseBlockQueue, Keeps, Idle
  <2> QED
    BY <1>1, <2>3, GetBlocksKeeps
<1>4. CASE StartGenerate
  <2>1. /\ AllApplied(info.blk) /\ info' = info /\ UNCHANGED <<logTx, ledger>>
        /\ job' = Begin("generate", "form", <<>>)
    BY <1>4 DEF StartGenerate, chainVars, Keeps, Idle
  <2>2. job'.mode = "generate" /\ job'.step = "form"
    BY <1>1, <2>1, BeginKeeps
  <2> QED
    BY <2>1, <2>2, RestKeeps DEF AddModes
<1>5. CASE CollectNext
  <2>1. /\ job.host \in PeerChains /\ job.at = Len(info.blk) + 1 /\ Stored(info.blk)
        /\ AllApplied(info.blk)
        /\ UNCHANGED <<chainVars, logTx, ledger>> /\ job.at <= Len(job.host)
    BY <1>5, WaitingFacts DEF CollectNext, Keeps
  <2>2. CASE job' = Begin("collect", "header", <<Upto(job.host, job.at)>>)
    <3>1. /\ job'.mode = "collect" /\ job'.step = "header" /\ info' = info
          /\ UNCHANGED <<logTx, ledger>>
      BY <1>1, <2>1, <2>2, BeginKeeps DEF chainVars
    <3> QED
      BY <2>1, <3>1, RestKeeps DEF AddModes
  <2>3. CASE GetBlocks(job.host, job.at - 1, RB2)
    <3> DEFINE id == job.at - 1
    <3>1. Len(info.blk) \in Nat /\ Len(info.blk) >= 1 /\ job.host \in Chains
      BY <2>1, BlockFacts, ChainsAssumption DEF Stored
    <3>2. Len(job.host) \in Nat
      BY <3>1, LenProperties DEF Chains
    <3>3. job.at = id + 1 /\ GetBlocks(job.host, id, RB2) /\ id \in 1 .. Len(job.host)
      BY <2>1, <2>3, <3>1, <3>2
    <3> HIDE DEF id
    <3> QED
      BY <1>1, <2>1, <3>3, GetBlocksKeeps
  <2> QED
    BY <1>5, <2>2, <2>3 DEF CollectNext
<1>6. CASE StopCollect
  <2>1. AllApplied(info.blk) /\ info' = info /\ UNCHANGED <<logTx, ledger>> /\ job'.mode = "none"
    BY <1>6 DEF StopCollect, chainVars, Keeps, NoJob
  <2> QED
    BY <2>1, RestKeeps
<1>7. CASE FormBlock
  <2>1. AllApplied(info.blk) /\ info' = info /\ UNCHANGED <<logTx, ledger>>
    BY <1>7 DEF FormBlock, At, chainVars, Keeps, AddsTxs, AddModes
  <2>2. PICK txs \in SetToSeqs({t \in Tx : trans[t] = "ok"}) :
            job' = Begin("generate", "header",
                         <<Append(info.blk, [txs |-> txs, by |-> Self, bad |-> FALSE])>>)
    BY <1>7 DEF FormBlock
  <2>3. job'.mode = "generate" /\ job'.step = "header"
    BY <1>1, <2>2, BeginKeeps
  <2> QED
    BY <2>1, <2>3, RestKeeps DEF AddModes
<1>8. CASE InsertIntoBlockchain
  <2>1. AllApplied(info.blk) /\ info' = info /\ UNCHANGED <<logTx, ledger>>
    BY <1>8 DEF InsertIntoBlockchain, Keeps, AddsTxs, AddModes
  <2>2. CASE job' = NoJob
    BY <2>1, <2>2, RestKeeps DEF NoJob
  <2>3. CASE job' = [Begin("loop", "", <<>>) EXCEPT !.at = Len(Cur) + 1]
    <3>1. job'.mode = "loop"
      BY <1>1, <2>3 DEF IsJob, JobFields, Begin
    <3> QED
      BY <2>1, <3>1, RestKeeps
  <2> QED
    BY <1>8, <2>2, <2>3 DEF InsertIntoBlockchain
<1>9. CASE BlockRefused
  <2>1. AllApplied(info.blk) /\ info' = info /\ UNCHANGED <<logTx, ledger>>
    BY <1>9 DEF BlockRefused, chainVars, Keeps, AddsTxs, AddModes
  <2>2. CASE job' = NoJob
    BY <2>1, <2>2, RestKeeps DEF NoJob
  <2>3. CASE job' = Begin("generate", "form", <<>>)
    <3>1. job'.mode = "generate" /\ job'.step = "form"
      BY <1>1, <2>3, BeginKeeps
    <3> QED
      BY <2>1, <3>1, RestKeeps DEF AddModes
  <2> QED
    BY <1>9, <2>2, <2>3 DEF BlockRefused
<1> QED
  BY <1>2, <1>3, <1>4, <1>5, <1>6, <1>7, <1>8, <1>9

-----------------------------------------------------------------------------
(* Collecting and generating.                                              *)

WithinBlock ==
    \/ CheckHeader \/ MarkTx \/ ExecTx \/ FrontFails \/ InitFails \/ MainFails
    \/ RollbackTo \/ LogTx

LEMMA WithinTask ==
    ASSUME IsJob(job), WithinBlock
    PROVE  /\ SameTask /\ Cur' = Cur /\ queue' = queue /\ logTx \subseteq logTx'
           /\ job.step \in {"header"} \cup Within /\ job'.step \in {"error"} \cup Within
           /\ job.step # "header" => job.step \in Within
<1>1. CASE CheckHeader
  <2>1. \/ job' = [job EXCEPT !.step = "error"]
        \/ job' = [job EXCEPT !.pos = 1, !.step = IF Txs(Cur) = <<>> THEN "info" ELSE "mark"]
    BY <1>1 DEF CheckHeader
  <2>2. SameTask /\ job'.step \in {"error"} \cup Within
    BY <1>1, <2>1 DEF CheckHeader, SameTask, chainVars, IsJob, JobFields, Within
  <2> QED
    BY <1>1, <2>2 DEF CheckHeader, SameTask, Cur
<1>2. CASE ~ CheckHeader
  <2>1. SameTask /\ job.step \in Within \ {"info"} /\ job'.step \in Within \cup {"error"}
    BY <1>2, WithinSteps DEF WithinBlock
  <2>2. queue' = queue /\ logTx \subseteq logTx'
    BY <1>2 DEF WithinBlock, MarkTx, ExecTx, FrontFails, InitFails, MainFails, RollbackTo, LogTx,
                poolVars
  <2> QED
    BY <2>1, <2>2 DEF SameTask, Cur, Within
<1> QED
  BY <1>1, <1>2

LEMMA AddingKeeps ==
    ASSUME Inv, Unmixed, crashes = 0, Fits, Fits', Keeps, incidents' = {}, WithinBlock,
           job.mode \in AddModes
    PROVE  Keeps'
<1>1. /\ SameTask /\ Cur' = Cur /\ job.step \in {"header"} \cup Within
      /\ job'.step \in {"error"} \cup Within /\ (job.step # "header" => job.step \in Within)
  BY WithinTask DEF Inv, JobInv, AtWork
<1>2. job'.mode = job.mode /\ info' = info
  BY <1>1 DEF SameTask
<1>3. PICK c : c = Cur
  OBVIOUS
<1>4. /\ IsBlock(c) /\ c \in Seq(Payloads) /\ Len(c) \in Nat /\ Len(c) >= 1 /\ Stored(info.blk)
  BY <1>1, <1>3, BlockFacts DEF Fits, Adding, Within, IsBlock
<1>5. PICK n \in 0 .. Len(c) - 1 : n = Len(c) - 1
  BY <1>4
<1>6. n \in 0 .. Len(c) /\ Cur = Upto(c, n + 1) /\ Front(c) = Upto(c, n)
  <2>1. n \in 0 .. Len(c) /\ n + 1 = Len(c)
    BY <1>4, <1>5
  <2> QED
    BY <1>3, <1>4, <1>5, <2>1, UptoAll, FrontIsUpto
(* What is whole below the block. *)
<1>7. ASSUME Front(c) = info.blk
      PROVE  /\ AllApplied(info.blk) <=> Done(c, n, 0)
             /\ AllApplied(info.blk)' <=> Done(c, n, 0)'
  <2>1. PICK b : b = info.blk
    OBVIOUS
  <2>2. /\ AllApplied(b) <=> Done(c, n, 0)
        /\ AllApplied(b)' <=> Done(c, n, 0)'
    BY <1>4, <1>5, <1>6, <1>7, <2>1, WholeIsDone
  <2> QED
    BY <1>2, <2>1, <2>2
<1>8. ASSUME Applying(c, n) PROVE Applying(c, n)'
  BY <1>4, <1>5, <1>6, <1>8, ApplyingStays DEF WithinBlock
<1>9. CASE job.step = "header" /\ job'.step = "error"
  <2>1. CheckHeader
    BY <1>9 DEF WithinBlock, CheckHeader, MarkTx, ExecTx, FrontFails, InitFails, MainFails,
                RollbackTo, LogTx
  <2>2. logTx' = logTx /\ ledger' = ledger /\ AllApplied(info.blk)
    BY <1>9, <2>1 DEF CheckHeader, Keeps, AddsTxs
  <2>3. AllApplied(info.blk)'
    BY <1>2, <2>2, SameLog
  <2> QED
    BY <1>2, <1>9, <2>3, AddKeeps DEF AddsTxs, Within
<1>10. CASE job.step = "header" /\ job'.step \in Within
  <2>1. Front(c) = info.blk
    BY <1>1, <1>2, <1>3, <1>10 DEF Fits, Adding
  <2>2. Done(c, n, 0)
    BY <1>7, <1>10, <2>1 DEF Keeps, AddsTxs
  <2>3. Applying(c, n)
    BY <1>10, <2>2 DEF Applying, AtTx, Within
  <2>4. Applying(Cur, Len(Cur) - 1)'
    BY <1>1, <1>3, <1>5, <1>8, <2>3
  <2> QED
    BY <1>2, <1>10, <2>4, AddKeeps DEF AddsTxs, Within
<1>11. CASE job.step \in Within
  <2>1. Front(c) = info.blk /\ Applying(c, n)
    BY <1>3, <1>5, <1>11 DEF Keeps, AddsTxs, Fits, Adding
  <2>2. Applying(c, n)'
    BY <1>8, <2>1
  <2>3. CASE job'.step = "error"
    <3>1. Done(c, n, 0)'
      BY <2>2, <2>3 DEF Applying
    <3>2. AllApplied(info.blk)'
      BY <1>7, <2>1, <3>1
    <3> QED
      BY <1>2, <2>3, <3>2, AddKeeps DEF AddsTxs, Within
  <2>4. CASE job'.step \in Within
    <3>1. Applying(Cur, Len(Cur) - 1)'
      BY <1>1, <1>3, <1>5, <2>2
    <3> QED
      BY <1>2, <2>4, <3>1, AddKeeps DEF AddsTxs, Within
  <2> QED
    BY <1>1, <2>3, <2>4
<1> QED
  BY <1>1, <1>9, <1>10, <1>11

-----------------------------------------------------------------------------
(* Forks.                                                                  *)

LEMMA OwnFacts ==
    ASSUME Fits, NEW own, HasOwn(own), job.mode \in ForkModes
    PROVE  /\ own \in Seq(Payloads) /\ job.new \in Seq(Payloads)
           /\ Len(job.base) \in 1 .. Len(own) /\ Len(job.base) \in 1 .. Len(job.new)
           /\ Len(job.base) \in 0 .. Len(own) /\ Len(job.base) \in 0 .. Len(job.new)
           /\ Upto(own, Len(job.base)) = Upto(job.new, Len(job.base))
           /\ Stored(own) /\ Target
<1>1. Target /\ Stored(own) /\ Len(job.base) <= Len(own)
      /\ Upto(own, Len(job.base)) = Upto(job.new, Len(job.base))
  BY DEF Fits, Replacing, HasOwn
<1>2. /\ own \in Seq(Payloads) /\ Len(own) \in Nat
      /\ job.new \in Seq(Payloads) /\ Len(job.new) \in Nat
      /\ Len(job.base) \in 1 .. Len(job.new) - 1
  BY <1>1, BlockFacts DEF Target, Stored, IsBlock
<1> QED
  BY <1>1, <1>2

(* The own blocks stay stored, and no transaction leaves the queue.        *)
LEMMA ForkStays ==
    ASSUME NEW own, HasOwn(own), Queued(own), Replaces(own)', job'.mode \in ForkModes,
           rows' = rows, job'.base = job.base, job'.new = job.new,
           logTx \cup queue \subseteq logTx' \cup queue'
    PROVE  Keeps'
<1>1. HasOwn(own)'
  BY DEF HasOwn, Stored
<1>2. Queued(own)'
  BY DEF Queued, TxAt, Slots
<1>3. ForkTxs'
  BY <1>1, <1>2 DEF ForkTxs
<1> QED
  BY <1>3, ForkKeeps

LEMMA ApplyingKeeps ==
    ASSUME Inv, Unmixed, crashes = 0, Fits, Keeps, incidents' = {}, WithinBlock \/ UpdBlockInfo,
           job.mode \in {"fork", "restore"}
    PROVE  Keeps'
<1>1. IsJob(job)
  BY DEF Inv, JobInv, AtWork
<1>2. PICK own : HasOwn(own) /\ Queued(own) /\ Replaces(own)
  BY DEF Keeps, ForkTxs, ForkModes
<1>3. /\ own \in Seq(Payloads) /\ job.new \in Seq(Payloads)
      /\ Len(job.base) \in 1 .. Len(own) /\ Len(job.base) \in 1 .. Len(job.new)
  BY <1>2, OwnFacts DEF ForkModes
<1>4. /\ job'.mode = job.mode /\ job'.base = job.base /\ job'.new = job.new
      /\ rows' = rows /\ queue' = queue /\ logTx \subseteq logTx'
  <2>1. CASE WithinBlock
    BY <1>1, <2>1, WithinTask DEF SameTask
  <2>2. CASE UpdBlockInfo
    BY <1>1, <2>2 DEF UpdBlockInfo, poolVars, IsJob, JobFields
  <2> QED
    BY <2>1, <2>2
<1>5. ASSUME NEW c \in Seq(Payloads), Len(job.base) \in 1 .. Len(c), Applies(c)
      PROVE  Applies(c)'
  <2>1. CASE WithinBlock
    BY <1>1, <1>5, <2>1, WithinTask, AppliesStays DEF WithinBlock
  <2>2. CASE UpdBlockInfo
    BY <1>1, <1>5, <2>2, AppliesNext
  <2> QED
    BY <2>1, <2>2
<1>6. PICK c : c = job.new
  OBVIOUS
<1>7. Replaces(own)'
  <2>1. CASE job.mode = "fork"
    <3>1. Applies(c)'
      BY <1>2, <1>3, <1>5, <1>6, <2>1 DEF Replaces
    <3>2. Applies(job.new)'
      BY <1>4, <1>6, <3>1
    <3> QED
      BY <1>4, <2>1, <3>2 DEF Replaces
  <2>2. CASE job.mode = "restore"
    <3>1. Applies(own)'
      BY <1>2, <1>3, <1>5, <2>2 DEF Replaces
    <3> QED
      BY <1>4, <2>2, <3>1 DEF Replaces
  <2> QED
    BY <2>1, <2>2
<1> QED
  BY <1>2, <1>4, <1>7, ForkStays DEF ForkModes

LEMMA UpdatedKeeps ==
    ASSUME Inv, Unmixed, crashes = 0, Fits, Keeps, incidents' = {}, UpdBlockInfo
    PROVE  Keeps'
<1>1. IsJob(job) /\ job.mode \in AddModes \cup {"fork", "restore"}
  BY DEF Inv, JobInv, AtWork, UpdBlockInfo, ApplyModes, AddModes
<1>2. CASE job.mode \in AddModes
  <2>1. /\ job.step = "info" /\ info'.blk = Cur /\ logTx' = logTx /\ ledger' = ledger
        /\ job' = [job EXCEPT !.step = "row"]
    BY <1>2 DEF UpdBlockInfo, AddModes
  <2>2. job'.mode = job.mode /\ job'.step = "row"
    BY <1>1, <2>1 DEF IsJob, JobFields
  <2>3. Cur \in Seq(Payloads) /\ Len(Cur) \in Nat /\ Applying(Cur, Len(Cur) - 1)
    BY <1>2, <2>1, BlockFacts DEF Fits, Adding, Keeps, AddsTxs, Within, IsBlock
  <2>4. Done(Cur, Len(Cur), 0)
    <3>1. Len(Cur) - 1 + 1 = Len(Cur)
      BY <2>3
    <3> QED
      BY <2>1, <2>3, <3>1 DEF Applying
  <2>5. PICK c \in Seq(Payloads) : c = Cur
    BY <2>3
  <2>6. AllApplied(c)'
    BY <2>1, <2>4, <2>5, WholeIsDone, SameLog
  <2>7. AllApplied(info.blk)'
    BY <2>1, <2>5, <2>6
  <2> QED
    BY <1>2, <2>2, <2>7, AddKeeps DEF AddsTxs, Within
<1>3. CASE job.mode \in {"fork", "restore"}
  BY <1>3, ApplyingKeeps
<1> QED
  BY <1>1, <1>2, <1>3

(* Blocks are undone: own ones, those of a refused fork, or in a reset.    *)
LEMMA UndoingKeeps ==
    ASSUME Inv, Unmixed, crashes = 0, Fits, Keeps, UnlogTx \/ UndoTx \/ UndoneBlock
    PROVE  Keeps'
<1>1. IsJob(job) /\ JobInv
  BY DEF Inv, JobInv, AtWork
<1>2. ASSUME NEW c \in Seq(Payloads), NEW m \in 1 .. Len(c), Undoing(c, m)
      PROVE  Undoing(c, m)'
  BY <1>1, <1>2, UndoingStays, UndoingGoesOn
<1>3. /\ job'.mode = job.mode /\ job'.base = job.base /\ job'.new = job.new /\ job'.at = job.at
      /\ info' = info /\ (job.mode # "reset" => rows' = rows)
      /\ logTx \cup queue \subseteq logTx' \cup queue' /\ job.step \in UndoSteps
  <2>1. CASE UnlogTx \/ UndoTx
    <3>1. logTx \cup queue \subseteq logTx' \cup queue'
      BY <2>1 DEF UnlogTx, UndoTx, poolVars
    <3> QED
      BY <1>1, <2>1, <3>1, UndoingSteps DEF SameTask
  <2>2. CASE UndoneBlock
    BY <1>1, <2>2, BeginUndoKeeps DEF UndoneBlock, poolVars, UndoSteps
  <2> QED
    BY <2>1, <2>2
<1>4. CASE job.mode \notin {"undoOwn", "undoNew", "reset"}
  <2>1. job.step \notin {"", "form", "header", "error", "row", "info"} \cup Within /\ NoJob.step = ""
    BY <1>3 DEF UndoSteps, Within, NoJob
  <2>2. job.mode \notin {"none", "loop", "commit", "fork", "restore"} \cup AddModes
    BY <2>1 DEF Fits, Waiting, Adding, Replacing, Committing
  <2> QED
    BY <1>3, <1>4, <2>2 DEF Keeps, AddsTxs, ForkTxs, AddModes, ForkModes
<1>5. CASE job.mode = "reset"
  <2>1. Undoing(info.blk, job.at) /\ info.blk \in Seq(Payloads) /\ job.at \in 1 .. Len(info.blk)
    BY <1>5 DEF Keeps, Fits, Resetting, IsBlock
  <2>2. PICK c \in Seq(Payloads), m \in Nat : c = info.blk /\ m = job.at
    BY <2>1
  <2>3. Undoing(c, m)'
    BY <1>2, <2>1, <2>2
  <2>4. Undoing(info.blk, job.at)'
    BY <1>3, <2>2, <2>3
  <2> QED
    BY <1>3, <1>5, <2>4, ResetKeeps
<1>6. CASE job.mode \in {"undoOwn", "undoNew"}
  <2>1. PICK own : HasOwn(own) /\ Queued(own) /\ Replaces(own)
    BY <1>6 DEF Keeps, ForkTxs, ForkModes
  <2>2. /\ own \in Seq(Payloads) /\ job.new \in Seq(Payloads)
        /\ Len(job.base) \in 1 .. Len(own) /\ Len(job.base) \in 1 .. Len(job.new)
    BY <1>6, <2>1, OwnFacts DEF ForkModes
  <2>3. PICK m, c : m = Len(job.base) /\ c = job.new
    OBVIOUS
  <2>4. Replaces(own)'
    <3>1. job.mode = "undoOwn" => Undoing(own, m)'
      BY <1>2, <2>1, <2>2, <2>3 DEF Replaces
    <3>2. job.mode = "undoNew" => Undoing(c, m)'
      BY <1>2, <2>1, <2>2, <2>3 DEF Replaces
    <3> QED
      BY <1>3, <1>6, <2>3, <3>1, <3>2 DEF Replaces
  <2> QED
    BY <1>3, <1>6, <2>1, <2>4, ForkStays DEF ForkModes
<1> QED
  BY <1>4, <1>5, <1>6

LEMMA ResetEndKeeps ==
    ASSUME Fits, Fits', Keeps, ResetInfo
    PROVE  Keeps'
<1>1. /\ job.mode = "reset" /\ job.todo = <<>> /\ job' = NoJob
      /\ logTx' = logTx /\ ledger' = ledger /\ info'.blk = rows[job.at]
  BY DEF ResetInfo
<1>2. /\ Undoing(info.blk, job.at) /\ info.blk \in Seq(Payloads) /\ Len(info.blk) \in Nat
      /\ job.at \in 1 .. Len(info.blk)
  BY <1>1, BlockFacts DEF Keeps, Fits, Resetting, IsBlock
<1>3. PICK c, m : c = info.blk /\ m = job.at /\ c \in Seq(Payloads) /\ m \in 1 .. Len(c)
  BY <1>2
<1>4. Done(c, m, 0)
  BY <1>1, <1>2, <1>3, UndoingEnds
<1>5. rows[m] = Upto(c, m)
  <2>1. PICK n \in m .. Len(c) : job.todo = Downwards(c, m, n) /\ Stored(Upto(c, n))
    BY <1>1, <1>3 DEF Fits, Resetting
  <2>2. n \in 0 .. Len(c) /\ m \in 0 .. n /\ m \in 0 .. Len(c) /\ n \in Nat /\ m \in Nat
    BY <1>2, <1>3
  <2>3. n = m
    BY <1>1, <1>3, <2>1, <2>2, DownwardsFacts
  <2>4. Len(Upto(c, m)) = m
    BY <1>3, <2>2, UptoFacts
  <2> QED
    BY <2>1, <2>3, <2>4, StoredFacts
<1>6. m \in 0 .. Len(c)
  BY <1>2, <1>3
<1>7. AllApplied(Upto(c, m))
  BY <1>3, <1>4, <1>6, WholeIsDone
<1>8. PICK d : d = Upto(c, m)
  OBVIOUS
<1>9. AllApplied(d)' /\ info'.blk = d
  BY <1>1, <1>3, <1>5, <1>7, <1>8, SameLog
<1>10. AllApplied(info.blk)' /\ job'.mode = "none"
  BY <1>1, <1>9 DEF NoJob
<1> QED
  BY <1>10, WaitKeeps

(* The blocks of a fork up to a refused one, downwards.                    *)
LEMMA BetweenFacts ==
    ASSUME NEW c \in Seq(Payloads), NEW base, NEW n \in Len(base) .. Len(c), Len(base) \in Nat
    PROVE  /\ Between(base, c) = Upwards(c, Len(base))
           /\ Reverse(Between(base, Upto(c, n))) = Downwards(c, Len(base), n)
<1> DEFINE m == Len(base)
           d == Upto(c, n)
           k == n - m
           s == Between(base, d)
<1>1. n \in 0 .. Len(c) /\ n \in Nat /\ m \in Nat /\ k \in Nat /\ Len(c) \in Nat
  BY LenProperties
<1>2. Len(d) = n /\ d \in Seq(Payloads)
  BY <1>1, UptoFacts
<1>3. s = [i \in 1 .. k |-> Upto(d, m + i)]
  BY <1>2 DEF Between
<1>4. \A i \in 1 .. k : Upto(d, m + i) = Upto(c, m + i) /\ Upto(c, m + i) \in Seq(Payloads)
  <2> SUFFICES ASSUME NEW i \in 1 .. k
               PROVE  Upto(d, m + i) = Upto(c, m + i) /\ Upto(c, m + i) \in Seq(Payloads)
    OBVIOUS
  <2>1. m + i \in 0 .. n /\ m + i \in 0 .. Len(c)
    BY <1>1
  <2> QED
    BY <1>1, <2>1, UptoUpto, UptoFacts
<1>5. \A i \in 1 .. k : s[i] = Upto(c, m + i)
  <2> HIDE DEF m, d, k
  <2> QED
    BY <1>3, <1>4
<1>6. Len(s) = k
  <2>1. s \in [1 .. k -> Seq(Payloads)]
    <3> HIDE DEF m, d, k
    <3> QED
      BY <1>3, <1>4
  <2> HIDE DEF s, k
  <2> QED
    BY <1>1, <2>1, FunFacts
<1>7. Reverse(s) = [i \in 1 .. k |-> s[k - i + 1]]
  BY <1>6 DEF Reverse
<1>8. \A i \in 1 .. k : k - i + 1 \in 1 .. k /\ m + (k - i + 1) = n - i + 1
  BY <1>1
<1>9. \A i \in 1 .. k : s[k - i + 1] = Upto(c, n - i + 1)
  <2> HIDE DEF m, s, k
  <2> QED
    BY <1>5, <1>8
<1>10. [i \in 1 .. k |-> s[k - i + 1]] = [i \in 1 .. k |-> Upto(c, n - i + 1)]
  <2> HIDE DEF s, k
  <2> QED
    BY <1>9
<1>11. Between(base, c) = Upwards(c, Len(base))
  BY DEF Between, Upwards
<1> QED
  BY <1>7, <1>10, <1>11 DEF Downwards

LEMMA SwitchingKeeps ==
    ASSUME Inv, Fits, Keeps, ApplyFork \/ UndoFork \/ RestoreOwn
    PROVE  Keeps'
<1>1. IsJob(job) /\ job.mode \in ForkModes
  BY DEF Inv, JobInv, AtWork, ApplyFork, UndoFork, RestoreOwn, At, ForkModes
<1>2. rows' = rows /\ logTx' = logTx /\ ledger' = ledger /\ queue' = queue
  BY DEF ApplyFork, UndoFork, RestoreOwn, chainVars, poolVars
<1>3. PICK own : HasOwn(own) /\ Queued(own) /\ Replaces(own)
  BY <1>1 DEF Keeps, ForkTxs
<1>4. PICK new, m : new = job.new /\ m = Len(job.base)
  OBVIOUS
<1>5. /\ own \in Seq(Payloads) /\ new \in Seq(Payloads)
      /\ m \in 1 .. Len(own) /\ m \in 1 .. Len(new) /\ m \in 0 .. Len(own) /\ m \in 0 .. Len(new)
      /\ Upto(own, m) = Upto(new, m) /\ Stored(own) /\ Len(own) \in Nat /\ Len(new) \in Nat
  BY <1>1, <1>3, <1>4, OwnFacts, LenProperties
<1>6. ASSUME NEW mode \in {"fork", "restore"}, NEW c \in Seq(Payloads), m \in 1 .. Len(c),
             Done(c, m, 0), job' = Begin(mode, "header", Upwards(c, m))
      PROVE  /\ job'.mode = mode /\ job'.base = job.base /\ job'.new = job.new
             /\ Applies(c)'
  <2>1. /\ job'.mode = mode /\ job'.base = job.base /\ job'.new = job.new
        /\ job'.step = "header" /\ job'.todo = Upwards(c, m)
    BY <1>1, <1>6, BeginKeeps
  <2> QED
    BY <1>2, <1>4, <1>6, <2>1, AppliesStarts
<1>7. CASE ApplyFork
  <2>1. Done(own, m, 0)
    BY <1>3, <1>4, <1>5, <1>7, UndoingEnds DEF ApplyFork, Replaces
  <2>2. Done(new, m, 0)
    BY <1>5, <2>1, DoneSame
  <2>3. Len(new) \in Len(job.base) .. Len(new) /\ Len(job.base) \in Nat
    BY <1>4, <1>5
  <2>4. Between(job.base, new) = Upwards(new, m)
    BY <1>4, <1>5, <2>3, BetweenFacts
  <2>5. /\ job'.mode = "fork" /\ job'.base = job.base /\ job'.new = job.new
        /\ Applies(new)'
    BY <1>4, <1>5, <1>6, <1>7, <2>2, <2>4 DEF ApplyFork
  <2>6. Replaces(own)'
    BY <1>4, <2>5 DEF Replaces
  <2> QED
    BY <1>2, <1>3, <2>5, <2>6, ForkStays DEF ForkModes
<1>8. CASE RestoreOwn
  <2>1. Done(new, m, 0)
    BY <1>3, <1>4, <1>5, <1>8, UndoingEnds DEF RestoreOwn, Replaces
  <2>2. Done(own, m, 0)
    BY <1>5, <2>1, DoneSame
  <2>3. StoredAbove(m) = Upwards(own, m)
    BY <1>5, AboveStored
  <2>4. /\ job'.mode = "restore" /\ job'.base = job.base /\ job'.new = job.new
        /\ Applies(own)'
    BY <1>4, <1>5, <1>6, <1>8, <2>2, <2>3 DEF RestoreOwn
  <2>5. Replaces(own)'
    BY <2>4 DEF Replaces
  <2> QED
    BY <1>2, <1>3, <2>4, <2>5, ForkStays DEF ForkModes
<1>9. CASE UndoFork
  <2>1. Applies(new) /\ job.step = "error"
    BY <1>3, <1>4, <1>9 DEF UndoFork, At, Replaces
  <2>2. PICK n \in m .. Len(new) :
             n \in Nat /\ Applying(new, n) /\ (n < Len(new) => Cur = Upto(new, n + 1))
    BY <1>4, <1>5, <2>1, UpTodo
  <2>3. n < Len(new) /\ Done(new, n, 0) /\ Cur = Upto(new, n + 1)
    BY <2>1, <2>2 DEF Applying
  <2>4. Front(Cur) = Upto(new, n)
    <3>1. n + 1 \in 0 .. Len(new) /\ n \in 0 .. n + 1 /\ n + 1 - 1 = n
      BY <1>5, <2>2, <2>3
    <3>2. Len(Cur) = n + 1
      BY <1>5, <2>3, <3>1, UptoFacts
    <3>3. Front(Cur) = Upto(Upto(new, n + 1), n)
      BY <2>3, <3>1, <3>2, FrontIsUpto
    <3> QED
      BY <1>5, <3>1, <3>3, UptoUpto
  <2> DEFINE todo == Reverse(Between(job.base, Front(Cur)))
  <2>5. todo = Downwards(new, m, n)
    BY <1>4, <1>5, <2>2, <2>4, BetweenFacts
  <2>6. job' = BeginUndo("undoNew", todo)
    BY <1>9 DEF UndoFork
  <2> HIDE DEF todo
  <2>7. /\ job'.mode = "undoNew" /\ job'.step = "unlog" /\ job'.todo = todo
        /\ job'.base = job.base /\ job'.new = job.new
        /\ job'.pos = IF todo = <<>> THEN 0 ELSE Len(Txs(Head(todo)))
    BY <1>1, <2>6, BeginUndoKeeps
  <2>8. Undoing(new, m)'
    BY <1>2, <1>5, <2>2, <2>3, <2>5, <2>7, UndoingStarts
  <2>9. Replaces(own)'
    BY <1>4, <2>7, <2>8 DEF Replaces
  <2> QED
    BY <1>2, <1>3, <2>7, <2>9, ForkStays DEF ForkModes
<1> QED
  BY <1>7, <1>8, <1>9

(* A fork ends: all of it is applied, or all own blocks are again.         *)
LEMMA ForkEnds ==
    ASSUME Inv, Fits, Keeps, DropOwn \/ RestoreInfo
    PROVE  Keeps'
<1>1. IsJob(job) /\ job.mode \in {"fork", "restore"} /\ job.todo = <<>>
      /\ logTx' = logTx /\ ledger' = ledger
  BY DEF Inv, JobInv, AtWork, DropOwn, RestoreInfo
<1>2. PICK own : HasOwn(own) /\ Queued(own) /\ Replaces(own)
  BY <1>1 DEF Keeps, ForkTxs, ForkModes
<1>3. /\ own \in Seq(Payloads) /\ job.new \in Seq(Payloads) /\ Stored(own)
      /\ Len(job.base) \in 1 .. Len(own) /\ Len(job.base) \in 1 .. Len(job.new)
  BY <1>1, <1>2, OwnFacts DEF ForkModes
<1>4. job.step \in {"header", "error"} \cup Within
  BY <1>1 DEF Fits, Replacing
<1>5. CASE DropOwn
  <2>1. AllApplied(job.new)
    BY <1>1, <1>2, <1>3, <1>4, <1>5, AppliesEnds DEF DropOwn, Replaces
  <2>2. job'.mode = "commit" /\ job'.new = job.new
    BY <1>1, <1>5, BeginKeeps DEF DropOwn
  <2>3. AllApplied(job.new)'
    BY <1>1, <2>1, <2>2, SameLog
  <2> QED
    BY <2>2, <2>3, CommitKeeps
<1>6. CASE RestoreInfo
  <2>1. AllApplied(own)
    BY <1>1, <1>2, <1>3, <1>4, <1>6, AppliesEnds DEF RestoreInfo, Replaces
  <2>2. info'.blk = own
    <3>1. info'.blk = rows[Max({id \in Ids : rows[id] # NoBlock})]
      BY <1>6 DEF RestoreInfo
    <3> QED
      BY <1>3, <3>1, Highest
  <2>3. AllApplied(own)' /\ job'.mode = "none"
    BY <1>1, <1>6, <2>1, SameLog DEF RestoreInfo, NoJob
  <2> QED
    BY <2>2, <2>3, WaitKeeps
<1> QED
  BY <1>5, <1>6

LEMMA CommittingKeeps ==
    ASSUME Inv, Fits, Keeps, CommitInfo \/ CommitRow \/ Committed
    PROVE  Keeps'
<1>1. IsJob(job) /\ job.mode = "commit" /\ UNCHANGED <<logTx, ledger>> /\ AllApplied(job.new)
  BY DEF Inv, JobInv, AtWork, CommitInfo, CommitRow, Committed, At, Keeps
<1>2. CASE CommitInfo \/ CommitRow
  <2>1. job'.mode = "commit" /\ job'.new = job.new
    BY <1>1, <1>2 DEF CommitInfo, CommitRow, IsJob, JobFields
  <2>2. AllApplied(job.new)'
    BY <1>1, <2>1, SameLog
  <2> QED
    BY <2>1, <2>2, CommitKeeps
<1>3. CASE Committed
  <2>1. info' = info /\ job.todo = <<>>
    BY <1>3 DEF Committed, chainVars
  <2>2. info.blk = job.new
    <3>1. PICK n \in Len(job.base) .. Len(job.new) :
              /\ job.todo = <<>> => n = Len(job.new)
              /\ job.step = "row" => n < Len(job.new)
              /\ job.step \in {"info", "row"}
              /\ job.step = "info" /\ n = Len(job.new) => info.blk = job.new
      BY <1>1, CommitFacts
    <3>2. Len(job.new) \in Nat
      BY <1>1, CommitFacts
    <3> QED
      BY <2>1, <3>1, <3>2
  <2>3. AllApplied(info.blk)
    BY <1>1, <2>2
  <2>4. CASE job' = NoJob
    BY <1>1, <2>1, <2>3, <2>4, RestKeeps DEF NoJob
  <2>5. CASE job' = [Begin("collect", "header", <<Upto(job.host, job.at)>>)
                        EXCEPT !.hash = job.kept]
    <3>1. job'.mode = "collect" /\ job'.step = "header"
      BY <1>1, <2>5 DEF IsJob, JobFields, Begin
    <3> QED
      BY <1>1, <2>1, <2>3, <3>1, RestKeeps DEF AddModes
  <2> QED
    BY <1>3, <2>4, <2>5 DEF Committed
<1> QED
  BY <1>2, <1>3

-----------------------------------------------------------------------------
(* All steps.                                                              *)

(* The pool changes while a job waits, or it only grows.                   *)
LEMMA StillKeeps ==
    ASSUME Keeps, UNCHANGED <<chainVars, logTx, ledger, job>>, Idle \/ queue \subseteq queue'
    PROVE  Keeps'
<1>1. rows' = rows /\ info' = info /\ logTx' = logTx /\ ledger' = ledger /\ job' = job
  BY DEF chainVars
<1>2. CASE Idle
  BY <1>1, <1>2, RestKeeps DEF Idle, Keeps
<1>3. CASE queue \subseteq queue'
  <2>1. \A c : /\ \A n, k : Done(c, n, k) <=> Done(c, n, k)'
               /\ AllApplied(c) <=> AllApplied(c)'
    BY <1>1, SameLog
  <2>2. PICK c, b, new, m, k, at : /\ c = Cur /\ b = info.blk /\ new = job.new /\ m = Len(job.base)
                                   /\ k = job.pos - 1 /\ at = job.at
    OBVIOUS
  <2>3. \A d, n : Applying(d, n) => Applying(d, n)'
    <3>1. \A d, S : Sound(d, S) <=> Sound(d, S)'
      BY <1>1, SoundSame
    <3>2. CurTx' = CurTx
      BY <1>1 DEF CurTx, Cur
    <3> SUFFICES ASSUME NEW d, NEW n, Applying(d, n) PROVE Applying(d, n)'
      OBVIOUS
    <3>3. job.step \in AtTx => Sound(d, Before(d, n, job.pos - 1))'
      BY <1>1, <2>2, <3>1 DEF Applying
    <3> QED
      BY <1>1, <2>1, <3>2, <3>3 DEF Applying, Exact, Part
  <2>4. \A d, n : Undoing(d, n) => Undoing(d, n)'
    <3> SUFFICES ASSUME NEW d, NEW n, Undoing(d, n) PROVE Undoing(d, n)'
      OBVIOUS
    <3>1. PICK i \in n .. Len(d) :
              /\ job.todo = Downwards(d, n, i)
              /\ i = n => job.step = "unlog" /\ Done(d, n, 0)
              /\ i > n /\ job.step = "unlog" => /\ job.pos \in 0 .. Len(d[i].txs)
                                               /\ Done(d, i - 1, job.pos)
              /\ i > n /\ job.step = "undo" => /\ job.pos \in 1 .. Len(d[i].txs)
                                              /\ Sound(d, Before(d, i - 1, job.pos - 1))
                                              /\ Exact(d, i - 1, job.pos)
      BY DEF Undoing
    <3>2. Sound(d, Before(d, i - 1, k)) => Sound(d, Before(d, i - 1, k))'
      BY <1>1, SoundSame
    <3> QED
      BY <1>1, <2>1, <2>2, <3>1, <3>2 DEF Undoing, Exact
  <2>5. \A d : Applies(d) => Applies(d)'
    BY <1>1, <2>3 DEF Applies
  <2>6. AddsTxs'
    BY <1>1, <2>1, <2>2, <2>3 DEF Keeps, AddsTxs, Cur
  <2>7. ASSUME job.mode \in ForkModes PROVE Keeps'
    <3>1. PICK own : HasOwn(own) /\ Queued(own) /\ Replaces(own)
      BY <2>7 DEF Keeps, ForkTxs
    <3>2. Replaces(own)'
      BY <1>1, <2>2, <2>4, <2>5, <3>1 DEF Replaces
    <3> QED
      BY <1>1, <1>3, <2>7, <3>1, <3>2, ForkStays
  <2>8. ASSUME job.mode \notin ForkModes PROVE Keeps'
    BY <1>1, <2>1, <2>2, <2>4, <2>6, <2>8 DEF Keeps, ForkTxs
  <2> QED
    BY <2>7, <2>8
<1> QED
  BY <1>2, <1>3

LEMMA NoCrash ==
    ASSUME [Next]_vars, incidents' = {}
    PROVE  crashes' = crashes
<1>1. CASE StartJob
  BY <1>1 DEF StartJob, StartCollect, ParseBlockQueue, StartGenerate, StartReset, runVars
<1>2. CASE CollectNext \/ StopCollect \/ FormBlock \/ CheckHeader \/ UpdBlockInfo
           \/ InsertIntoBlockchain \/ BlockRefused \/ UnlogTx \/ UndoTx \/ UndoneBlock \/ ResetInfo
  BY <1>2 DEF CollectNext, StopCollect, FormBlock, CheckHeader, UpdBlockInfo,
              InsertIntoBlockchain, BlockRefused, UnlogTx, UndoTx, UndoneBlock, ResetInfo, runVars
<1>3. CASE MarkTx \/ ExecTx \/ FrontFails \/ InitFails \/ MainFails \/ RollbackTo \/ LogTx
  BY <1>3 DEF MarkTx, ExecTx, FrontFails, InitFails, MainFails, RollbackTo, LogTx, runVars
<1>4. CASE ApplyFork \/ DropOwn \/ CommitInfo \/ CommitRow \/ Committed
           \/ ForkPanics \/ UndoFork \/ RestoreOwn \/ RestoreInfo \/ RestoreFails
  BY <1>4 DEF ApplyFork, DropOwn, CommitInfo, CommitRow, Committed, ForkPanics, UndoFork,
              RestoreOwn, RestoreInfo, RestoreFails, runVars
<1>5. CASE Crashes
  BY <1>5, CrashIncidents
<1>6. CASE ParseQueue \/ UNCHANGED vars \/ \E t \in Tx : Submit(t) \/ UpdFullNodes(t)
  BY <1>6 DEF ParseQueue, vars, Submit, UpdFullNodes, runVars
<1> QED
  BY <1>1, <1>2, <1>3, <1>4, <1>5, <1>6 DEF Next, JobStep

LEMMA StepKeeps == Inv /\ ChainInv /\ ChainInv' /\ KeepInv /\ [Next]_vars => KeepInv'
<1> SUFFICES ASSUME Inv, ChainInv, ChainInv', KeepInv, [Next]_vars, incidents' = {}
             PROVE  Keeps' /\ crashes' = 0
  BY DEF KeepInv
<1>1. incidents = {} /\ Unmixed
  BY IncidentsGrow DEF Unmixed
<1>2. Fits /\ Fits' /\ Keeps /\ crashes = 0 /\ IsJob(job)
  BY <1>1 DEF ChainInv, Tidy, KeepInv, Inv, JobInv, AtWork
<1> SUFFICES Keeps'
  BY <1>2, NoCrash
<1>3. CASE WithinBlock
  <2>1. CASE job.mode \in AddModes
    BY <1>1, <1>2, <1>3, <2>1, AddingKeeps
  <2>2. CASE job.mode \in {"fork", "restore"}
    BY <1>1, <1>2, <1>3, <2>2, ApplyingKeeps
  <2>3. CASE job.mode \notin AddModes \cup {"fork", "restore"}
    <3>1. SameTask /\ job.step \in {"header"} \cup Within
      BY <1>2, <1>3, WithinTask
    <3>2. job.step \notin UndoSteps \cup {"", "row"} /\ NoJob.step = "" /\ job'.mode = job.mode
      BY <3>1 DEF UndoSteps, Within, NoJob, SameTask
    <3>3. job.mode \notin {"none", "loop", "reset", "undoOwn", "undoNew"}
      BY <1>2, <3>2 DEF Fits, Waiting, Replacing, Resetting
    <3>4. job.mode # "commit"
      <4>1. job.step # "info"
        BY <1>3 DEF WithinBlock, CheckHeader, MarkTx, ExecTx, FrontFails, InitFails, MainFails,
                    RollbackTo, LogTx
      <4> QED
        BY <1>2, <3>2, <4>1 DEF Fits, Committing
    <3> QED
      BY <2>3, <3>2, <3>3, <3>4 DEF Keeps, AddsTxs, ForkTxs, AddModes, ForkModes
  <2> QED
    BY <2>1, <2>2, <2>3
<1>4. CASE ForkPanics \/ RestoreFails \/ Crashes
  BY <1>4, CrashIncidents DEF ForkPanics, RestoreFails
<1>5. CASE JobStep /\ ~ WithinBlock
  BY <1>1, <1>2, <1>4, <1>5, OutsideKeeps, UpdatedKeeps, UndoingKeeps, ResetEndKeeps, SwitchingKeeps,
     ForkEnds, CommittingKeeps DEF JobStep, WithinBlock
<1>6. CASE StartJob
  BY <1>2, <1>6, OutsideKeeps, StartResetKeeps DEF StartJob
<1>7. CASE ParseQueue \/ UNCHANGED vars \/ \E t \in Tx : Submit(t) \/ UpdFullNodes(t)
  BY <1>2, <1>7, StillKeeps DEF ParseQueue, vars, Submit, UpdFullNodes, chainVars, poolVars
<1> QED
  BY <1>3, <1>4, <1>5, <1>6, <1>7 DEF Next

(* Each undo that is due is of what is last in the ledger.                 *)
LEMMA LastUndone ==
    ASSUME TypeOK, Inv, Unmixed, crashes = 0, Fits, Keeps, job.step \in {"undo", "rollback"}
    PROVE  InOrder(CurTx)
<1>1. job.todo # <<>> /\ job.mode \notin {"none", "loop"} /\ NoJob.step = ""
  BY DEF Inv, JobInv, AtWork, NoJob
<1>2. /\ job.mode = "commit" => FALSE
      /\ job.mode \in AddModes => job.step = "rollback"
      /\ job.mode \in {"fork", "restore"} => job.step = "rollback"
      /\ job.mode \in {"undoOwn", "undoNew", "reset"} => job.step = "undo"
  BY DEF Fits, Adding, Replacing, Committing, Resetting, Within, UndoSteps
<1>3. CASE job.mode \in AddModes
  <2>1. job.step = "rollback" /\ job.step \in Within
    BY <1>2, <1>3 DEF Within
  <2>2. PICK c : c = Cur
    OBVIOUS
  <2>3. c \in Seq(Payloads) /\ Len(c) \in Nat /\ Len(c) >= 1 /\ Applying(c, Len(c) - 1)
    BY <1>3, <2>1, <2>2, BlockFacts DEF Fits, Adding, Keeps, AddsTxs, IsBlock, Within
  <2>4. PICK n \in 0 .. Len(c) - 1 : n = Len(c) - 1 /\ n + 1 = Len(c)
    BY <2>3
  <2>5. Cur = Upto(c, n + 1)
    BY <2>2, <2>3, <2>4, UptoAll
  <2> QED
    BY <2>1, <2>3, <2>4, <2>5, RolledBackLast
<1>4. ASSUME job.mode \in ForkModes
      PROVE  \E own : /\ Replaces(own) /\ own \in Seq(Payloads) /\ job.new \in Seq(Payloads)
                      /\ Len(job.base) \in 1 .. Len(own) /\ Len(job.base) \in 1 .. Len(job.new)
  <2>1. PICK own : HasOwn(own) /\ Replaces(own)
    BY <1>4 DEF Keeps, ForkTxs
  <2> QED
    BY <1>4, <2>1, OwnFacts
<1>5. CASE job.mode \in {"fork", "restore"}
  <2>1. PICK c \in Seq(Payloads) : Len(job.base) \in 1 .. Len(c) /\ Applies(c)
    <3>1. PICK own : /\ Replaces(own) /\ own \in Seq(Payloads) /\ job.new \in Seq(Payloads)
                     /\ Len(job.base) \in 1 .. Len(own) /\ Len(job.base) \in 1 .. Len(job.new)
      BY <1>4, <1>5 DEF ForkModes
    <3> QED
      BY <1>5, <3>1 DEF Replaces
  <2>2. PICK n \in Len(job.base) .. Len(c) :
            /\ Applying(c, n) /\ (job.todo = <<>> <=> n = Len(c))
            /\ n \in 0 .. Len(c) /\ n \in Nat /\ Len(c) \in Nat
            /\ n < Len(c) => n \in 0 .. Len(c) - 1 /\ Cur = Upto(c, n + 1)
    BY <2>1, UpTodo
  <2>3. n # Len(c)
    BY <1>1, <2>2
  <2>4. n < Len(c)
    BY <2>2, <2>3
  <2> QED
    BY <1>2, <1>5, <2>2, <2>4, RolledBackLast
<1>6. CASE job.mode \in {"undoOwn", "undoNew"}
  <2>1. PICK own : /\ Replaces(own) /\ own \in Seq(Payloads) /\ job.new \in Seq(Payloads)
                   /\ Len(job.base) \in 1 .. Len(own) /\ Len(job.base) \in 1 .. Len(job.new)
    BY <1>4, <1>6 DEF ForkModes
  <2>2. PICK c \in Seq(Payloads) : Len(job.base) \in 1 .. Len(c) /\ Undoing(c, Len(job.base))
    BY <1>6, <2>1 DEF Replaces
  <2> QED
    BY <1>2, <1>6, <2>2, UndoIsLast
<1>7. CASE job.mode = "reset"
  <2>1. Undoing(info.blk, job.at) /\ info.blk \in Seq(Payloads) /\ job.at \in 1 .. Len(info.blk)
    BY <1>7 DEF Keeps, Fits, Resetting, IsBlock
  <2> QED
    BY <1>2, <1>7, <2>1, UndoIsLast
<1>8. job.mode \in AddModes \cup ForkModes \cup {"reset"}
  <2>1. job.mode \in Modes
    BY DEF TypeOK
  <2> QED
    BY <1>1, <1>2, <2>1 DEF Modes, ApplyModes, UndoModes, AddModes, ForkModes
<1> QED
  BY <1>3, <1>5, <1>6, <1>7, <1>8 DEF ForkModes

(* Only an undo out of order mixes up the ledger, if nothing else happens. *)
LEMMA MixedByUndo ==
    ASSUME [Next]_vars, incidents = {}, incidents' = {"mixed"}
    PROVE  job.step \in {"undo", "rollback"} /\ ~ InOrder(CurTx)
<1>1. incidents' # incidents /\ "mixed" \notin incidents
  OBVIOUS
<1>2. CASE StartJob \/ ParseQueue \/ UNCHANGED vars \/ \E t \in Tx : Submit(t) \/ UpdFullNodes(t)
  BY <1>1, <1>2 DEF StartJob, ParseQueue, vars, Submit, UpdFullNodes, StartCollect,
                    ParseBlockQueue, StartGenerate, StartReset, runVars
<1>3. CASE RollbackTo
  BY <1>1, <1>3 DEF RollbackTo, Undo
<1>4. CASE UndoTx
  BY <1>1, <1>4 DEF UndoTx, Undo
<1>5. CASE JobStep /\ ~ RollbackTo /\ ~ UndoTx
  BY <1>1, <1>5
     DEF JobStep, CollectNext, StopCollect, FormBlock, CheckHeader, MarkTx, RollbackFront,
         RecordStop, ExecTx, FrontFails, InitFails, MainFails, LogTx, UpdBlockInfo,
         InsertIntoBlockchain, UnlogTx, UndoneBlock, ResetInfo, ApplyFork, DropOwn,
         CommitInfo, CommitRow, Committed, ForkPanics, UndoFork, RestoreOwn, RestoreInfo,
         RestoreFails, BlockRefused, runVars
<1>6. CASE Crashes
  <2>1. "crash" \in incidents'
    BY <1>6, CrashIncidents
  <2> QED
    BY <2>1
<1> QED
  BY <1>2, <1>3, <1>4, <1>5, <1>6 DEF Next

LEMMA StepInOrder ==
    ASSUME TypeOK, Inv, ChainInv, KeepInv, UndoneInOrder, [Next]_vars
    PROVE  UndoneInOrder'
<1> SUFFICES ASSUME incidents' = {"mixed"} PROVE FALSE
  BY DEF UndoneInOrder
<1>1. incidents = {}
  <2>1. incidents \subseteq {"mixed"} /\ incidents # {"mixed"}
    BY IncidentsGrow DEF UndoneInOrder
  <2> QED
    BY <2>1
<1>2. Unmixed /\ crashes = 0 /\ Fits /\ Keeps
  BY <1>1 DEF Unmixed, ChainInv, Tidy, KeepInv
<1> QED
  BY <1>1, <1>2, MixedByUndo, LastUndone

LEMMA StartKeeps ==
    ASSUME Init PROVE KeepInv
<1>1. info.blk = <<Genesis>> /\ job.mode = "none"
  BY DEF Init, NoJob
<1>2. Genesis.txs = <<>>
  BY ChainsAssumption
<1>3. Slots(<<Genesis>>) = {}
  <2> SUFFICES ASSUME NEW s \in Slots(<<Genesis>>) PROVE FALSE
    OBVIOUS
  <2>1. s[1] \in 1 .. 1 /\ s[2] \in 1 .. Len(<<Genesis>>[s[1]].txs)
    BY DEF Slots
  <2>2. s[1] = 1 /\ <<Genesis>>[1] = Genesis
    BY <2>1
  <2>3. s[2] \in 1 .. 0
    BY <1>2, <2>1, <2>2
  <2> QED
    BY <2>3
<1>4. ledger = EffectsOf(ChainTxs(<<Genesis>>))
  <2> DEFINE c == <<Genesis>>
  <2>1. c \in Seq(Payloads) /\ Len(c) = 1 /\ c[1] = Genesis
    BY ChainsAssumption
  <2> HIDE DEF c
  <2>2. 0 \in 0 .. Len(c) /\ 0 < Len(c) /\ 0 + 1 = 1
    BY <2>1
  <2>3. /\ ChainTxs(Upto(c, 0 + 1)) = ChainTxs(Upto(c, 0)) \o c[0 + 1].txs
        /\ ChainTxs(Upto(c, 0)) = <<>>
    BY <2>1, <2>2, ChainTxsFacts
  <2>4. ChainTxs(c) = <<>> \o <<>>
    BY <1>2, <2>1, <2>2, <2>3, UptoAll
  <2>5. ChainTxs(c) = <<>>
    BY <2>4
  <2>6. EffectsOf(<<>>) = <<>>
    BY DEF EffectsOf
  <2> QED
    BY <2>5, <2>6 DEF Init, c
<1>5. AllApplied(info.blk)
  BY <1>1, <1>3, <1>4 DEF AllApplied, Sound
<1>6. crashes = 0
  BY DEF Init
<1> QED
  BY <1>1, <1>5, <1>6 DEF KeepInv, Keeps, AddsTxs, ForkTxs, AddModes, ForkModes

(* What is logged is applied, so that what is logged or queued is not lost.*)
LEMMA KeepsIsKept ==
    ASSUME Inv, Unmixed, Fits, Keeps, job.mode \in ForkModes, NEW id \in (Len(job.base) + 1) .. MaxId,
           rows[id] # NoBlock
    PROVE  ToSet(Txs(rows[id])) \subseteq Applied \cup queue
<1>1. PICK own : HasOwn(own) /\ Queued(own)
  BY DEF Keeps, ForkTxs
<1>2. /\ own \in Seq(Payloads) /\ Stored(own) /\ Len(job.base) \in 1 .. Len(own)
      /\ Len(own) \in Nat
  BY <1>1, OwnFacts, LenProperties
<1>3. id \in Ids /\ id \in Nat /\ id >= 1
  BY <1>2, BoundsAssumption DEF Ids
<1>4. id \in 1 .. Len(own) /\ rows[id] = Upto(own, id)
  BY <1>2, <1>3, StoredFacts
<1>5. Txs(rows[id]) = own[id].txs /\ own[id].txs \in Seq(Tx)
  BY <1>2, <1>4, TxsFacts
<1>6. ASSUME NEW p \in DOMAIN own[id].txs PROVE own[id].txs[p] \in logTx \cup queue
  <2>1. p \in 1 .. Len(own[id].txs) /\ p \in Nat
    BY <1>5, LenProperties
  <2>2. <<id, p>> \in Slots(own)
    BY <1>3, <1>4, <2>1 DEF Slots
  <2> QED
    BY <1>1, <2>2 DEF Queued, TxAt
<1> QED
  BY <1>5, <1>6 DEF ToSet, Inv, Matched

LEMMA KeptHolds == Spec => [](Inv /\ ChainInv /\ KeepInv)
<1>1. Init => KeepInv
  BY StartKeeps
<1>2. Spec => []ChainInv
  BY ChainHolds
<1> QED
  BY <1>1, <1>2, StepKeeps, Holds, PTL DEF Spec

(* While a fork replaces own blocks, each of their transactions is applied *)
(* or waits in the queue, however far the fork has got or fails.           *)
THEOREM NoneLost == Spec => []ForkKeepsTxs
<1>1. Inv /\ ChainInv /\ KeepInv => ForkKeepsTxs
  BY KeepsIsKept DEF ChainInv, KeepInv, Tidy, ForkKeepsTxs, ForkModes, Unmixed
<1> QED
  BY <1>1, KeptHolds, PTL

(* The transactions of the chain are what is logged, since what is logged  *)
(* is applied and nothing that is applied is missing from the log.         *)
LEMMA KeptIsExact ==
    ASSUME Inv, Unmixed, Fits, Keeps, crashes = 0, Idle
    PROVE  LET txs == ChainTxs(info.blk) IN
           /\ ledger = [i \in DOMAIN txs |-> Effect(txs[i])]
           /\ logTx = ToSet(txs)
<1>1. AllApplied(info.blk) /\ job.step = ""
  BY DEF Keeps, Idle, Inv, JobInv, AtWork
<1>2. PICK txs : txs = ChainTxs(info.blk)
  OBVIOUS
<1>3. ledger = [i \in DOMAIN txs |-> Effect(txs[i])]
  BY <1>1, <1>2 DEF AllApplied, EffectsOf
<1>4. Applied = ToSet(txs)
  BY <1>3 DEF Applied, Whole, Effect, ToSet
<1>5. Gap = {}
  BY GapFacts, FS_EmptySet DEF Inv, LogInv, Matched
<1>6. Applied \subseteq logTx
  BY <1>1, <1>5 DEF Gap
<1>7. logTx \subseteq Applied
  BY DEF Inv, Matched
<1> QED
  BY <1>2, <1>3, <1>4, <1>6, <1>7

(* Between two jobs the ledger is the effects of the chain's transactions, *)
(* in order, and log_transactions those transactions: whatever forks were  *)
(* taken or undone, blocks refused and resets made, as long as nothing was *)
(* left half done.                                                         *)
THEOREM LedgerCorrect == Spec => []LedgerIsChain
<1>1. Inv /\ ChainInv /\ KeepInv => LedgerIsChain
  BY KeptIsExact DEF ChainInv, KeepInv, Tidy, LedgerIsChain, Unmixed
<1> QED
  BY <1>1, KeptHolds, PTL

(* As long as nothing else goes wrong, each undo is of the last effects in *)
(* the ledger, which is the case for which the undo log is made: the       *)
(* transactions of a block are undone in reverse order, the blocks from    *)
(* the top, and a block that is refused has applied none but the failed    *)
(* transaction, or the incident "stopped" is recorded (ParseDataRollback,  *)
(* RollbackTo, GetBlocks, RollbackToBlockID).                              *)
THEOREM LastIsUndone == Spec => []UndoneInOrder
<1>1. Init => UndoneInOrder
  BY DEF Init, UndoneInOrder
<1>2. TypeOK /\ Inv /\ ChainInv /\ KeepInv /\ UndoneInOrder /\ [Next]_vars => UndoneInOrder'
  BY StepInOrder
<1> QED
  BY <1>1, <1>2, TypeCorrect, KeptHolds, PTL DEF Spec
=============================================================================
