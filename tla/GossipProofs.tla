---------------------------- MODULE GossipProofs ----------------------------
(* Proofs about the exchange of blocks and transactions, for any number of *)
(* nodes, transactions, connections and faults.                            *)
EXTENDS Gossip, NumberFacts, FiniteSetTheorems, SequenceTheorems, TLAPS

-----------------------------------------------------------------------------
(* Chains.                                                                 *)

First == [by |-> CHOOSE m \in Nodes : TRUE, txs |-> {}]

(* The height is within the bound, and the first block is the same.        *)
IsChain(c) == c \in Chains /\ Len(c) \in 1 .. MaxId /\ c[1] = First

LEMMA ChainFacts ==
    ASSUME NEW c \in Chains
    PROVE  /\ Len(c) \in Nat /\ DOMAIN c = 1 .. Len(c)
           /\ \A i \in 1 .. Len(c) : c[i] \in Blocks /\ c[i].txs \subseteq Tx
<1>1. Len(c) \in Nat /\ DOMAIN c = 1 .. Len(c)
  BY LenProperties DEF Chains
<1>2. ASSUME NEW i \in 1 .. Len(c) PROVE c[i] \in Blocks
  BY ElementOfSeq DEF Chains
<1> QED
  BY <1>1, <1>2 DEF Blocks

LEMMA UptoFacts ==
    ASSUME NEW c \in Chains, NEW id \in 0 .. Len(c)
    PROVE  /\ Upto(c, id) \in Chains /\ Len(Upto(c, id)) = id
           /\ \A i \in 1 .. id : Upto(c, id)[i] = c[i]
<1>1. \A i \in 1 .. id : c[i] \in Blocks
  BY ChainFacts
<1>2. id \in Int /\ 1 \in Int
  BY ChainFacts
<1> QED
  BY <1>1, <1>2, SubSeqProperties DEF Upto, Chains

LEMMA UptoUpto ==
    ASSUME NEW c \in Chains, NEW id \in 0 .. Len(c), NEW i \in 0 .. id
    PROVE  Upto(Upto(c, id), i) = Upto(c, i)
<1> DEFINE a == Upto(Upto(c, id), i)
           b == Upto(c, i)
<1>1. Len(c) \in Nat /\ i \in 0 .. Len(c)
  BY ChainFacts
<1>2. a \in Chains /\ Len(a) = i /\ \A j \in 1 .. i : a[j] = Upto(c, id)[j]
  BY UptoFacts
<1>3. b \in Chains /\ Len(b) = i /\ \A j \in 1 .. i : b[j] = c[j]
  BY <1>1, UptoFacts
<1>4. \A j \in 1 .. i : Upto(c, id)[j] = c[j]
  BY UptoFacts
<1>5. \A j \in 1 .. i : a[j] = b[j]
  BY <1>2, <1>3, <1>4
<1> HIDE DEF a, b
<1>6. a = b
  BY <1>2, <1>3, <1>5, SeqEqual DEF Chains
<1> QED
  BY <1>6 DEF a, b

LEMMA UptoIsChain ==
    ASSUME NEW c, IsChain(c), NEW id \in 1 .. Len(c)
    PROVE  IsChain(Upto(c, id))
<1>1. id \in 0 .. Len(c) /\ id <= MaxId
  BY BoundsAssumption DEF IsChain
<1> QED
  BY <1>1, UptoFacts, BoundsAssumption DEF IsChain

LEMMA LoggedType == ASSUME NEW c \in Chains PROVE Logged(c) \subseteq Tx
BY ChainFacts DEF Logged

LEMMA LoggedUpto ==
    ASSUME NEW c \in Chains, NEW id \in 0 .. Len(c)
    PROVE  Logged(Upto(c, id)) \subseteq Logged(c)
<1>1. /\ Upto(c, id) \in Chains /\ Len(Upto(c, id)) = id /\ Len(c) \in Nat
      /\ \A i \in 1 .. id : Upto(c, id)[i] = c[i]
  BY UptoFacts, ChainFacts
<1>2. DOMAIN Upto(c, id) = 1 .. id /\ DOMAIN c = 1 .. Len(c)
  BY <1>1, ChainFacts
<1>3. \A i \in DOMAIN Upto(c, id) : i \in DOMAIN c /\ Upto(c, id)[i].txs = c[i].txs
  BY <1>1, <1>2
<1> HIDE DEF Upto
<1> QED
  BY <1>3 DEF Logged

(* The common part of two chains is a part of both.                        *)
LEMMA CommonFacts ==
    ASSUME NEW a, NEW b, IsChain(a), IsChain(b)
    PROVE  /\ Common(a, b) \in 1 .. Len(a) /\ Common(a, b) <= Len(b)
           /\ Upto(a, Common(a, b)) = Upto(b, Common(a, b))
<1> DEFINE T == {i \in 1 .. Len(a) : i <= Len(b) /\ Upto(a, i) = Upto(b, i)}
<1>1. a \in Chains /\ b \in Chains /\ Len(a) \in Nat /\ Len(b) \in Nat
      /\ 1 \in 0 .. Len(a) /\ 1 \in 0 .. Len(b)
  BY ChainFacts DEF IsChain
<1>2. Upto(a, 1) = Upto(b, 1)
  <2> DEFINE x == Upto(a, 1)
             y == Upto(b, 1)
  <2>1. x \in Chains /\ y \in Chains /\ Len(x) = 1 /\ Len(y) = 1
        /\ x[1] = First /\ y[1] = First
    <3>1. 1 \in 1 .. 1 /\ a[1] = First /\ b[1] = First
      BY DEF IsChain
    <3>2. /\ x \in Chains /\ Len(x) = 1 /\ \A i \in 1 .. 1 : x[i] = a[i]
          /\ y \in Chains /\ Len(y) = 1 /\ \A i \in 1 .. 1 : y[i] = b[i]
      BY <1>1, UptoFacts
    <3> QED
      BY <3>1, <3>2
  <2> HIDE DEF x, y
  <2>2. x = y
    BY <2>1, SeqEqual DEF Chains
  <2> QED
    BY <2>2 DEF x, y
<1>3. 1 \in T
  BY <1>1, <1>2
<1>4. T \in SUBSET (0 .. Len(a)) /\ T # {}
  BY <1>3
<1>5. Max(T) \in T
  <2> HIDE DEF T
  <2> QED
    BY <1>1, <1>4, Greatest
<1> QED
  BY <1>5 DEF Common

-----------------------------------------------------------------------------
(* Types.  A state is typed part by part.                                  *)

StoreType ==
    /\ chain \in [Nodes -> Chains] /\ unsent \in [Nodes -> BOOLEAN]
    /\ queue \in [Nodes -> SUBSET Tx] /\ rows \in [Nodes -> [Tx -> RowStates]]
    /\ given \in [Nodes -> SUBSET Tx] /\ held \in [Nodes -> SUBSET Chains]
    /\ \A n \in Nodes : chain[n] \in held[n] /\ IsChain(chain[n])

BlocksType == blocks \in [Nodes -> SUBSET [blk : Chains, from : Nodes]]

SendType ==
    /\ teller \in [Nodes -> [step : {"idle", "mark", "offer"}, blk : Chains]]
    /\ conns \in [Links -> [step : {"closed", "dial", "open", "asked", "answered"},
                            blk : Chains, txs : SUBSET Tx]]
    /\ counter \in [Nodes -> Int]
    /\ refused \in 0 .. MaxRefused

CheckType ==
    /\ started \in Settings
    /\ conf \in [Nodes -> [Ids -> Nat \cup {Unasked}]]
    /\ round \in [Nodes -> [step : {"idle", "read", "ask"}, id : Nat, start : Int,
                               blk : Chains, good : Nat, left : SUBSET Nodes]]
    /\ \A n \in Nodes : /\ round[n].step # "idle" => round[n].id \in Ids
                        /\ round[n].start \in Nat

TypeInv ==
    StoreType /\ BlocksType /\ SendType /\ CheckType /\ lost \in 0 .. MaxLost

LEMMA TypeInvImplies == TypeInv => TypeOK
BY DEF TypeInv, StoreType, BlocksType, SendType, CheckType, TypeOK

LEMMA GenesisIsChain ==
    ASSUME NEW n \in Nodes
    PROVE  IsChain(Genesis(n))
<1>1. First \in Blocks
  BY DEF First, Blocks
<1>2. Genesis(n) = <<First>> /\ MaxId \in Nat \ {0}
  BY BoundsAssumption DEF Genesis, First
<1> HIDE DEF First
<1> QED
  BY <1>1, <1>2 DEF IsChain, Chains

LEMMA InitTypes == Init => TypeInv
<1> SUFFICES ASSUME Init PROVE TypeInv
  OBVIOUS
<1>1. \A n \in Nodes : IsChain(Genesis(n)) /\ Genesis(n) \in Chains
  BY GenesisIsChain DEF IsChain
<1>2. NoBlock \in Chains
  BY DEF NoBlock, Chains
<1>3. StoreType
  BY <1>1 DEF Init, StoreType, RowStates, NoRow
<1>4. BlocksType
  BY DEF Init, BlocksType
<1>5. SendType
  BY <1>2, BoundsAssumption DEF Init, SendType, Quiet, NoConn
<1>6. CheckType
  BY <1>2 DEF Init, CheckType, Rest
<1>7. lost \in 0 .. MaxLost
  BY BoundsAssumption DEF Init
<1> QED
  BY <1>3, <1>4, <1>5, <1>6, <1>7 DEF TypeInv

-----------------------------------------------------------------------------
(* The pool and the chain of a node.                                       *)

LEMMA RowFacts ==
    ASSUME StoreType, NEW n \in Nodes, NEW t \in Tx
    PROVE  rows[n][t] \in RowStates /\ Unverified(rows[n][t]) \in RowStates
           /\ Parsed(n, t) \in RowStates
<1>1. rows[n][t] \in RowStates
  BY DEF StoreType
<1> QED
  BY <1>1 DEF RowStates, NoRow, Unverified, Parsed, Fresh

LEMMA AllParsedType ==
    ASSUME StoreType, NEW n \in Nodes
    PROVE  AllParsed(n) \in [Tx -> RowStates]
BY RowFacts DEF AllParsed

LEMMA RowsAfterType ==
    ASSUME NEW old \in [Tx -> RowStates], NEW blk
    PROVE  RowsAfter(old, blk) \in [Tx -> RowStates]
BY DEF RowsAfter, RowStates, NoRow

LEMMA AdoptTypes ==
    ASSUME StoreType, NEW n \in Nodes, NEW blk, IsChain(blk), Adopt(n, blk),
           queue' \in [Nodes -> SUBSET Tx], rows' \in [Nodes -> [Tx -> RowStates]],
           given' = given
    PROVE  StoreType'
<1>1. blk \in Chains
  BY DEF IsChain
<1>2. chain' \in [Nodes -> Chains] /\ unsent' \in [Nodes -> BOOLEAN]
  BY <1>1 DEF StoreType, Adopt
<1>3. held' \in [Nodes -> SUBSET Chains]
  BY <1>1 DEF StoreType, Adopt
<1>4. ASSUME NEW m \in Nodes PROVE chain'[m] \in held'[m] /\ IsChain(chain'[m])
  <2>1. CASE m = n
    BY <2>1 DEF StoreType, Adopt
  <2>2. CASE m # n
    BY <2>2 DEF StoreType, Adopt
  <2> QED
    BY <2>1, <2>2
<1> QED
  BY <1>2, <1>3, <1>4 DEF StoreType, IsChain

LEMMA AppendFacts ==
    ASSUME NEW c, IsChain(c), Len(c) < MaxId, NEW b \in Blocks
    PROVE  /\ IsChain(Append(c, b)) /\ Len(Append(c, b)) = Len(c) + 1
           /\ \A i \in 1 .. Len(c) : Append(c, b)[i] = c[i]
           /\ Append(c, b)[Len(c) + 1] = b
<1>1. c \in Seq(Blocks) /\ Len(c) \in Nat /\ Len(c) >= 1 /\ MaxId \in Nat
  BY BoundsAssumption DEF IsChain, Chains
<1>2. /\ Append(c, b) \in Seq(Blocks) /\ Len(Append(c, b)) = Len(c) + 1
      /\ \A i \in 1 .. Len(c) : Append(c, b)[i] = c[i]
      /\ Append(c, b)[Len(c) + 1] = b
  BY <1>1, AppendProperties
<1> QED
  BY <1>1, <1>2 DEF IsChain, Chains

LEMMA GenerateTypes ==
    ASSUME StoreType, NEW n \in Nodes, Generate(n)
    PROVE  StoreType'
<1> DEFINE parsed == AllParsed(n)
           txs == {t \in Tx : parsed[t][1] = "ok" /\ t \notin Logged(chain[n])}
           b == [by |-> n, txs |-> txs]
           blk == Append(chain[n], b)
<1>1. b \in Blocks
  BY DEF Blocks
<1>2. IsChain(chain[n]) /\ Len(chain[n]) < MaxId
  BY DEF StoreType, Generate
<1>3. Adopt(n, blk) /\ rows' = [rows EXCEPT ![n] = RowsAfter(parsed, blk)]
      /\ queue' = [queue EXCEPT ![n] = {}] /\ given' = given
  BY DEF Generate
<1>4. RowsAfter(parsed, blk) \in [Tx -> RowStates]
  BY AllParsedType, RowsAfterType
<1> HIDE DEF b, parsed
<1>5. IsChain(blk)
  BY <1>1, <1>2, AppendFacts
<1> HIDE DEF blk
<1>6. rows' \in [Nodes -> [Tx -> RowStates]] /\ queue' \in [Nodes -> SUBSET Tx]
  BY <1>3, <1>4 DEF StoreType
<1> QED
  BY <1>3, <1>5, <1>6, AdoptTypes

LEMMA FollowTypes ==
    ASSUME StoreType, NEW n \in Nodes, NEW blk, IsChain(blk), Follow(n, blk), given' = given
    PROVE  StoreType'
<1> DEFINE undone == Logged(chain[n]) \ Logged(Upto(chain[n], Common(chain[n], blk)))
           old == [t \in Tx |-> Unverified(rows[n][t])]
<1>1. Adopt(n, blk) /\ queue' = [queue EXCEPT ![n] = queue[n] \cup undone]
      /\ rows' = [rows EXCEPT ![n] = RowsAfter(old, blk)]
  BY DEF Follow
<1>2. undone \subseteq Tx
  BY LoggedType DEF StoreType
<1>3. RowsAfter(old, blk) \in [Tx -> RowStates]
  BY RowFacts, RowsAfterType
<1> HIDE DEF undone, old
<1>4. rows' \in [Nodes -> [Tx -> RowStates]] /\ queue' \in [Nodes -> SUBSET Tx]
  BY <1>1, <1>2, <1>3 DEF StoreType
<1> QED
  BY <1>1, <1>4, AdoptTypes

(* Whoever follows takes a part of the chain of some node.                 *)
Following(n) ==
    \E m \in Nodes : \E id \in 1 .. Len(chain[m]) : Follow(n, Upto(chain[m], id))

LEMMA CollectFollows ==
    ASSUME StoreType, NEW n \in Nodes, NEW m \in Nodes, Collect(n, m)
    PROVE  Following(n)
<1> DEFINE len == Len(chain[n])
           next == Upto(chain[m], len + 1)
<1>1. /\ chain[m] \in Chains /\ Len(chain[m]) \in Nat
      /\ len \in 1 .. Len(chain[m]) /\ len + 1 \in 1 .. Len(chain[m])
  BY ChainFacts DEF StoreType, IsChain, Collect
<1>2. Len(next) = len + 1 /\ Len(next) - 1 = len
  BY <1>1, UptoFacts
<1>3. Front(next) = Upto(chain[m], len)
  <2>1. Front(next) = Upto(next, len)
    BY <1>2 DEF Front, Upto
  <2>2. len + 1 \in 0 .. Len(chain[m]) /\ len \in 0 .. (len + 1)
    BY <1>1
  <2> QED
    BY <1>1, <2>1, <2>2, UptoUpto
<1>4. Follow(n, next) \/ Follow(n, Front(next))
  BY DEF Collect
<1> QED
  BY <1>1, <1>3, <1>4 DEF Following

LEMMA FetchFollows ==
    ASSUME StoreType, BlocksType, NEW n \in Nodes, NEW q \in blocks[n], FetchBlock(n, q)
    PROVE  Following(n)
<1>1. q.from \in Nodes /\ q.blk \in Chains
  BY DEF BlocksType
<1>2. Len(q.blk) \in 1 .. Len(chain[q.from])
  BY <1>1, ChainFacts DEF FetchBlock, Fetchable, StoreType, IsChain
<1> QED
  BY <1>1, <1>2 DEF FetchBlock, Following

LEMMA FollowingTypes ==
    ASSUME StoreType, NEW n \in Nodes, Following(n), given' = given
    PROVE  StoreType'
<1>1. PICK m \in Nodes : \E id \in 1 .. Len(chain[m]) : Follow(n, Upto(chain[m], id))
  BY DEF Following
<1>2. PICK id \in 1 .. Len(chain[m]) : Follow(n, Upto(chain[m], id))
  BY <1>1
<1>3. IsChain(Upto(chain[m], id))
  BY UptoIsChain DEF StoreType
<1> QED
  BY <1>2, <1>3, FollowTypes
-----------------------------------------------------------------------------
(* The Disseminator, connections, Confirmations.                           *)

LEMMA ReadBlockTypes ==
    ASSUME TypeInv, NEW n \in Nodes, ReadBlock(n)
    PROVE  SendType'
<1>1. chain[n] \in Chains /\ NoBlock \in Chains
  BY DEF TypeInv, StoreType, NoBlock, Chains
<1> QED
  BY <1>1 DEF ReadBlock, TypeInv, SendType

LEMMA MarkBlockTypes ==
    ASSUME TypeInv, NEW n \in Nodes, MarkBlock(n)
    PROVE  StoreType' /\ SendType'
<1>1. teller' \in [Nodes -> [step : {"idle", "mark", "offer"}, blk : Chains]]
  BY DEF MarkBlock, TypeInv, SendType
<1> QED
  BY <1>1 DEF MarkBlock, TypeInv, SendType, StoreType, IsChain

LEMMA OfferTypes ==
    ASSUME TypeInv, NEW n \in Nodes, Offer(n)
    PROVE  StoreType' /\ SendType'
<1>1. Unsent(n) \subseteq Tx
  BY DEF Unsent
<1>2. teller[n].blk \in Chains /\ Quiet \in [step : {"idle", "mark", "offer"}, blk : Chains]
  BY DEF TypeInv, SendType, Quiet, NoBlock, Chains
<1>3. conns' \in [Links -> [step : {"closed", "dial", "open", "asked", "answered"},
                            blk : Chains, txs : SUBSET Tx]]
  <2> DEFINE blk == teller[n].blk
             free(m) == {c \in {d \in Links : d.from = n} : c.to = m /\ conns[c].step = "closed"}
             chosen == {CHOOSE c \in free(m) : TRUE : m \in Nodes \ {n}}
             msg == [step |-> "dial", blk |-> blk, txs |-> Unsent(n)]
  <2>1. \/ conns' = conns
        \/ conns' = [c \in Links |-> IF c \in chosen THEN msg ELSE conns[c]]
    BY DEF Offer
  <2>2. msg \in [step : {"closed", "dial", "open", "asked", "answered"},
                 blk : Chains, txs : SUBSET Tx]
    BY <1>1, <1>2
  <2> HIDE DEF msg, chosen
  <2> QED
    BY <2>1, <2>2 DEF TypeInv, SendType
<1>4. rows' \in [Nodes -> [Tx -> RowStates]]
  <2>1. ASSUME NEW t \in Tx, IsUnsent(n, t)
        PROVE  <<rows[n][t][1], "sent">> \in RowStates
    <3>1. rows[n][t] \in RowStates
      BY DEF TypeInv, StoreType
    <3> QED
      BY <2>1, <3>1 DEF RowStates, NoRow, IsUnsent, HasRow
  <2> QED
    BY <2>1 DEF Offer, TypeInv, StoreType
<1>5. teller' \in [Nodes -> [step : {"idle", "mark", "offer"}, blk : Chains]]
  BY <1>2 DEF Offer, TypeInv, SendType
<1> QED
  BY <1>3, <1>4, <1>5 DEF Offer, TypeInv, SendType, StoreType, IsChain

LEMMA CloseTypes ==
    ASSUME SendType, NEW c \in Links, Close(c) \/ conns' = conns,
           counter' = counter \/ Count(c.to, 1) \/ Count(c.to, -1),
           teller' = teller, refused' \in 0 .. MaxRefused
    PROVE  SendType'
<1>1. NoConn \in [step : {"closed", "dial", "open", "asked", "answered"},
                  blk : Chains, txs : SUBSET Tx]
  BY DEF NoConn, NoBlock, Chains
<1>2. c.to \in Nodes
  BY DEF Links
<1>3. counter' \in [Nodes -> Int]
  BY <1>2 DEF SendType, Count
<1> QED
  BY <1>1, <1>3 DEF SendType, Close

LEMMA TalkTypes ==
    ASSUME TypeInv, NEW c \in Links, Talk(c) \/ Refuse(c) \/ Break(c)
    PROVE  SendType'
<1>1. refused \in 0 .. MaxRefused /\ SendType /\ c.to \in Nodes /\ NoBlock \in Chains
  BY DEF TypeInv, SendType, Links, NoBlock, Chains
<1>2. CASE Accept(c)
  BY <1>1, <1>2 DEF Accept, Count, SendType
<1>3. CASE Receive(c)
  <2>1. CASE DeferClose(c)
    BY <1>1, <1>3, <2>1, CloseTypes DEF Receive, DeferClose
  <2>2. CASE ~ DeferClose(c)
    <3>1. PICK need \in SUBSET conns[c].txs :
             conns' = [conns EXCEPT ![c] =
                          [step |-> "asked", blk |-> NoBlock, txs |-> need]]
             /\ UNCHANGED counter
      BY <1>3, <2>2 DEF Receive
    <3>2. need \subseteq Tx
      BY <1>1 DEF SendType
    <3> QED
      BY <1>1, <1>3, <3>1, <3>2 DEF Receive, SendType
  <2> QED
    BY <2>1, <2>2
<1>4. CASE Answer(c)
  <2>1. {t \in conns[c].txs : HasRow(c.from, t)} \in SUBSET Tx
    BY <1>1 DEF SendType
  <2> QED
    BY <1>1, <1>4, <2>1 DEF Answer, SendType
<1>5. CASE TakeTxs(c)
  BY <1>1, <1>5, CloseTypes DEF TakeTxs, DeferClose
<1>6. CASE Refuse(c)
  <2>1. refused' \in 0 .. MaxRefused
    BY <1>1, <1>6, BoundsAssumption DEF Refuse
  <2> QED
    BY <1>1, <1>6, <2>1, CloseTypes DEF Refuse, DeferClose
<1>7. CASE Break(c)
  BY <1>1, <1>7, CloseTypes DEF Break, DeferClose
<1> QED
  BY <1>2, <1>3, <1>4, <1>5, <1>6, <1>7 DEF Talk

LEMMA AnnouncedTypes ==
    ASSUME TypeInv, NEW c \in Links, Receive(c)
    PROVE  BlocksType'
<1>1. /\ c.to \in Nodes /\ c.from \in Nodes /\ conns[c].blk \in Chains
  BY DEF TypeInv, SendType, Links
<1>2. Announced(c) \subseteq [blk : Chains, from : Nodes]
  BY <1>1 DEF Announced, TypeInv, BlocksType
<1> QED
  BY <1>1, <1>2 DEF Receive, TypeInv, BlocksType

LEMMA TakeTxsTypes ==
    ASSUME TypeInv, NEW c \in Links, TakeTxs(c)
    PROVE  StoreType'
<1>1. c.to \in Nodes /\ conns[c].txs \subseteq Tx
  BY DEF TypeInv, SendType, Links
<1> QED
  BY <1>1 DEF TakeTxs, TypeInv, StoreType, IsChain

(* What Confirmations works on.                                            *)
Working(r) ==
    /\ r \in [step : {"idle", "read", "ask"}, id : Nat, start : Int,
              blk : Chains, good : Nat, left : SUBSET Nodes]
    /\ r.step # "idle" => r.id \in Ids
    /\ r.start \in Nat

LEMMA RestType == Working(Rest)
BY DEF Working, Rest, NoBlock, Chains

LEMMA ReadingType ==
    ASSUME NEW id \in Int, NEW start \in Nat, id <= MaxId
    PROVE  Working(Reading(id, start))
<1>1. CASE id > start
  <2>1. id \in Ids
    BY <1>1, BoundsAssumption DEF Ids
  <2>2. Reading(id, start) = [step |-> "read", id |-> id, start |-> start, blk |-> NoBlock,
                              good |-> 0, left |-> {}]
    BY <1>1 DEF Reading, Rest
  <2>3. NoBlock \in Chains /\ id \in Nat
    BY <1>1 DEF NoBlock, Chains
  <2> QED
    BY <2>1, <2>2, <2>3 DEF Working
<1>2. CASE ~ (id > start)
  BY <1>2, RestType DEF Reading
<1> QED
  BY <1>1, <1>2

LEMMA NextIdType ==
    ASSUME CheckType, NEW n \in Nodes, round[n].step # "idle"
    PROVE  Working(NextId(n))
<1>1. round[n].id \in Ids /\ round[n].start \in Nat
  BY DEF CheckType
<1>2. round[n].id - 1 \in Int /\ round[n].id - 1 <= MaxId
  BY <1>1, BoundsAssumption DEF Ids
<1> QED
  BY <1>1, <1>2, ReadingType DEF NextId

LEMMA ConfirmedType ==
    ASSUME NEW n \in Nodes
    PROVE  Confirmed(n) \in 0 .. MaxId
<1> DEFINE T == {id \in Ids : conf[n][id] >= MinGood} \cup {0}
<1>1. T \in SUBSET (0 .. MaxId) /\ T # {} /\ MaxId \in Nat
  BY BoundsAssumption DEF Ids
<1> HIDE DEF T
<1>2. Max(T) \in T
  BY <1>1, Greatest
<1> QED
  BY <1>1, <1>2 DEF Confirmed, T

LEMMA RoundTypes ==
    ASSUME CheckType, NEW n \in Nodes, NEW r, Working(r),
           round' = [round EXCEPT ![n] = r], started' = started,
           conf' \in [Nodes -> [Ids -> Nat \cup {Unasked}]]
    PROVE  CheckType'
BY DEF CheckType, Working

LEMMA CheckTypes ==
    ASSUME TypeInv, NEW n \in Nodes,
           Check(n) \/ \E m \in Nodes : NoAnswer(n, m)
    PROVE  CheckType'
<1>1. CheckType /\ conf \in [Nodes -> [Ids -> Nat \cup {Unasked}]]
      /\ IsChain(chain[n]) /\ Len(chain[n]) \in 1 .. MaxId /\ MaxId \in Nat
      /\ chain[n] \in Chains /\ Working(round[n])
  BY BoundsAssumption DEF TypeInv, StoreType, CheckType, IsChain, Working
<1>2. CASE BeginRound(n)
  <2> DEFINE last == Len(chain[n])
             start == IF last - Confirmed(n) > Recent THEN Confirmed(n) + 1 ELSE last - 1
  <2>1. last \in Int /\ last <= MaxId /\ start \in Nat
    BY <1>1, ConfirmedType
  <2>2. Working(Reading(last, start))
    BY <2>1, ReadingType
  <2>3. round' = [round EXCEPT ![n] = Reading(last, start)] /\ conf' = conf
        /\ started' = started
    BY <1>2 DEF BeginRound
  <2> HIDE DEF start, last
  <2> QED
    BY <1>1, <2>2, <2>3, RoundTypes
<1>3. CASE ReadHash(n)
  <2>1. CASE round[n].id > Len(chain[n])
    <3>1. round' = [round EXCEPT ![n] = NextId(n)] /\ conf' = conf /\ started' = started
      BY <1>3, <2>1 DEF ReadHash
    <3>2. Working(NextId(n))
      BY <1>1, <1>3, NextIdType DEF ReadHash
    <3> QED
      BY <1>1, <3>1, <3>2, RoundTypes
  <2>2. CASE ~ (round[n].id > Len(chain[n]))
    <3> DEFINE r == [round[n] EXCEPT !.step = "ask", !.good = 0, !.left = Nodes,
                                     !.blk = Upto(chain[n], round[n].id)]
    <3>1. round' = [round EXCEPT ![n] = r] /\ conf' = conf /\ started' = started
      BY <1>3, <2>2 DEF ReadHash
    <3>2. Upto(chain[n], round[n].id) \in Chains /\ round[n].id \in Ids
      <4>1. round[n].id \in Ids
        BY <1>1, <1>3 DEF ReadHash, CheckType
      <4>2. round[n].id \in 0 .. Len(chain[n])
        BY <1>1, <2>2, <4>1 DEF Ids
      <4> QED
        BY <1>1, <4>1, <4>2, UptoFacts
    <3>3. Working(r)
      BY <1>1, <3>2 DEF Working
    <3> HIDE DEF r
    <3> QED
      BY <1>1, <3>1, <3>3, RoundTypes
  <2> QED
    BY <2>1, <2>2
<1>4. CASE Confirm(n)
  <2>1. round[n].id \in Ids /\ round[n].good \in Nat
    BY <1>1, <1>4 DEF Confirm, CheckType
  <2>2. conf' \in [Nodes -> [Ids -> Nat \cup {Unasked}]] /\ started' = started
    BY <1>1, <1>4, <2>1 DEF Confirm
  <2> DEFINE r == IF round[n].good >= MinGood THEN Rest ELSE NextId(n)
  <2>3. Working(r) /\ round' = [round EXCEPT ![n] = r]
    BY <1>1, <1>4, NextIdType, RestType DEF Confirm
  <2> HIDE DEF r
  <2> QED
    BY <1>1, <2>2, <2>3, RoundTypes
<1>5. ASSUME NEW m \in Nodes, AnswerHash(n, m) \/ NoAnswer(n, m)
      PROVE  CheckType'
  <2>1. PICK good \in Nat :
           round' = [round EXCEPT ![n] = [round[n] EXCEPT !.left = round[n].left \ {m},
                                                          !.good = good]]
    <3>1. CASE AnswerHash(n, m)
      <4> DEFINE good == round[n].good + IF Same(n, m) THEN 1 ELSE 0
      <4>1. good \in Nat
        BY <1>1 DEF Working
      <4>2. round' = [round EXCEPT ![n] = [round[n] EXCEPT !.left = round[n].left \ {m},
                                                           !.good = good]]
        BY <1>1, <3>1 DEF AnswerHash, CheckType
      <4> QED
        BY <4>1, <4>2
    <3>2. CASE NoAnswer(n, m)
      <4>1. round[n].good \in Nat
        BY <1>1 DEF Working
      <4>2. round' = [round EXCEPT ![n] = [round[n] EXCEPT !.left = round[n].left \ {m},
                                                           !.good = round[n].good]]
        BY <1>1, <3>2 DEF NoAnswer, CheckType
      <4> QED
        BY <4>1, <4>2
    <3> QED
      BY <1>5, <3>1, <3>2
  <2> DEFINE r == [round[n] EXCEPT !.left = round[n].left \ {m}, !.good = good]
  <2>2. Working(r)
    BY <1>1 DEF Working
  <2>3. conf' = conf /\ started' = started
    BY <1>5 DEF AnswerHash, NoAnswer
  <2> HIDE DEF r
  <2> QED
    BY <1>1, <2>1, <2>2, <2>3, RoundTypes DEF r
<1> QED
  BY <1>2, <1>3, <1>4, <1>5 DEF Check
-----------------------------------------------------------------------------
(* Every step keeps the types.                                             *)

LEMMA SameTypes ==
    /\ StoreType /\ UNCHANGED <<storeVars, given>> => StoreType'
    /\ BlocksType /\ UNCHANGED blocks => BlocksType'
    /\ SendType /\ UNCHANGED sendVars => SendType'
    /\ CheckType /\ UNCHANGED checkVars => CheckType'
<1>1. StoreType /\ UNCHANGED <<storeVars, given>> => StoreType'
  BY DEF StoreType, storeVars, IsChain
<1>2. BlocksType /\ UNCHANGED blocks => BlocksType'
  BY DEF BlocksType
<1>3. SendType /\ UNCHANGED sendVars => SendType'
  BY DEF SendType, sendVars
<1>4. CheckType /\ UNCHANGED checkVars => CheckType'
  BY DEF CheckType, checkVars
<1> QED
  BY <1>1, <1>2, <1>3, <1>4

LEMMA StepTypes == TypeInv /\ [Next]_vars => TypeInv'
<1> SUFFICES ASSUME TypeInv, [Next]_vars PROVE TypeInv'
  OBVIOUS
<1>1. StoreType /\ BlocksType /\ SendType /\ CheckType /\ lost \in 0 .. MaxLost
      /\ MaxLost \in Nat
  BY BoundsAssumption DEF TypeInv
<1>2. ASSUME NEW n \in Nodes, NEW t \in Tx, Submit(n, t) PROVE TypeInv'
  <2>1. StoreType'
    BY <1>1, <1>2 DEF Submit, StoreType, IsChain
  <2> QED
    BY <1>1, <1>2, <2>1, SameTypes DEF Submit, TypeInv
<1>3. ASSUME NEW n \in Nodes, ParseQueue(n) PROVE TypeInv'
  <2>1. AllParsed(n) \in [Tx -> RowStates]
    BY <1>1, AllParsedType
  <2>2. StoreType'
    BY <1>1, <1>3, <2>1 DEF ParseQueue, StoreType, IsChain
  <2> QED
    BY <1>1, <1>3, <2>2, SameTypes DEF ParseQueue, TypeInv
<1>4. ASSUME NEW n \in Nodes, Generate(n) PROVE TypeInv'
  BY <1>1, <1>4, GenerateTypes, SameTypes DEF Generate, TypeInv
<1>5. ASSUME NEW n \in Nodes, NEW m \in Nodes, Collect(n, m) PROVE TypeInv'
  <2>1. Following(n) /\ UNCHANGED <<blocks, sendVars, checkVars, lost, given>>
    BY <1>1, <1>5, CollectFollows DEF Collect
  <2> QED
    BY <1>1, <2>1, FollowingTypes, SameTypes DEF TypeInv
<1>6. ASSUME NEW n \in Nodes, NEW q \in blocks[n], FetchBlock(n, q) PROVE TypeInv'
  <2>1. Following(n) /\ UNCHANGED <<blocks, sendVars, checkVars, lost, given>>
    BY <1>1, <1>6, FetchFollows DEF FetchBlock
  <2> QED
    BY <1>1, <2>1, FollowingTypes, SameTypes DEF TypeInv
<1>7. ASSUME NEW n \in Nodes, NEW q \in blocks[n], DropBlock(n, q) \/ LoseBlock(n, q)
      PROVE  TypeInv'
  <2>1. BlocksType'
    BY <1>1, <1>7 DEF DropBlock, LoseBlock, DropAnnounced, BlocksType
  <2>2. lost' \in 0 .. MaxLost
    BY <1>1, <1>7 DEF DropBlock, LoseBlock
  <2> QED
    BY <1>1, <1>7, <2>1, <2>2, SameTypes DEF DropBlock, LoseBlock, TypeInv
<1>8. ASSUME NEW n \in Nodes, Tell(n) PROVE TypeInv'
  <2>1. CASE ReadBlock(n)
    BY <1>1, <2>1, ReadBlockTypes, SameTypes DEF ReadBlock, TypeInv
  <2>2. CASE MarkBlock(n)
    BY <1>1, <2>2, MarkBlockTypes, SameTypes DEF MarkBlock, TypeInv
  <2>3. CASE Offer(n)
    BY <1>1, <2>3, OfferTypes, SameTypes DEF Offer, TypeInv
  <2> QED
    BY <1>8, <2>1, <2>2, <2>3 DEF Tell
<1>9. ASSUME NEW c \in Links, Talk(c) \/ Refuse(c) \/ Break(c) PROVE TypeInv'
  <2>1. SendType'
    BY <1>9, TalkTypes
  <2>2. CASE Accept(c)
    BY <1>1, <2>1, <2>2, SameTypes DEF Accept, TypeInv
  <2>3. CASE Receive(c)
    BY <1>1, <2>1, <2>3, AnnouncedTypes, SameTypes DEF Receive, TypeInv
  <2>4. CASE Answer(c)
    BY <1>1, <2>1, <2>4, SameTypes DEF Answer, TypeInv
  <2>5. CASE TakeTxs(c)
    BY <1>1, <2>1, <2>5, TakeTxsTypes, SameTypes DEF TakeTxs, TypeInv
  <2>6. CASE Refuse(c)
    BY <1>1, <2>1, <2>6, SameTypes DEF Refuse, TypeInv
  <2>7. CASE Break(c)
    <3>1. lost' \in 0 .. MaxLost
      BY <1>1, <2>7 DEF Break
    <3> QED
      BY <1>1, <2>1, <2>7, <3>1, SameTypes DEF Break, TypeInv
  <2> QED
    BY <1>9, <2>2, <2>3, <2>4, <2>5, <2>6, <2>7 DEF Talk
<1>10. ASSUME NEW n \in Nodes, Check(n) PROVE TypeInv'
  <2>1. CheckType'
    BY <1>10, CheckTypes
  <2>2. UNCHANGED <<storeVars, blocks, sendVars, lost, given>>
    BY <1>10 DEF Check, BeginRound, ReadHash, Confirm, AnswerHash
  <2> QED
    BY <1>1, <2>1, <2>2, SameTypes DEF TypeInv
<1>11. ASSUME NEW n \in Nodes, NEW m \in Nodes, NoAnswer(n, m) PROVE TypeInv'
  <2>1. lost' \in 0 .. MaxLost
    BY <1>1, <1>11 DEF NoAnswer
  <2>2. CheckType'
    BY <1>11, CheckTypes
  <2> QED
    BY <1>1, <1>11, <2>1, <2>2, SameTypes DEF NoAnswer, TypeInv
<1>12. CASE UNCHANGED vars
  BY <1>1, <1>12, SameTypes DEF vars, TypeInv
<1> QED
  BY <1>2, <1>3, <1>4, <1>5, <1>6, <1>7, <1>8, <1>9, <1>10, <1>11, <1>12
     DEF Next, Fetch, Catch

LEMMA TypesHold == Spec => []TypeInv
BY InitTypes, StepTypes, PTL DEF Spec

(* All variables keep their types, whatever interleaves, breaks or is      *)
(* refused; in particular every announced, asked or confirmed id is the id *)
(* of a block.                                                             *)
THEOREM TypeCorrect == Spec => []TypeOK
BY TypesHold, TypeInvImplies, PTL

-----------------------------------------------------------------------------
(* The chains.                                                             *)

(* A step leaves the chains alone, makes one longer, or follows a node.    *)
LEMMA ChainSteps ==
    ASSUME TypeInv, [Next]_vars
    PROVE  \/ chain' = chain /\ held' = held
           \/ \E n \in Nodes : Generate(n)
           \/ \E n \in Nodes : Following(n)
<1>1. StoreType /\ BlocksType
  BY DEF TypeInv
<1>2. ASSUME NEW n \in Nodes, NEW m \in Nodes, Collect(n, m) PROVE Following(n)
  BY <1>1, <1>2, CollectFollows
<1>3. ASSUME NEW n \in Nodes, NEW q \in blocks[n], FetchBlock(n, q) PROVE Following(n)
  BY <1>1, <1>3, FetchFollows
<1>4. ASSUME NEW n \in Nodes, Tell(n) \/ Check(n) PROVE chain' = chain /\ held' = held
  BY <1>4 DEF Tell, Check, ReadBlock, MarkBlock, Offer, BeginRound, ReadHash, AnswerHash,
              Confirm, storeVars
<1>5. ASSUME NEW c \in Links, Talk(c) \/ Refuse(c) \/ Break(c)
      PROVE  chain' = chain /\ held' = held
  BY <1>5 DEF Talk, Accept, Receive, Answer, TakeTxs, Refuse, Break, storeVars
<1>6. CASE UNCHANGED vars
  BY <1>6 DEF vars, storeVars
<1>7. ASSUME NEW n \in Nodes, NEW m \in Nodes, NoAnswer(n, m)
      PROVE  chain' = chain /\ held' = held
  BY <1>7 DEF NoAnswer, storeVars
<1>8. ASSUME NEW n \in Nodes, NEW q \in blocks[n], DropBlock(n, q) \/ LoseBlock(n, q)
      PROVE  chain' = chain /\ held' = held
  BY <1>8 DEF DropBlock, LoseBlock, storeVars
<1>9. ASSUME NEW n \in Nodes, NEW t \in Tx, Submit(n, t)
      PROVE  chain' = chain /\ held' = held
  BY <1>9 DEF Submit
<1>10. ASSUME NEW n \in Nodes, ParseQueue(n)
      PROVE  chain' = chain /\ held' = held
  BY <1>10 DEF ParseQueue
<1> QED
  BY <1>2, <1>3, <1>4, <1>5, <1>6, <1>7, <1>8, <1>9, <1>10 DEF Next, Fetch, Catch

(* The transactions of the blocks of a chain are disjoint.                 *)
Once(c) == \A i, j \in 1 .. Len(c) : c[i].txs \cap c[j].txs # {} => i = j

LEMMA UptoOnce ==
    ASSUME NEW c, IsChain(c), Once(c), NEW id \in 1 .. Len(c)
    PROVE  Once(Upto(c, id))
<1>1. c \in Chains /\ Len(c) \in Nat /\ id \in 0 .. Len(c)
  BY ChainFacts DEF IsChain
<1>2. Len(Upto(c, id)) = id /\ \A i \in 1 .. id : Upto(c, id)[i] = c[i]
  BY <1>1, UptoFacts
<1> QED
  BY <1>1, <1>2 DEF Once

LEMMA GenerateOnce ==
    ASSUME StoreType, NEW n \in Nodes, Generate(n), Once(chain[n])
    PROVE  \E blk : Adopt(n, blk) /\ Once(blk)
<1> DEFINE parsed == AllParsed(n)
           txs == {t \in Tx : parsed[t][1] = "ok" /\ t \notin Logged(chain[n])}
           b == [by |-> n, txs |-> txs]
           blk == Append(chain[n], b)
           len == Len(chain[n])
<1>1. b \in Blocks /\ b.txs = txs
  BY DEF Blocks
<1>2. IsChain(chain[n]) /\ len < MaxId /\ chain[n] \in Chains
  BY DEF StoreType, Generate, IsChain
<1>3. Adopt(n, blk)
  BY DEF Generate
<1>4. \A i \in 1 .. len : txs \cap chain[n][i].txs = {}
  <2> SUFFICES ASSUME NEW i \in 1 .. len, NEW t \in txs, t \in chain[n][i].txs
               PROVE FALSE
    OBVIOUS
  <2>1. i \in DOMAIN chain[n]
    BY <1>2, ChainFacts
  <2>2. t \in Logged(chain[n])
    BY <2>1 DEF Logged
  <2> QED
    BY <2>2
<1> HIDE DEF b, parsed, txs
<1>5. Len(blk) = len + 1 /\ blk[len + 1] = b /\ \A i \in 1 .. len : blk[i] = chain[n][i]
  BY <1>1, <1>2, AppendFacts
<1> HIDE DEF blk
<1>6. len \in Nat /\ \A i \in 1 .. len + 1 : i \in 1 .. len \/ i = len + 1
  BY <1>2, ChainFacts
<1>7. Once(blk)
  BY <1>1, <1>4, <1>5, <1>6 DEF Once
<1> QED
  BY <1>3, <1>7

OnceInv == \A n \in Nodes : Once(chain[n])

LEMMA AdoptOnce ==
    ASSUME StoreType, OnceInv, NEW n \in Nodes, NEW blk, Adopt(n, blk), Once(blk)
    PROVE  OnceInv'
<1>1. ASSUME NEW m \in Nodes PROVE chain'[m] = blk \/ chain'[m] = chain[m]
  BY DEF Adopt, StoreType
<1> QED
  BY <1>1 DEF OnceInv, Once

LEMMA StepOnce == TypeInv /\ OnceInv /\ [Next]_vars => OnceInv'
<1> SUFFICES ASSUME TypeInv, OnceInv, [Next]_vars PROVE OnceInv'
  OBVIOUS
<1>1. StoreType
  BY DEF TypeInv
<1>2. CASE chain' = chain
  BY <1>2 DEF OnceInv, Once
<1>3. ASSUME NEW n \in Nodes, Generate(n) PROVE OnceInv'
  BY <1>1, <1>3, GenerateOnce, AdoptOnce DEF OnceInv
<1>4. ASSUME NEW n \in Nodes, Following(n) PROVE OnceInv'
  <2>1. PICK m \in Nodes : \E id \in 1 .. Len(chain[m]) : Follow(n, Upto(chain[m], id))
    BY <1>4 DEF Following
  <2>2. PICK id \in 1 .. Len(chain[m]) : Follow(n, Upto(chain[m], id))
    BY <2>1
  <2>3. Once(Upto(chain[m], id)) /\ Adopt(n, Upto(chain[m], id))
    BY <1>1, <2>2, UptoOnce DEF StoreType, OnceInv, Follow
  <2> QED
    BY <1>1, <2>3, AdoptOnce
<1> QED
  BY <1>2, <1>3, <1>4, ChainSteps

(* No transaction is in two blocks of a chain: a generator leaves out what *)
(* its log has, and whoever follows takes over a chain as it is.           *)
THEOREM OnlyOnce == Spec => []TxsOnce
<1>1. Init => OnceInv
  BY DEF Init, OnceInv, Once, Genesis
<1>2. TypeInv /\ OnceInv => TxsOnce
  <2> SUFFICES ASSUME TypeInv, OnceInv, NEW n \in Nodes PROVE
        \A i, j \in DOMAIN chain[n] : chain[n][i].txs \cap chain[n][j].txs # {} => i = j
    BY DEF TxsOnce
  <2>1. DOMAIN chain[n] = 1 .. Len(chain[n])
    BY ChainFacts DEF TypeInv, StoreType, IsChain
  <2> QED
    BY <2>1 DEF OnceInv, Once
<1> QED
  BY <1>1, <1>2, StepOnce, TypesHold, PTL DEF Spec
-----------------------------------------------------------------------------
(* What a node knows it goes on knowing.                                   *)

LEMMA FrontLogged ==
    ASSUME NEW c, IsChain(c)
    PROVE  Logged(Front(c)) \subseteq Logged(c)
<1>1. Front(c) = Upto(c, Len(c) - 1)
  BY DEF Front, Upto
<1>2. c \in Chains /\ Len(c) \in Nat /\ Len(c) - 1 \in 0 .. Len(c)
  BY ChainFacts DEF IsChain
<1> QED
  BY <1>1, <1>2, LoggedUpto

LEMMA FrontOfAppend ==
    ASSUME NEW c, IsChain(c), Len(c) < MaxId, NEW b \in Blocks
    PROVE  Front(Append(c, b)) = c
<1> DEFINE d == Append(c, b)
           e == Upto(d, Len(c))
<1>1. /\ IsChain(d) /\ Len(d) = Len(c) + 1
      /\ \A i \in 1 .. Len(c) : d[i] = c[i]
  BY AppendFacts
<1>2. c \in Chains /\ Len(c) \in Nat /\ d \in Chains /\ Len(c) \in 0 .. Len(d)
      /\ Len(d) - 1 = Len(c)
  BY <1>1, ChainFacts DEF IsChain
<1>3. Front(d) = e
  BY <1>2 DEF Front, Upto
<1>4. e \in Chains /\ Len(e) = Len(c) /\ \A i \in 1 .. Len(c) : e[i] = d[i]
  BY <1>2, UptoFacts
<1> HIDE DEF d, e
<1>5. e = c
  BY <1>1, <1>2, <1>4, SeqEqual DEF Chains
<1> QED
  BY <1>3, <1>5 DEF d

LEMMA ParsedKeeps ==
    ASSUME StoreType, NEW n \in Nodes, NEW t \in Tx, Knows(n, t)
    PROVE  t \in Logged(chain[n]) \/ Parsed(n, t) # NoRow
<1>1. Verified(n, t) => HasRow(n, t)
  BY DEF Verified, HasRow, NoRow
<1>2. Fresh # NoRow
  BY DEF Fresh, NoRow
<1> QED
  BY <1>1, <1>2 DEF Knows, Parsed, HasRow

LEMMA FollowKeeps ==
    ASSUME StoreType, NEW n \in Nodes, NEW blk, IsChain(blk), Follow(n, blk),
           NEW m \in Nodes, NEW t \in Tx, Knows(m, t)
    PROVE  Knows(m, t)'
<1> DEFINE common == Common(chain[n], blk)
           undone == Logged(chain[n]) \ Logged(Upto(chain[n], common))
           old == [u \in Tx |-> Unverified(rows[n][u])]
<1>1. Adopt(n, blk) /\ queue' = [queue EXCEPT ![n] = queue[n] \cup undone]
      /\ rows' = [rows EXCEPT ![n] = RowsAfter(old, blk)]
  BY DEF Follow
<1>2. CASE m # n
  BY <1>1, <1>2 DEF Adopt, Knows, HasRow, StoreType
<1>3. CASE m = n
  <2>1. chain'[n] = blk /\ queue'[n] = queue[n] \cup undone /\ rows'[n] = RowsAfter(old, blk)
    BY <1>1 DEF Adopt, StoreType
  <2>2. CASE t \in queue[n]
    BY <1>3, <2>1, <2>2 DEF Knows
  <2>3. CASE t \in Logged(chain[n])
    <3>1. IsChain(chain[n])
      BY DEF StoreType
    <3>2. common \in 1 .. Len(chain[n]) /\ common <= Len(blk)
          /\ Upto(chain[n], common) = Upto(blk, common)
      BY <3>1, CommonFacts
    <3>3. blk \in Chains /\ common \in 0 .. Len(blk)
      BY <3>1, <3>2, ChainFacts DEF IsChain
    <3>4. Logged(Upto(blk, common)) \subseteq Logged(blk)
      BY <3>3, LoggedUpto
    <3> HIDE DEF common
    <3>5. t \in undone \/ t \in Logged(blk)
      BY <2>3, <3>2, <3>4
    <3> QED
      BY <1>3, <2>1, <3>5 DEF Knows
  <2>4. CASE HasRow(n, t)
    <3>1. CASE t \in Logged(Front(blk))
      BY <1>3, <2>1, <3>1, FrontLogged DEF Knows
    <3>2. CASE t \notin Logged(Front(blk))
      <4>1. rows'[n][t] = Unverified(rows[n][t])
        BY <2>1, <3>2 DEF RowsAfter
      <4>2. Unverified(rows[n][t]) # NoRow
        BY <2>4 DEF Unverified, HasRow, NoRow
      <4> QED
        BY <1>3, <4>1, <4>2 DEF Knows, HasRow
    <3> QED
      BY <3>1, <3>2
  <2> QED
    BY <1>3, <2>2, <2>3, <2>4 DEF Knows
<1> QED
  BY <1>2, <1>3

LEMMA GenerateKeeps ==
    ASSUME StoreType, NEW n \in Nodes, Generate(n),
           NEW m \in Nodes, NEW t \in Tx, Knows(m, t)
    PROVE  Knows(m, t)'
<1> DEFINE parsed == AllParsed(n)
           txs == {u \in Tx : parsed[u][1] = "ok" /\ u \notin Logged(chain[n])}
           b == [by |-> n, txs |-> txs]
           blk == Append(chain[n], b)
<1>1. b \in Blocks
  BY DEF Blocks
<1>2. IsChain(chain[n]) /\ Len(chain[n]) < MaxId
  BY DEF StoreType, Generate
<1>3. Adopt(n, blk) /\ rows' = [rows EXCEPT ![n] = RowsAfter(parsed, blk)]
      /\ queue' = [queue EXCEPT ![n] = {}]
  BY DEF Generate
<1> HIDE DEF b
<1>4. Front(blk) = chain[n] /\ IsChain(blk)
  BY <1>1, <1>2, FrontOfAppend, AppendFacts
<1> HIDE DEF blk
<1>5. CASE m # n
  BY <1>3, <1>5 DEF Adopt, Knows, HasRow, StoreType
<1>6. CASE m = n
  <2>1. chain'[n] = blk /\ rows'[n] = RowsAfter(parsed, blk)
    BY <1>3 DEF Adopt, StoreType
  <2>2. CASE t \in Logged(chain[n])
    BY <1>4, <1>6, <2>1, <2>2, FrontLogged DEF Knows
  <2>3. CASE t \notin Logged(chain[n])
    <3>1. rows'[n][t] = Parsed(n, t)
      BY <1>4, <2>1, <2>3 DEF RowsAfter, AllParsed
    <3>2. Parsed(n, t) # NoRow
      BY <1>6, <2>3, ParsedKeeps
    <3> QED
      BY <1>6, <3>1, <3>2 DEF Knows, HasRow
  <2> QED
    BY <2>2, <2>3
<1> QED
  BY <1>5, <1>6

LEMMA ParseKeeps ==
    ASSUME StoreType, NEW n \in Nodes, ParseQueue(n),
           NEW m \in Nodes, NEW t \in Tx, Knows(m, t)
    PROVE  Knows(m, t)'
<1>1. CASE m # n
  BY <1>1 DEF ParseQueue, Knows, HasRow, StoreType
<1>2. CASE m = n
  <2>1. rows'[n][t] = Parsed(n, t) /\ chain' = chain
    BY DEF ParseQueue, StoreType, AllParsed
  <2>2. t \in Logged(chain[n]) \/ Parsed(n, t) # NoRow
    BY <1>2, ParsedKeeps
  <2> QED
    BY <1>2, <2>1, <2>2 DEF Knows, HasRow
<1> QED
  BY <1>1, <1>2

LEMMA OfferKeeps ==
    ASSUME StoreType, NEW n \in Nodes, Offer(n), NEW m \in Nodes, NEW t \in Tx
    PROVE  /\ HasRow(m, t)' = HasRow(m, t)
           /\ Knows(m, t) => Knows(m, t)'
<1>1. CASE m # n
  BY <1>1 DEF Offer, Knows, HasRow, StoreType
<1>2. CASE m = n
  <2>1. rows'[n][t] = IF IsUnsent(n, t) THEN <<rows[n][t][1], "sent">> ELSE rows[n][t]
    BY DEF Offer, StoreType
  <2>2. IsUnsent(n, t) => HasRow(n, t) /\ rows'[n][t] # NoRow
    BY <2>1 DEF IsUnsent, NoRow
  <2>3. HasRow(m, t)' = HasRow(m, t)
    BY <1>2, <2>1, <2>2 DEF HasRow
  <2> QED
    BY <2>3 DEF Knows, Offer
<1> QED
  BY <1>1, <1>2

LEMMA KnowsStays ==
    ASSUME TypeInv, [Next]_vars, NEW m \in Nodes, NEW t \in Tx, Knows(m, t)
    PROVE  Knows(m, t)'
<1>1. StoreType /\ BlocksType /\ SendType
  BY DEF TypeInv
<1>2. CASE chain' = chain /\ rows' = rows /\ queue[m] \subseteq queue'[m]
  BY <1>2 DEF Knows, HasRow
<1>3. ASSUME NEW n \in Nodes, Following(n) PROVE Knows(m, t)'
  <2>1. PICK k \in Nodes : \E id \in 1 .. Len(chain[k]) : Follow(n, Upto(chain[k], id))
    BY <1>3 DEF Following
  <2>2. PICK id \in 1 .. Len(chain[k]) : Follow(n, Upto(chain[k], id))
    BY <2>1
  <2>3. IsChain(Upto(chain[k], id))
    BY <1>1, UptoIsChain DEF StoreType
  <2> QED
    BY <1>1, <2>2, <2>3, FollowKeeps
<1>4. ASSUME NEW n \in Nodes, NEW k \in Nodes, Collect(n, k) PROVE Knows(m, t)'
  BY <1>1, <1>3, <1>4, CollectFollows
<1>5. ASSUME NEW n \in Nodes, NEW q \in blocks[n], FetchBlock(n, q) PROVE Knows(m, t)'
  BY <1>1, <1>3, <1>5, FetchFollows
<1>6. ASSUME NEW n \in Nodes, NEW u \in Tx, Submit(n, u) PROVE Knows(m, t)'
  <2>1. queue[m] \subseteq queue'[m]
    BY <1>1, <1>6 DEF Submit, StoreType
  <2> QED
    BY <1>2, <1>6, <2>1 DEF Submit
<1>7. ASSUME NEW n \in Nodes, ParseQueue(n) PROVE Knows(m, t)'
  BY <1>1, <1>7, ParseKeeps
<1>8. ASSUME NEW n \in Nodes, Generate(n) PROVE Knows(m, t)'
  BY <1>1, <1>8, GenerateKeeps
<1>9. ASSUME NEW n \in Nodes, Tell(n) PROVE Knows(m, t)'
  <2>1. CASE Offer(n)
    BY <1>1, <2>1, OfferKeeps
  <2> QED
    BY <1>2, <1>9, <2>1 DEF Tell, ReadBlock, MarkBlock, storeVars
<1>10. ASSUME NEW n \in Nodes, Check(n) \/ \E k \in Nodes : NoAnswer(n, k) PROVE Knows(m, t)'
  BY <1>2, <1>10 DEF Check, BeginRound, ReadHash, AnswerHash, Confirm, NoAnswer, storeVars
<1>11. ASSUME NEW n \in Nodes, NEW q \in blocks[n], DropBlock(n, q) \/ LoseBlock(n, q)
       PROVE  Knows(m, t)'
  BY <1>2, <1>11 DEF DropBlock, LoseBlock, storeVars
<1>12. ASSUME NEW c \in Links, Talk(c) \/ Refuse(c) \/ Break(c) PROVE Knows(m, t)'
  <2>1. chain' = chain /\ rows' = rows
    BY <1>12 DEF Talk, Accept, Receive, Answer, TakeTxs, Refuse, Break, storeVars
  <2>2. queue[m] \subseteq queue'[m]
    <3>1. CASE TakeTxs(c)
      BY <1>1, <3>1 DEF TakeTxs, StoreType
    <3> QED
      BY <1>12, <3>1 DEF Talk, Accept, Receive, Answer, Refuse, Break, storeVars
  <2> QED
    BY <1>2, <2>1, <2>2
<1>13. CASE UNCHANGED vars
  BY <1>2, <1>13 DEF vars, storeVars
<1> QED
  BY <1>4, <1>5, <1>6, <1>7, <1>8, <1>9, <1>10, <1>11, <1>12, <1>13 DEF Next, Fetch, Catch

LEMMA StepKept == TypeInv /\ TxsKept /\ [Next]_vars => TxsKept'
<1> SUFFICES ASSUME TypeInv, TxsKept, [Next]_vars, NEW n \in Nodes, NEW t \in given'[n]
             PROVE  Knows(n, t)'
  BY DEF TxsKept
<1>1. StoreType
  BY DEF TypeInv
<1>2. CASE t \in given[n]
  <2>1. t \in Tx /\ Knows(n, t)
    BY <1>1, <1>2 DEF TxsKept, StoreType
  <2> QED
    BY <2>1, KnowsStays
<1>3. ASSUME NEW m \in Nodes, NEW u \in Tx, Submit(m, u), t \notin given[n] PROVE Knows(n, t)'
  <2>1. given' = [given EXCEPT ![m] = given[m] \cup {u}]
        /\ queue' = [queue EXCEPT ![m] = queue[m] \cup {u}]
    BY <1>3 DEF Submit
  <2>2. m = n /\ t = u
    BY <1>1, <1>3, <2>1 DEF StoreType
  <2>3. t \in queue'[n]
    BY <1>1, <2>1, <2>2 DEF StoreType
  <2> QED
    BY <2>3 DEF Knows
<1>4. CASE given' = given
  BY <1>2, <1>4
<1>5. (\E m \in Nodes, u \in Tx : Submit(m, u)) \/ given' = given
  <2>1. \A m \in Nodes : Check(m) \/ Tell(m) => given' = given
    BY DEF Check, Tell, ReadBlock, MarkBlock, Offer, BeginRound, ReadHash, AnswerHash, Confirm
  <2>2. \A c \in Links : Talk(c) \/ Refuse(c) \/ Break(c) => given' = given
    BY DEF Talk, Accept, Receive, Answer, TakeTxs, Refuse, Break
  <2>3. \A m \in Nodes : ParseQueue(m) \/ Fetch(m) \/ Catch(m) \/ Generate(m) => given' = given
    BY DEF ParseQueue, Fetch, Catch, Generate, DropBlock, FetchBlock, Collect
  <2>4. \A m \in Nodes : \A q \in blocks[m] : LoseBlock(m, q) => given' = given
    BY DEF LoseBlock
  <2>5. \A m, k \in Nodes : NoAnswer(m, k) => given' = given
    BY DEF NoAnswer
  <2>6. UNCHANGED vars => given' = given
    BY DEF vars
  <2> QED
    BY <2>1, <2>2, <2>3, <2>4, <2>5, <2>6 DEF Next
<1> QED
  BY <1>2, <1>3, <1>4, <1>5

(* A transaction stays with the node that a user gave it to: when own      *)
(* blocks give way to those of others, what was in them is queued again or *)
(* is in the new ones, and only rows of what is in the log are removed.    *)
THEOREM NoneForgotten == Spec => []TxsKept
<1>1. Init => TxsKept
  BY DEF Init, TxsKept
<1> QED
  BY <1>1, StepKept, TypesHold, PTL DEF Spec
-----------------------------------------------------------------------------
(* The count of connections.                                               *)

IsOpen(r) == r.step \in {"open", "asked", "answered"}

CountInv ==
    \A n \in Nodes : IsFiniteSet(Open(n)) /\ counter[n] <= Cardinality(Open(n))

(* What becomes of one connection, and of the count at its receiver.       *)
LEMMA OneConn ==
    ASSUME SendType, CountInv, NEW c \in Links, NEW r,
           conns' = [conns EXCEPT ![c] = r],
           \/ /\ ~ IsOpen(conns[c]) /\ IsOpen(r)
              /\ Count(c.to, 1)
           \/ /\ IsOpen(conns[c]) /\ ~ IsOpen(r)
              /\ Count(c.to, -1)
           \/ /\ IsOpen(conns[c]) <=> IsOpen(r)
              /\ counter' = counter \/ Count(c.to, -1)
    PROVE  CountInv'
<1>1. c.to \in Nodes /\ conns'[c] = r /\ \A d \in Links : d # c => conns'[d] = conns[d]
  BY DEF Links, SendType
<1>2. \A n \in Nodes : Open(n)' = {d \in Links : d.to = n /\ IsOpen(conns'[d])}
  BY DEF Open, IsOpen
<1>3. \A n \in Nodes : Open(n) = {d \in Links : d.to = n /\ IsOpen(conns[d])}
  BY DEF Open, IsOpen
<1>4. \A n \in Nodes : counter[n] \in Int /\ counter'[n] \in Int
  BY <1>1 DEF SendType, Count
<1>5. ASSUME NEW n \in Nodes, n # c.to
      PROVE  IsFiniteSet(Open(n)') /\ counter'[n] <= Cardinality(Open(n)')
  <2>1. Open(n)' = Open(n)
    <3>1. \A d \in Links : d.to = n => conns'[d] = conns[d]
      BY <1>1, <1>5
    <3>2. {d \in Links : d.to = n /\ IsOpen(conns'[d])}
            = {d \in Links : d.to = n /\ IsOpen(conns[d])}
      BY <3>1
    <3> QED
      BY <1>2, <1>3, <3>2
  <2>2. counter'[n] = counter[n]
    BY <1>1, <1>5 DEF Count, SendType
  <2> QED
    BY <2>1, <2>2 DEF CountInv
<1> DEFINE n == c.to
<1>6. IsFiniteSet(Open(n)) /\ counter[n] <= Cardinality(Open(n)) /\ Cardinality(Open(n)) \in Nat
  BY <1>1, FS_CardinalityType DEF CountInv
<1>7. IsFiniteSet(Open(n)') /\ counter'[n] <= Cardinality(Open(n)')
  <2>1. CASE ~ IsOpen(conns[c]) /\ IsOpen(r) /\ Count(n, 1)
    <3>1. Open(n)' = Open(n) \cup {c} /\ c \notin Open(n)
      BY <1>1, <1>2, <1>3, <2>1
    <3>2. IsFiniteSet(Open(n)') /\ Cardinality(Open(n)') = Cardinality(Open(n)) + 1
      BY <1>6, <3>1, FS_AddElement
    <3>3. counter'[n] = counter[n] + 1
      BY <1>1, <2>1 DEF Count, SendType
    <3> QED
      BY <1>1, <1>4, <1>6, <3>2, <3>3
  <2>2. CASE IsOpen(conns[c]) /\ ~ IsOpen(r) /\ Count(n, -1)
    <3>1. Open(n)' = Open(n) \ {c} /\ c \in Open(n)
      BY <1>1, <1>2, <1>3, <2>2
    <3>2. IsFiniteSet(Open(n)') /\ Cardinality(Open(n)') = Cardinality(Open(n)) - 1
      BY <1>6, <3>1, FS_RemoveElement
    <3>3. counter'[n] = counter[n] - 1
      BY <1>1, <1>4, <2>2 DEF Count, SendType
    <3> QED
      BY <1>1, <1>4, <1>6, <3>2, <3>3
  <2>3. CASE (IsOpen(conns[c]) <=> IsOpen(r)) /\ (counter' = counter \/ Count(n, -1))
    <3>1. Open(n)' = Open(n)
      BY <1>1, <1>2, <1>3, <2>3
    <3>2. counter'[n] <= counter[n]
      BY <1>1, <1>4, <2>3 DEF Count, SendType
    <3> QED
      BY <1>1, <1>4, <1>6, <3>1, <3>2
  <2> QED
    BY <2>1, <2>2, <2>3
<1> QED
  BY <1>5, <1>7 DEF CountInv

LEMMA NoConnIsClosed == ~ IsOpen(NoConn)
BY DEF IsOpen, NoConn

LEMMA TalkCount ==
    ASSUME SendType, CountInv, NEW c \in Links, Talk(c) \/ Refuse(c) \/ Break(c)
    PROVE  CountInv'
<1>1. CASE Accept(c)
  <2> DEFINE r == [conns[c] EXCEPT !.step = "open"]
  <2>1. conns' = [conns EXCEPT ![c] = r] /\ Count(c.to, 1)
    BY <1>1 DEF Accept
  <2>2. ~ IsOpen(conns[c]) /\ IsOpen(r)
    BY <1>1 DEF Accept, IsOpen, SendType
  <2> HIDE DEF r
  <2> QED
    BY <2>1, <2>2, OneConn
<1>2. CASE Receive(c)
  <2>1. IsOpen(conns[c])
    BY <1>2 DEF Receive, IsOpen
  <2>2. CASE DeferClose(c)
    BY <2>1, <2>2, NoConnIsClosed, OneConn DEF DeferClose, Close
  <2>3. CASE ~ DeferClose(c)
    <3>1. PICK need : conns' = [conns EXCEPT ![c] =
                                   [step |-> "asked", blk |-> NoBlock, txs |-> need]]
                      /\ counter' = counter
      BY <1>2, <2>3 DEF Receive
    <3>2. IsOpen([step |-> "asked", blk |-> NoBlock, txs |-> need])
      BY DEF IsOpen
    <3> QED
      BY <2>1, <3>1, <3>2, OneConn
  <2> QED
    BY <2>2, <2>3
<1>3. CASE Answer(c)
  <2> DEFINE r == [step |-> "answered", blk |-> NoBlock,
                   txs |-> {t \in conns[c].txs : HasRow(c.from, t)}]
  <2>1. conns' = [conns EXCEPT ![c] = r] /\ counter' = counter
    BY <1>3 DEF Answer
  <2>2. IsOpen(conns[c]) /\ IsOpen(r)
    BY <1>3 DEF Answer, IsOpen
  <2> HIDE DEF r
  <2> QED
    BY <2>1, <2>2, OneConn
<1>4. CASE TakeTxs(c)
  <2>1. IsOpen(conns[c])
    BY <1>4 DEF TakeTxs, IsOpen
  <2> QED
    BY <1>4, <2>1, NoConnIsClosed, OneConn DEF TakeTxs, DeferClose, Close
<1>5. CASE Refuse(c)
  <2>1. ~ IsOpen(conns[c])
    BY <1>5 DEF Refuse, IsOpen
  <2> QED
    BY <1>5, <2>1, NoConnIsClosed, OneConn DEF Refuse, DeferClose, Close
<1>6. CASE Break(c)
  <2>1. CASE conns[c].step = "dial"
    <3>1. ~ IsOpen(conns[c])
      BY <2>1 DEF IsOpen
    <3> QED
      BY <1>6, <2>1, <3>1, NoConnIsClosed, OneConn DEF Break, Close
  <2>2. CASE conns[c].step # "dial"
    <3>1. IsOpen(conns[c])
      BY <1>6, <2>2 DEF Break, IsOpen, SendType
    <3> QED
      BY <1>6, <2>2, <3>1, NoConnIsClosed, OneConn DEF Break, DeferClose, Close
  <2> QED
    BY <2>1, <2>2
<1> QED
  BY <1>1, <1>2, <1>3, <1>4, <1>5, <1>6 DEF Talk

LEMMA OfferCount ==
    ASSUME SendType, CountInv, NEW n \in Nodes, Offer(n)
    PROVE  CountInv'
<1> DEFINE blk == teller[n].blk
           links == {c \in Links : c.from = n}
           free(m) == {c \in links : c.to = m /\ conns[c].step = "closed"}
           chosen == {CHOOSE c \in free(m) : TRUE : m \in Nodes \ {n}}
           msg == [step |-> "dial", blk |-> blk, txs |-> Unsent(n)]
<1>1. \/ conns' = conns
      \/ /\ \A m \in Nodes \ {n} : free(m) # {}
         /\ conns' = [c \in Links |-> IF c \in chosen THEN msg ELSE conns[c]]
  BY DEF Offer
<1>2. (\A m \in Nodes \ {n} : free(m) # {}) => \A c \in chosen : conns[c].step = "closed"
  OBVIOUS
<1>3. ~ IsOpen(msg)
  BY DEF IsOpen
<1> HIDE DEF chosen, msg
<1>4. \A c \in Links : IsOpen(conns'[c]) <=> IsOpen(conns[c])
  BY <1>1, <1>2, <1>3 DEF IsOpen
<1>5. \A m \in Nodes : Open(m)' = Open(m)
  BY <1>4 DEF Open, IsOpen
<1>6. counter' = counter
  BY DEF Offer
<1> QED
  BY <1>5, <1>6 DEF CountInv

LEMMA StepCount == TypeInv /\ CountInv /\ [Next]_vars => CountInv'
<1> SUFFICES ASSUME TypeInv, CountInv, [Next]_vars PROVE CountInv'
  OBVIOUS
<1>1. SendType
  BY DEF TypeInv
<1>2. CASE conns' = conns /\ counter' = counter
  BY <1>2 DEF CountInv, Open
<1>3. ASSUME NEW n \in Nodes, Tell(n) PROVE CountInv'
  <2>1. CASE Offer(n)
    BY <1>1, <2>1, OfferCount
  <2> QED
    BY <1>2, <1>3, <2>1 DEF Tell, ReadBlock, MarkBlock
<1>4. ASSUME NEW c \in Links, Talk(c) \/ Refuse(c) \/ Break(c) PROVE CountInv'
  BY <1>1, <1>4, TalkCount
<1>5. ASSUME NEW n \in Nodes, Check(n) PROVE CountInv'
  BY <1>2, <1>5 DEF Check, BeginRound, ReadHash, AnswerHash, Confirm, sendVars
<1>6. ASSUME NEW n \in Nodes, ParseQueue(n) \/ Fetch(n) \/ Catch(n) \/ Generate(n)
      PROVE  CountInv'
  BY <1>2, <1>6 DEF ParseQueue, Fetch, Catch, Generate, DropBlock, FetchBlock, Collect, sendVars
<1>7. ASSUME NEW n \in Nodes, NEW q \in blocks[n], LoseBlock(n, q) PROVE CountInv'
  BY <1>2, <1>7 DEF LoseBlock, sendVars
<1>8. ASSUME NEW n \in Nodes, NEW m \in Nodes, NoAnswer(n, m) PROVE CountInv'
  BY <1>2, <1>8 DEF NoAnswer, sendVars
<1>9. ASSUME NEW n \in Nodes, NEW t \in Tx, Submit(n, t) PROVE CountInv'
  BY <1>2, <1>9 DEF Submit, sendVars
<1>10. CASE UNCHANGED vars
  BY <1>2, <1>10 DEF vars, sendVars
<1> QED
  BY <1>3, <1>4, <1>5, <1>6, <1>7, <1>8, <1>9, <1>10 DEF Next

(* The count of connections never exceeds the open ones: what is counted   *)
(* is counted off when it closes, however it ends, and a refusal only      *)
(* lowers the count.                                                       *)
THEOREM NotShutOut == Spec => []NeverShutOut
<1>1. Init => CountInv
  <2> SUFFICES ASSUME Init, NEW n \in Nodes
               PROVE  IsFiniteSet(Open(n)) /\ counter[n] <= Cardinality(Open(n))
    BY DEF CountInv
  <2>1. Open(n) = {} /\ counter[n] = 0
    BY DEF Init, Open, NoConn
  <2> QED
    BY <2>1, FS_EmptySet
<1>2. CountInv => NeverShutOut
  BY DEF CountInv, NeverShutOut
<1> QED
  BY <1>1, <1>2, StepCount, TypesHold, PTL DEF Spec
-----------------------------------------------------------------------------
(* What is marked as sent.                                                 *)

IsSent(n, t) == HasRow(n, t) /\ ~ IsUnsent(n, t)

Flying(n, m, t) == \E c \in Links : c.from = n /\ c.to = m /\ t \in conns[c].txs

NoFault == lost = 0 /\ refused = 0

(* A closed connection carries nothing, so that the next offer that uses   *)
(* it loses nothing.                                                       *)
ClosedEmpty == \A c \in Links : conns[c].step = "closed" => conns[c].txs = {}

(* A row that is written anew counts as not sent.                          *)
LEMMA ParsedSent ==
    ASSUME StoreType, NEW n \in Nodes, NEW t \in Tx, Parsed(n, t) # NoRow,
           Parsed(n, t)[2] # "unsent"
    PROVE  IsSent(n, t)
<1>1. Parsed(n, t) # Fresh
  BY DEF Fresh
<1> QED
  BY <1>1 DEF Parsed, IsSent, HasRow, IsUnsent

LEMMA SentSteps ==
    ASSUME TypeInv, [Next]_vars, NEW n \in Nodes, NEW t \in Tx, IsSent(n, t)'
    PROVE  IsSent(n, t) \/ (Offer(n) /\ IsUnsent(n, t))
<1>1. StoreType /\ BlocksType
  BY DEF TypeInv
<1>2. ASSUME rows'[n] = rows[n] PROVE IsSent(n, t)
  BY <1>2 DEF IsSent, HasRow, IsUnsent
<1>3. rows'[n][t] # NoRow /\ rows'[n][t][2] # "unsent"
  BY DEF IsSent, HasRow, IsUnsent
<1>4. ASSUME NEW k \in Nodes, Following(k) PROVE IsSent(n, t)
  <2>1. PICK m \in Nodes : \E id \in 1 .. Len(chain[m]) : Follow(k, Upto(chain[m], id))
    BY <1>4 DEF Following
  <2>2. PICK id \in 1 .. Len(chain[m]) : Follow(k, Upto(chain[m], id))
    BY <2>1
  <2> DEFINE blk == Upto(chain[m], id)
             old == [u \in Tx |-> Unverified(rows[k][u])]
  <2>3. rows' = [rows EXCEPT ![k] = RowsAfter(old, blk)]
    BY <2>2 DEF Follow
  <2>4. CASE k # n
    BY <1>1, <1>2, <2>3, <2>4 DEF StoreType
  <2>5. CASE k = n
    <3>1. rows'[n][t] = Unverified(rows[n][t])
      BY <1>1, <1>3, <2>3, <2>5 DEF RowsAfter, StoreType
    <3> QED
      BY <1>3, <3>1 DEF Unverified, IsSent, HasRow, IsUnsent
  <2> QED
    BY <2>4, <2>5
<1>5. ASSUME NEW k \in Nodes, NEW m \in Nodes, Collect(k, m) PROVE IsSent(n, t)
  BY <1>1, <1>4, <1>5, CollectFollows
<1>6. ASSUME NEW k \in Nodes, NEW q \in blocks[k], FetchBlock(k, q) PROVE IsSent(n, t)
  BY <1>1, <1>4, <1>6, FetchFollows
<1>7. ASSUME NEW k \in Nodes, ParseQueue(k) PROVE IsSent(n, t)
  <2>1. CASE k # n
    BY <1>1, <1>2, <1>7, <2>1 DEF ParseQueue, StoreType
  <2>2. CASE k = n
    <3>1. rows'[n][t] = Parsed(n, t)
      BY <1>1, <1>7, <2>2 DEF ParseQueue, StoreType, AllParsed
    <3> QED
      BY <1>1, <1>3, <3>1, ParsedSent
  <2> QED
    BY <2>1, <2>2
<1>8. ASSUME NEW k \in Nodes, Generate(k) PROVE IsSent(n, t)
  <2> DEFINE parsed == AllParsed(k)
             b == [by |-> k, txs |-> {u \in Tx : parsed[u][1] = "ok"
                                              /\ u \notin Logged(chain[k])}]
             blk == Append(chain[k], b)
  <2>1. rows' = [rows EXCEPT ![k] = RowsAfter(parsed, blk)]
    BY <1>8 DEF Generate
  <2> HIDE DEF blk
  <2>2. CASE k # n
    BY <1>1, <1>2, <2>1, <2>2 DEF StoreType
  <2>3. CASE k = n
    <3>1. rows'[n][t] = Parsed(n, t)
      BY <1>1, <1>3, <2>1, <2>3 DEF RowsAfter, StoreType, AllParsed
    <3> QED
      BY <1>1, <1>3, <3>1, ParsedSent
  <2> QED
    BY <2>2, <2>3
<1>9. ASSUME NEW k \in Nodes, Tell(k) PROVE IsSent(n, t) \/ (Offer(n) /\ IsUnsent(n, t))
  <2>1. CASE Offer(k)
    <3>1. CASE k # n
      BY <1>1, <1>2, <2>1, <3>1 DEF Offer, StoreType
    <3>2. CASE k = n
      <4>1. rows'[n][t] = IF IsUnsent(n, t) THEN <<rows[n][t][1], "sent">> ELSE rows[n][t]
        BY <1>1, <2>1, <3>2 DEF Offer, StoreType
      <4> QED
        BY <1>3, <2>1, <3>2, <4>1 DEF IsSent, HasRow
    <3> QED
      BY <3>1, <3>2
  <2> QED
    BY <1>2, <1>9, <2>1 DEF Tell, ReadBlock, MarkBlock, storeVars
<1>10. ASSUME NEW k \in Nodes, Check(k) \/ \E m \in Nodes : NoAnswer(k, m)
       PROVE  IsSent(n, t)
  BY <1>2, <1>10 DEF Check, BeginRound, ReadHash, AnswerHash, Confirm, NoAnswer, storeVars
<1>11. ASSUME NEW k \in Nodes, NEW q \in blocks[k], DropBlock(k, q) \/ LoseBlock(k, q)
       PROVE  IsSent(n, t)
  BY <1>2, <1>11 DEF DropBlock, LoseBlock, storeVars
<1>12. ASSUME NEW c \in Links, Talk(c) \/ Refuse(c) \/ Break(c) PROVE IsSent(n, t)
  BY <1>2, <1>12 DEF Talk, Accept, Receive, Answer, TakeTxs, Refuse, Break, storeVars
<1>13. ASSUME NEW k \in Nodes, NEW u \in Tx, Submit(k, u) PROVE IsSent(n, t)
  BY <1>2, <1>13 DEF Submit
<1>14. CASE UNCHANGED vars
  BY <1>2, <1>14 DEF vars, storeVars
<1> QED
  BY <1>5, <1>6, <1>7, <1>8, <1>9, <1>10, <1>11, <1>12, <1>13, <1>14 DEF Next, Fetch, Catch

(* What an offer makes of the connections.                                 *)
LEMMA OfferConns ==
    ASSUME SendType, NEW n \in Nodes, Offer(n)
    PROVE  /\ \A c \in Links : conns[c].step # "closed" => conns'[c] = conns[c]
           /\ \A c \in Links : conns'[c] = conns[c] \/ conns'[c].step = "dial"
           /\ \A m \in Nodes \ {n}, t \in Tx : IsUnsent(n, t) => Flying(n, m, t)'
<1> DEFINE blk == teller[n].blk
           links == {c \in Links : c.from = n}
           free(m) == {c \in links : c.to = m /\ conns[c].step = "closed"}
           pick(m) == CHOOSE c \in free(m) : TRUE
           chosen == {pick(m) : m \in Nodes \ {n}}
           msg == [step |-> "dial", blk |-> blk, txs |-> Unsent(n)]
<1>1. \/ conns' = conns /\ Unsent(n) = {}
      \/ /\ \A m \in Nodes \ {n} : free(m) # {}
         /\ conns' = [c \in Links |-> IF c \in chosen THEN msg ELSE conns[c]]
  BY DEF Offer
<1>2. CASE conns' = conns /\ Unsent(n) = {}
  BY <1>2 DEF Unsent
<1>3. CASE /\ \A m \in Nodes \ {n} : free(m) # {}
           /\ conns' = [c \in Links |-> IF c \in chosen THEN msg ELSE conns[c]]
  <2>1. \A m \in Nodes \ {n} : pick(m) \in free(m)
    BY <1>3
  <2>2. \A c \in chosen : conns[c].step = "closed"
    BY <2>1
  <2>3. ASSUME NEW m \in Nodes \ {n}, NEW t \in Tx, IsUnsent(n, t)
        PROVE  Flying(n, m, t)'
    <3>1. pick(m) \in chosen /\ pick(m) \in Links /\ pick(m).from = n /\ pick(m).to = m
      BY <2>1
    <3>2. conns'[pick(m)] = msg /\ t \in msg.txs
      <4> HIDE DEF chosen, pick
      <4> QED
        BY <1>3, <2>3, <3>1 DEF Unsent
    <3> QED
      BY <3>1, <3>2 DEF Flying
  <2>4. msg.step = "dial"
    OBVIOUS
  <2> HIDE DEF chosen, msg
  <2> QED
    BY <1>3, <2>2, <2>3, <2>4
<1> QED
  BY <1>1, <1>2, <1>3

(* What flies arrives, unless there is a fault.                            *)
LEMMA TalkFlying ==
    ASSUME TypeInv, [Next]_vars, NEW d \in Links, Talk(d),
           NEW n \in Nodes, NEW m \in Nodes, NEW t \in Tx, IsSent(n, t), Flying(n, m, t)
    PROVE  Knows(m, t)' \/ Flying(n, m, t)'
<1>1. StoreType /\ SendType
  BY DEF TypeInv
<1>2. PICK c \in Links : c.from = n /\ c.to = m /\ t \in conns[c].txs
  BY DEF Flying
<1>3. CASE c # d
  <2>1. conns'[c] = conns[c]
    BY <1>1, <1>3 DEF Talk, Accept, Receive, Answer, TakeTxs, DeferClose, Close, SendType
  <2> QED
    BY <1>2, <2>1 DEF Flying
<1>4. CASE c = d /\ Accept(c)
  <2>1. conns'[c].txs = conns[c].txs
    BY <1>1, <1>4 DEF Accept, SendType
  <2> QED
    BY <1>2, <2>1 DEF Flying
<1>5. CASE c = d /\ Receive(c)
  <2>1. CASE t \in Unknown(m, conns[c].txs)
    <3>1. t \in conns'[c].txs
      BY <1>1, <1>2, <1>5, <2>1 DEF Receive, SendType
    <3> QED
      BY <1>2, <3>1 DEF Flying
  <2>2. CASE t \notin Unknown(m, conns[c].txs)
    <3>1. Knows(m, t)
      BY <1>2, <2>2 DEF Unknown, Knows
    <3> QED
      BY <3>1, KnowsStays
  <2> QED
    BY <2>1, <2>2
<1>6. CASE c = d /\ Answer(c)
  <2>1. t \in conns'[c].txs
    BY <1>1, <1>2, <1>6 DEF Answer, SendType, IsSent
  <2> QED
    BY <1>2, <2>1 DEF Flying
<1>7. CASE c = d /\ TakeTxs(c)
  <2>1. t \in queue'[m]
    BY <1>1, <1>2, <1>7 DEF TakeTxs, StoreType
  <2> QED
    BY <2>1 DEF Knows
<1> QED
  BY <1>3, <1>4, <1>5, <1>6, <1>7 DEF Talk

(* Who changes the connections, and what a fault counts.                   *)
LEMMA ConnSteps ==
    ASSUME TypeInv, [Next]_vars
    PROVE  \/ conns' = conns
           \/ \E n \in Nodes : Offer(n)
           \/ \E c \in Links : Talk(c)
           \/ \E c \in Links : Refuse(c) \/ Break(c)
<1>1. ASSUME NEW n \in Nodes, Tell(n), ~ Offer(n) PROVE conns' = conns
  BY <1>1 DEF Tell, ReadBlock, MarkBlock
<1>2. ASSUME NEW n \in Nodes, Check(n) PROVE conns' = conns
  BY <1>2 DEF Check, BeginRound, ReadHash, AnswerHash, Confirm, sendVars
<1>3. ASSUME NEW n \in Nodes, ParseQueue(n) \/ Fetch(n) \/ Catch(n) \/ Generate(n)
      PROVE  conns' = conns
  BY <1>3 DEF ParseQueue, Fetch, Catch, Generate, DropBlock, FetchBlock, Collect, sendVars
<1>4. ASSUME NEW n \in Nodes, NEW q \in blocks[n], LoseBlock(n, q) PROVE conns' = conns
  BY <1>4 DEF LoseBlock, sendVars
<1>5. ASSUME NEW n \in Nodes, NEW m \in Nodes, NoAnswer(n, m) PROVE conns' = conns
  BY <1>5 DEF NoAnswer, sendVars
<1>6. ASSUME NEW n \in Nodes, NEW t \in Tx, Submit(n, t) PROVE conns' = conns
  BY <1>6 DEF Submit, sendVars
<1>7. CASE UNCHANGED vars
  BY <1>7 DEF vars, sendVars
<1> QED
  BY <1>1, <1>2, <1>3, <1>4, <1>5, <1>6, <1>7 DEF Next

LEMMA FaultSteps ==
    ASSUME TypeInv, [Next]_vars, NoFault'
    PROVE  NoFault /\ \A c \in Links : ~ Refuse(c) /\ ~ Break(c)
<1>1. lost \in Nat /\ refused \in Nat
  BY BoundsAssumption DEF TypeInv, SendType
<1>2. lost' = 0 /\ refused' = 0
  BY DEF NoFault
<1>3. \A c \in Links : ~ Refuse(c) /\ ~ Break(c)
  BY <1>1, <1>2 DEF Refuse, Break
<1>4. CASE lost' = lost /\ refused' = refused
  BY <1>3, <1>4 DEF NoFault
<1>5. \A n \in Nodes : Check(n) \/ Tell(n) => lost' = lost /\ refused' = refused
  BY DEF Check, Tell, ReadBlock, MarkBlock, Offer, BeginRound, ReadHash, AnswerHash,
         Confirm, sendVars
<1>6. \A c \in Links : Talk(c) => lost' = lost /\ refused' = refused
  BY DEF Talk, Accept, Receive, Answer, TakeTxs
<1>7. \A n \in Nodes : ParseQueue(n) \/ Fetch(n) \/ Catch(n) \/ Generate(n)
                       => lost' = lost /\ refused' = refused
  BY DEF ParseQueue, Fetch, Catch, Generate, DropBlock, FetchBlock, Collect, sendVars
<1>8. \A n \in Nodes : \A q \in blocks[n] : ~ LoseBlock(n, q)
  BY <1>1, <1>2 DEF LoseBlock
<1>9. \A n, m \in Nodes : ~ NoAnswer(n, m)
  BY <1>1, <1>2 DEF NoAnswer
<1>10. \A n \in Nodes, t \in Tx : Submit(n, t) => lost' = lost /\ refused' = refused
  BY DEF Submit, sendVars
<1>11. UNCHANGED vars => lost' = lost /\ refused' = refused
  BY DEF vars, sendVars
<1> QED
  BY <1>3, <1>4, <1>5, <1>6, <1>7, <1>8, <1>9, <1>10, <1>11 DEF Next

LEMMA StepClosed == TypeInv /\ ClosedEmpty /\ [Next]_vars => ClosedEmpty'
<1> SUFFICES ASSUME TypeInv, ClosedEmpty, [Next]_vars PROVE ClosedEmpty'
  OBVIOUS
<1>1. SendType
  BY DEF TypeInv
<1>2. CASE conns' = conns
  BY <1>2 DEF ClosedEmpty
<1>3. ASSUME NEW n \in Nodes, Offer(n) PROVE ClosedEmpty'
  <2>1. \A c \in Links : conns'[c] = conns[c] \/ conns'[c].step = "dial"
    BY <1>1, <1>3, OfferConns
  <2> QED
    BY <2>1 DEF ClosedEmpty
<1>4. ASSUME NEW c \in Links, Talk(c) \/ Refuse(c) \/ Break(c) PROVE ClosedEmpty'
  <2>1. \/ conns'[c] = NoConn
        \/ conns'[c].step \in {"open", "asked", "answered"}
    BY <1>1, <1>4 DEF Talk, Accept, Receive, Answer, TakeTxs, Refuse, Break, DeferClose,
                      Close, SendType
  <2>2. \A d \in Links : d # c => conns'[d] = conns[d]
    BY <1>1, <1>4 DEF Talk, Accept, Receive, Answer, TakeTxs, Refuse, Break, DeferClose,
                      Close, SendType
  <2> QED
    BY <2>1, <2>2 DEF ClosedEmpty, NoConn
<1> QED
  BY <1>2, <1>3, <1>4, ConnSteps

LEMMA StepSent == TypeInv /\ ClosedEmpty /\ SentIsKnown /\ [Next]_vars => SentIsKnown'
<1> SUFFICES ASSUME TypeInv, ClosedEmpty, SentIsKnown, [Next]_vars, NoFault',
                    NEW n \in Nodes, NEW m \in Nodes, n # m, NEW t \in Tx, IsSent(n, t)'
             PROVE  Knows(m, t)' \/ Flying(n, m, t)'
  BY DEF SentIsKnown, NoFault, IsSent, Flying
<1>1. SendType
  BY DEF TypeInv
<1>2. NoFault /\ \A c \in Links : ~ Refuse(c) /\ ~ Break(c)
  BY FaultSteps
<1>3. CASE Offer(n) /\ IsUnsent(n, t)
  BY <1>1, <1>3, OfferConns
<1>4. CASE IsSent(n, t)
  <2>1. Knows(m, t) \/ Flying(n, m, t)
    BY <1>2, <1>4 DEF SentIsKnown, NoFault, IsSent, Flying
  <2>2. CASE Knows(m, t)
    BY <2>2, KnowsStays
  <2>3. CASE Flying(n, m, t)
    <3>1. CASE conns' = conns
      BY <2>3, <3>1 DEF Flying
    <3>2. ASSUME NEW k \in Nodes, Offer(k) PROVE Flying(n, m, t)'
      <4>1. PICK c \in Links : c.from = n /\ c.to = m /\ t \in conns[c].txs
        BY <2>3 DEF Flying
      <4>2. conns'[c] = conns[c]
        BY <1>1, <3>2, <4>1, OfferConns DEF ClosedEmpty
      <4> QED
        BY <4>1, <4>2 DEF Flying
    <3>3. ASSUME NEW d \in Links, Talk(d) PROVE Knows(m, t)' \/ Flying(n, m, t)'
      BY <1>4, <2>3, <3>3, TalkFlying
    <3> QED
      BY <1>2, <3>1, <3>2, <3>3, ConnSteps
  <2> QED
    BY <2>1, <2>2, <2>3
<1> QED
  BY <1>3, <1>4, SentSteps

(* Without faults, what is marked as sent has arrived or is on its way:    *)
(* an offer never takes a connection in use, the receiver leaves out only  *)
(* what it knows, and the sender has the row until the transaction is in   *)
(* its log, or writes it anew as not sent.                                 *)
THEOREM SentArrives == Spec => []SentIsKnown
<1>1. Init => ClosedEmpty /\ SentIsKnown
  BY DEF Init, ClosedEmpty, SentIsKnown, NoConn, HasRow
<1> QED
  BY <1>1, StepClosed, StepSent, TypesHold, PTL DEF Spec
-----------------------------------------------------------------------------
(* Confirmations.                                                          *)

(* The nodes that have had a block.                                        *)
Shared(id, blk) == {m \in Nodes : \E c \in held[m] : Len(c) >= id /\ Upto(c, id) = blk}

Parts(n, id) == {Upto(c, id) : c \in {d \in held[n] : Len(d) >= id}}

(* While a block is asked for, the node has had it itself, and as many     *)
(* nodes that are not asked any more have had it as gave a good answer.    *)
Asking(n) ==
    /\ round[n].blk \in Parts(n, round[n].id)
    /\ round[n].good <= Cardinality(Shared(round[n].id, round[n].blk) \ round[n].left)

AskInv == \A n \in Nodes : round[n].step = "ask" => Asking(n)

LEMMA HeldGrows ==
    ASSUME TypeInv, [Next]_vars, NEW n \in Nodes
    PROVE  held[n] \subseteq held'[n]
<1>1. StoreType
  BY DEF TypeInv
<1>2. ASSUME NEW k \in Nodes, NEW blk, Adopt(k, blk) PROVE held[n] \subseteq held'[n]
  BY <1>1, <1>2 DEF Adopt, StoreType
<1>3. ASSUME NEW k \in Nodes, Generate(k) PROVE held[n] \subseteq held'[n]
  BY <1>2, <1>3 DEF Generate
<1>4. ASSUME NEW k \in Nodes, Following(k) PROVE held[n] \subseteq held'[n]
  BY <1>2, <1>4 DEF Following, Follow
<1> QED
  BY <1>3, <1>4, ChainSteps

LEMMA SharedFacts ==
    ASSUME NEW id, NEW blk, NEW left
    PROVE  /\ IsFiniteSet(Shared(id, blk) \ left)
           /\ Cardinality(Shared(id, blk) \ left) \in Nat
           /\ IsFiniteSet(Shared(id, blk)) /\ Cardinality(Shared(id, blk)) \in Nat
<1>1. Shared(id, blk) \ left \subseteq Nodes /\ Shared(id, blk) \subseteq Nodes
  BY DEF Shared
<1> HIDE DEF Shared
<1> QED
  BY <1>1, NodesAssumption, FS_Subset, FS_CardinalityType

LEMMA SharedGrows ==
    ASSUME TypeInv, [Next]_vars, NEW id, NEW blk, NEW left
    PROVE  /\ Shared(id, blk) \subseteq Shared(id, blk)'
           /\ IsFiniteSet(Shared(id, blk)') /\ Cardinality(Shared(id, blk)') \in Nat
           /\ IsFiniteSet(Shared(id, blk)' \ left)
           /\ Cardinality(Shared(id, blk)' \ left) \in Nat
           /\ Cardinality(Shared(id, blk) \ left) <= Cardinality(Shared(id, blk)' \ left)
           /\ Cardinality(Shared(id, blk)) <= Cardinality(Shared(id, blk)')
<1>1. Shared(id, blk)' = {m \in Nodes : \E c \in held'[m] : Len(c) >= id /\ Upto(c, id) = blk}
  BY DEF Shared, Upto
<1>2. Shared(id, blk) \subseteq Shared(id, blk)'
  BY <1>1, HeldGrows DEF Shared
<1>3. Shared(id, blk)' \subseteq Nodes /\ Shared(id, blk)' \ left \subseteq Nodes
  BY <1>1
<1> DEFINE new == Shared(id, blk)'
           old == Shared(id, blk)
<1>4. IsFiniteSet(new) /\ IsFiniteSet(new \ left)
  <2> HIDE DEF new
  <2> QED
    BY <1>3, NodesAssumption, FS_Subset DEF new
<1>5. old \subseteq new /\ old \ left \subseteq new \ left
  BY <1>2
<1> HIDE DEF new, old
<1>6. Cardinality(old) <= Cardinality(new) /\ Cardinality(old \ left) <= Cardinality(new \ left)
  BY <1>4, <1>5, FS_Subset
<1>7. Cardinality(new) \in Nat /\ Cardinality(new \ left) \in Nat
  BY <1>4, FS_CardinalityType
<1> QED
  BY <1>2, <1>4, <1>6, <1>7 DEF new, old

LEMMA PartsGrow ==
    ASSUME TypeInv, [Next]_vars, NEW n \in Nodes, NEW id
    PROVE  Parts(n, id) \subseteq {Upto(c, id) : c \in {d \in held'[n] : Len(d) >= id}}
BY HeldGrows DEF Parts

(* A node that goes on asking for the same block.                          *)
LEMMA AskingStays ==
    ASSUME TypeInv, [Next]_vars, NEW n \in Nodes, round'[n] = round[n], Asking(n)
    PROVE  Asking(n)'
<1> DEFINE r == round[n]
<1>1. r.blk \in Parts(n, r.id)'
  BY PartsGrow DEF Asking, Parts, Upto
<1>2. r.good \in Nat
  BY DEF TypeInv, CheckType
<1>3. /\ Cardinality(Shared(r.id, r.blk) \ r.left) <= Cardinality(Shared(r.id, r.blk)' \ r.left)
      /\ Cardinality(Shared(r.id, r.blk) \ r.left) \in Nat
      /\ Cardinality(Shared(r.id, r.blk)' \ r.left) \in Nat
  BY SharedGrows, SharedFacts
<1> QED
  BY <1>1, <1>2, <1>3 DEF Asking

LEMMA ReadingIsNotAsking ==
    ASSUME NEW id, NEW start
    PROVE  Reading(id, start).step # "ask"
<1>1. Rest.step = "idle" /\ [Rest EXCEPT !.step = "read", !.id = id, !.start = start].step = "read"
  BY DEF Rest
<1> QED
  BY <1>1 DEF Reading

LEMMA RoundSteps ==
    ASSUME TypeInv, [Next]_vars, NEW n \in Nodes
    PROVE  /\ \/ round'[n] = round[n]
              \/ BeginRound(n) \/ ReadHash(n) \/ Confirm(n)
              \/ \E m \in Nodes : AnswerHash(n, m) \/ NoAnswer(n, m)
           /\ conf'[n] = conf[n] \/ Confirm(n)
<1>1. CheckType
  BY DEF TypeInv
<1>2. CASE round' = round /\ conf' = conf
  BY <1>2
<1>3. ASSUME NEW k \in Nodes, k # n, Check(k) \/ \E m \in Nodes : NoAnswer(k, m)
      PROVE  round'[n] = round[n] /\ conf'[n] = conf[n]
  BY <1>1, <1>3 DEF Check, BeginRound, ReadHash, AnswerHash, Confirm, NoAnswer, CheckType
<1>4. CASE Check(n)
  <2>1. conf'[n] = conf[n] \/ Confirm(n)
    BY <1>4 DEF Check, BeginRound, ReadHash, AnswerHash
  <2> QED
    BY <1>4, <2>1 DEF Check
<1>5. CASE \E m \in Nodes : NoAnswer(n, m)
  <2>1. conf' = conf
    BY <1>5 DEF NoAnswer
  <2> QED
    BY <1>5, <2>1
<1>6. ASSUME NEW k \in Nodes, ParseQueue(k) \/ Fetch(k) \/ Catch(k) \/ Generate(k) \/ Tell(k)
      PROVE  round' = round /\ conf' = conf
  BY <1>6 DEF ParseQueue, Fetch, Catch, Generate, DropBlock, FetchBlock, Collect, Tell,
              ReadBlock, MarkBlock, Offer, checkVars
<1>7. ASSUME NEW c \in Links, Talk(c) \/ Refuse(c) \/ Break(c)
      PROVE  round' = round /\ conf' = conf
  BY <1>7 DEF Talk, Accept, Receive, Answer, TakeTxs, Refuse, Break, checkVars
<1>8. ASSUME NEW k \in Nodes, NEW q \in blocks[k], LoseBlock(k, q)
      PROVE  round' = round /\ conf' = conf
  BY <1>8 DEF LoseBlock, checkVars
<1>9. ASSUME NEW k \in Nodes, NEW t \in Tx, Submit(k, t)
      PROVE  round' = round /\ conf' = conf
  BY <1>9 DEF Submit, checkVars
<1>10. CASE UNCHANGED vars
  BY <1>2, <1>10 DEF vars, checkVars
<1> QED
  BY <1>2, <1>3, <1>4, <1>5, <1>6, <1>7, <1>8, <1>9, <1>10 DEF Next

(* One host less is left to ask; a good answer is from a node that has the *)
(* block.                                                                  *)
LEMMA AnswerAsking ==
    ASSUME TypeInv, [Next]_vars, NEW n \in Nodes, NEW m \in Nodes, Asking(n),
           AnswerHash(n, m) \/ NoAnswer(n, m)
    PROVE  Asking(n)'
<1> DEFINE r == round[n]
           old == Shared(r.id, r.blk)
           left == r.left \ {m}
<1>1. StoreType /\ CheckType /\ r.good \in Nat /\ m \in r.left
  BY DEF TypeInv, CheckType, AnswerHash, NoAnswer
<1>2. round'[n].id = r.id /\ round'[n].blk = r.blk /\ round'[n].left = left /\ held' = held
  BY <1>1 DEF AnswerHash, NoAnswer, CheckType, storeVars
<1>3. /\ IsFiniteSet(old \ left) /\ Cardinality(old \ left) \in Nat
      /\ IsFiniteSet(old \ r.left) /\ Cardinality(old \ r.left) \in Nat
  BY SharedFacts
<1>4. r.good <= Cardinality(old \ r.left)
  BY DEF Asking
<1>5. round'[n].good <= Cardinality(old \ left)
  <2>1. CASE round'[n].good = r.good
    <3>1. old \ r.left \subseteq old \ left
      OBVIOUS
    <3>2. Cardinality(old \ r.left) <= Cardinality(old \ left)
      <4> HIDE DEF old, left, r
      <4> QED
        BY <1>3, <3>1, FS_Subset
    <3> HIDE DEF old, left, r
    <3> QED
      BY <1>1, <1>3, <1>4, <2>1, <3>2
  <2>2. CASE round'[n].good = r.good + 1 /\ Same(n, m)
    <3>1. chain[m] \in held[m]
      BY <1>1 DEF StoreType
    <3>2. m \in old
      BY <2>2, <3>1 DEF Same, Shared
    <3>3. old \ left = (old \ r.left) \cup {m} /\ m \notin old \ r.left
      BY <1>1, <3>2
    <3>4. Cardinality(old \ left) = Cardinality(old \ r.left) + 1
      <4> HIDE DEF old, left, r
      <4> QED
        BY <1>3, <3>3, FS_AddElement
    <3> HIDE DEF old, left, r
    <3> QED
      BY <1>1, <1>3, <1>4, <2>2, <3>4
  <2>3. round'[n].good = r.good \/ (round'[n].good = r.good + 1 /\ Same(n, m))
    <3>1. CASE NoAnswer(n, m)
      BY <1>1, <3>1 DEF NoAnswer, CheckType
    <3>2. CASE AnswerHash(n, m) /\ Same(n, m)
      BY <1>1, <3>2 DEF AnswerHash, CheckType
    <3>3. CASE AnswerHash(n, m) /\ ~ Same(n, m)
      <4>1. round'[n].good = r.good + 0
        BY <1>1, <3>3 DEF AnswerHash, CheckType
      <4> QED
        BY <1>1, <4>1
    <3> QED
      BY <3>1, <3>2, <3>3
  <2> QED
    BY <2>1, <2>2, <2>3
<1>6. Parts(n, r.id)' = Parts(n, r.id) /\ Shared(r.id, r.blk)' = old
  BY <1>2 DEF Parts, Shared, Upto
<1> QED
  BY <1>2, <1>5, <1>6 DEF Asking, Parts, Shared, Upto

LEMMA StepAsk == TypeInv /\ AskInv /\ [Next]_vars => AskInv'
<1> SUFFICES ASSUME TypeInv, AskInv, [Next]_vars, NEW n \in Nodes, round'[n].step = "ask"
             PROVE  Asking(n)'
  BY DEF AskInv
<1>1. StoreType /\ CheckType
  BY DEF TypeInv
<1>2. CASE round'[n] = round[n]
  BY <1>2, AskingStays DEF AskInv
<1>3. CASE BeginRound(n)
  <2>1. PICK id, start : round' = [round EXCEPT ![n] = Reading(id, start)]
    BY <1>3 DEF BeginRound
  <2> QED
    BY <1>1, <2>1, ReadingIsNotAsking DEF CheckType
<1>4. CASE ReadHash(n)
  <2> DEFINE r == [round[n] EXCEPT !.step = "ask", !.good = 0, !.left = Nodes,
                                   !.blk = Upto(chain[n], round[n].id)]
  <2>1. round[n].id <= Len(chain[n]) /\ round' = [round EXCEPT ![n] = r]
    <3>1. CASE round[n].id > Len(chain[n])
      <4>1. round'[n] = NextId(n)
        BY <1>1, <1>4, <3>1 DEF ReadHash, CheckType
      <4> QED
        BY <4>1, ReadingIsNotAsking DEF NextId
    <3>2. CASE ~ (round[n].id > Len(chain[n]))
      <4>1. round[n].id \in Nat /\ Len(chain[n]) \in Nat
        BY <1>1, ChainFacts DEF CheckType, StoreType
      <4> QED
        BY <1>4, <3>2, <4>1 DEF ReadHash
    <3> QED
      BY <3>1, <3>2
  <2>2. /\ round'[n].id = round[n].id /\ round'[n].blk = Upto(chain[n], round[n].id)
        /\ round'[n].good = 0 /\ held' = held
    BY <1>1, <1>4, <2>1 DEF ReadHash, CheckType, storeVars
  <2>3. chain[n] \in held[n] /\ Len(chain[n]) >= round[n].id
    <3>1. round[n].id \in Nat /\ Len(chain[n]) \in Nat
      BY <1>1, ChainFacts DEF CheckType, StoreType
    <3> QED
      BY <1>1, <2>1, <3>1 DEF StoreType
  <2>4. round'[n].blk \in {Upto(c, round'[n].id) : c \in {d \in held'[n] : Len(d) >= round'[n].id}}
    BY <2>2, <2>3
  <2> DEFINE left == round'[n].left
             new == {m \in Nodes : \E c \in held'[m] :
                        Len(c) >= round'[n].id /\ Upto(c, round'[n].id) = round'[n].blk}
  <2>5. new \ left \subseteq Nodes
    OBVIOUS
  <2>6. Cardinality(new \ left) \in Nat
    <3> HIDE DEF new, left
    <3> QED
      BY <2>5, NodesAssumption, FS_Subset, FS_CardinalityType
  <2>7. round'[n].good <= Cardinality(new \ left)
    <3> HIDE DEF new, left
    <3> QED
      BY <2>2, <2>6
  <2> QED
    BY <2>4, <2>7 DEF Asking, Parts, Shared, Upto
<1>5. CASE Confirm(n)
  <2>1. round'[n] = Rest \/ round'[n] = NextId(n)
    BY <1>1, <1>5 DEF Confirm, CheckType
  <2> QED
    BY <2>1, ReadingIsNotAsking DEF NextId, Rest
<1>6. ASSUME NEW m \in Nodes, AnswerHash(n, m) \/ NoAnswer(n, m)
      PROVE  Asking(n)'
  <2>1. Asking(n)
    BY <1>6 DEF AnswerHash, NoAnswer, AskInv
  <2> QED
    BY <1>6, <2>1, AnswerAsking
<1> QED
  BY <1>2, <1>3, <1>4, <1>5, <1>6, RoundSteps

(* A block that is confirmed for an id.                                    *)
Backed(n, id) == \E blk \in Parts(n, id) : Cardinality(Shared(id, blk)) >= MinGood

LEMMA BackedStays ==
    ASSUME TypeInv, [Next]_vars, NEW n \in Nodes, NEW id \in Ids,
           NEW blk \in Parts(n, id), NEW good \in Nat, good >= MinGood,
           good <= Cardinality(Shared(id, blk))
    PROVE  Backed(n, id)'
<1>1. blk \in Parts(n, id)'
  BY PartsGrow DEF Parts, Upto
<1>2. /\ Cardinality(Shared(id, blk)) <= Cardinality(Shared(id, blk)')
      /\ Cardinality(Shared(id, blk)) \in Nat /\ Cardinality(Shared(id, blk)') \in Nat
  BY SharedGrows, SharedFacts
<1>3. Cardinality(Shared(id, blk)') >= MinGood
  BY <1>2, BoundsAssumption
<1> QED
  BY <1>1, <1>3 DEF Backed

LEMMA StepConfirmed == TypeInv /\ AskInv /\ ConfirmedWasShared /\ [Next]_vars => ConfirmedWasShared'
<1> SUFFICES ASSUME TypeInv, AskInv, ConfirmedWasShared, [Next]_vars,
                    NEW n \in Nodes, NEW id \in Ids, conf'[n][id] >= MinGood
             PROVE  Backed(n, id)'
  BY DEF ConfirmedWasShared, Backed, Parts, Shared
<1>1. CheckType /\ MinGood \in Nat
  BY BoundsAssumption DEF TypeInv
<1>2. CASE conf'[n][id] = conf[n][id]
  <2>1. PICK blk \in Parts(n, id) : Cardinality(Shared(id, blk)) >= MinGood
    BY <1>2 DEF ConfirmedWasShared, Parts, Shared
  <2>2. Cardinality(Shared(id, blk)) \in Nat
    BY SharedFacts
  <2>3. Cardinality(Shared(id, blk)) <= Cardinality(Shared(id, blk))
    BY <2>2
  <2> QED
    BY <2>1, <2>2, <2>3, BackedStays
<1>3. CASE conf'[n][id] # conf[n][id]
  <2>1. Confirm(n)
    BY <1>3, RoundSteps
  <2> DEFINE r == round[n]
  <2>2. conf'[n][id] = r.good /\ id = r.id
    BY <1>1, <1>3, <2>1 DEF Confirm, CheckType
  <2>3. r.blk \in Parts(n, id) /\ r.good <= Cardinality(Shared(id, r.blk) \ {}) /\ r.good \in Nat
    BY <1>1, <2>1, <2>2 DEF Confirm, AskInv, Asking, CheckType
  <2>4. Shared(id, r.blk) \ {} = Shared(id, r.blk)
    OBVIOUS
  <2>5. PICK blk \in Parts(n, id) : r.good <= Cardinality(Shared(id, blk))
    BY <2>3, <2>4
  <2> QED
    BY <2>2, <2>3, <2>5, BackedStays
<1> QED
  BY <1>2, <1>3

(* Whatever is confirmed, that many nodes have had it, each at the moment  *)
(* it was asked, although forks may replace it everywhere since.           *)
THEOREM ConfirmationsTrue == Spec => []ConfirmedWasShared
<1>1. Init => AskInv
  BY DEF Init, AskInv, Rest
<1>2. Init => ConfirmedWasShared
  <2> SUFFICES ASSUME Init PROVE \A n \in Nodes, id \in Ids : ~ (conf[n][id] >= MinGood)
    BY DEF ConfirmedWasShared
  <2>1. \A n \in Nodes, id \in Ids : conf[n][id] = -1
    BY DEF Init, Unasked
  <2> QED
    BY <2>1, BoundsAssumption
<1> QED
  BY <1>1, <1>2, StepAsk, StepConfirmed, TypesHold, PTL DEF Spec
=============================================================================
