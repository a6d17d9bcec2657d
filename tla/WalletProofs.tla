---------------------------- MODULE WalletProofs ----------------------------
(***************************************************************************)
(* Machine-checked proofs about Wallet, for any number of workers,         *)
(* withdrawals and overlapping requests: no balance is ever negative, no   *)
(* money is made or lost while requests about a worker do not overlap on a *)
(* row, and until then no decision about a withdrawal is taken back.       *)
(***************************************************************************)
EXTENDS Wallet, FiniteSums

-----------------------------------------------------------------------------
(* The inductive invariant *)

PurseRow == [balance : Nat, banned : BOOLEAN]

PayoutRow ==
  [owner : Owners \cup {NoRow}, amount : Amounts \cup {0},
   status : {"none", "pending", "approved", "rejected", "paid", "cancelled"}]

Decisions == {"approving", "paying", "rejecting", "cancelling"}

Funded == {"rewarding", "asking", "holding", "closing", "banning"}

DeskRow ==
  [kind : {"none"} \cup Decisions \cup Funded, worker : Owners \cup {NoRow},
   seen : PurseRow \cup {NoRow}, rows : SUBSET Payouts, amount : Nat]

RowTypes ==
  /\ purse \in [Owners -> PurseRow]
  /\ payout \in [Payouts -> PayoutRow]
  /\ desk \in [Desks -> DeskRow]
  /\ booked \in [Owners -> Int]
  /\ earned \in [Owners -> Nat]
  /\ unbooked \in [Owners -> Nat]
  /\ clashed \in SUBSET Owners

\* A withdrawal has an owner as soon as it is requested.
Owned(row) == IF row.status = "none" THEN row.owner = NoRow ELSE row.owner \in Owners

\* SumOf over any table of withdrawals.
SumIn(table, rows) == MapThenSumSet(LAMBDA d : table[d].amount, rows)

\* What an open request knows, whatever others have written since it read.
Sound(r, table) ==
  /\ r.kind = "none" => r = NoRequest
  /\ r.kind # "none" => r.worker \in Owners
  /\ r.kind \in Funded => r.seen # NoRow
  /\ r.kind = "rewarding" => r.amount = Reward
  /\ r.kind \in {"asking", "holding"} => r.amount \in Amounts
  /\ r.kind = "holding" => r.amount <= r.seen.balance
  /\ r.kind \in {"rewarding", "asking", "holding", "closing"} => r.rows = {}
  /\ \A d \in r.rows : table[d].owner = r.worker
  /\ r.kind \in Decisions \cup {"banning"} => r.amount = SumIn(table, r.rows)

\* While nothing about its worker has clashed, what a request read is what the rows say.
Fresh(r, purses, table, clashes) ==
  r.worker \in Owners \ clashes =>
    /\ r.seen # NoRow => r.seen.balance = purses[r.worker].balance
    /\ \A d \in r.rows : table[d].status \in Needs(r.kind)

Withdrawing == {o \in Desks : desk[o].kind \in {"asking", "holding"}}

Rewarding(w) == {o \in Desks : desk[o].kind = "rewarding" /\ desk[o].worker = w}

\* Every open request finds the row, and the room below the bound, it was opened for.
RoomLeft ==
  /\ Cardinality(Withdrawing) <= Cardinality(Unused)
  /\ \A w \in Owners : earned[w] + Reward * Cardinality(Rewarding(w)) <= MaxEarned

RequestsSound ==
  \A s \in Desks : Sound(desk[s], payout) /\ Fresh(desk[s], purse, payout, clashed)

ClaimsIn(table, w) ==
  {d \in Payouts : table[d].owner = w /\ table[d].status \in {"pending", "approved", "paid"}}

Conserved(w) ==
  /\ earned[w] = purse[w].balance + SumIn(payout, ClaimsIn(payout, w))
  /\ purse[w].balance = booked[w] + unbooked[w]

WInv ==
  /\ RowTypes
  /\ \A d \in Payouts : Owned(payout[d])
  /\ RequestsSound
  /\ RoomLeft
  /\ \A w \in Owners \ clashed : Conserved(w)

-----------------------------------------------------------------------------
(* Sums of withdrawals *)

AmountsIn(table) == [d \in Payouts |-> table[d].amount]

LEMMA PayoutsFinite == ASSUME NEW rows \in SUBSET Payouts PROVE IsFiniteSet(rows)
  BY WalletAssumption, FS_Subset

LEMMA SumInIsSum ==
  ASSUME NEW table, NEW rows \in SUBSET Payouts
  PROVE  SumIn(table, rows) = SumOver(AmountsIn(table), rows)
<1>1. PICK f : f = AmountsIn(table)
  OBVIOUS
<1>2. IsFiniteSet(rows)
  BY PayoutsFinite
<1>3. PICK g : IsSumTable(g, f, rows) /\ SumOver(f, rows) = g[rows]
  BY <1>2, SumTableUnfold
<1>4. PICK h : IsSumTable(h, f, rows) /\ SumIn(table, rows) = h[rows]
  <2>1. \A d \in rows : f[d] = table[d].amount
    BY <1>1 DEF AmountsIn
  <2>2. \A s \in SUBSET rows : s # {} => Chosen(s) \in rows
    BY DEF Chosen
  <2>3. \A k : IsSumTable(k, f, rows) <=>
          k = [s \in SUBSET rows |->
                 IF s = {} THEN 0 ELSE table[Chosen(s)].amount + k[s \ {Chosen(s)}]]
    BY <2>1, <2>2 DEF IsSumTable
  <2>4. QED
    BY <1>3, <2>3 DEF SumIn, MapThenSumSet, MapThenFoldSet, Chosen
<1>5. g[rows] = h[rows]
  BY <1>2, <1>3, <1>4, SumTableAgrees
<1>6. QED BY <1>1, <1>3, <1>4, <1>5

LEMMA AmountsAreNat ==
  ASSUME NEW table \in [Payouts -> PayoutRow], NEW d \in Payouts
  PROVE  AmountsIn(table)[d] \in Nat /\ AmountsIn(table)[d] = table[d].amount
<1>1. table[d] \in PayoutRow
  OBVIOUS
<1>2. table[d].amount \in Amounts \cup {0}
  BY <1>1 DEF PayoutRow
<1>3. table[d].amount \in Nat
  <2>1. \A n : n \in Amounts \cup {0} => n \in Nat
    BY WalletAssumption
  <2>2. QED BY <1>2, <2>1
<1>4. AmountsIn(table)[d] = table[d].amount
  BY DEF AmountsIn
<1>5. QED BY <1>3, <1>4

LEMMA SumInType ==
  ASSUME NEW table \in [Payouts -> PayoutRow], NEW rows \in SUBSET Payouts
  PROVE  SumIn(table, rows) \in Nat
<1>1. PICK f : f = AmountsIn(table)
  OBVIOUS
<1>2. IsFiniteSet(rows) /\ \A d \in rows : f[d] \in Nat
  BY <1>1, PayoutsFinite, AmountsAreNat
<1>3. SumOver(f, rows) \in Nat
  BY <1>2, SumNatural
<1>4. QED BY <1>1, <1>3, SumInIsSum

LEMMA SumInSame ==
  ASSUME NEW table, NEW new, NEW rows \in SUBSET Payouts,
         \A d \in rows : new[d].amount = table[d].amount
  PROVE  SumIn(new, rows) = SumIn(table, rows)
<1>1. PICK f : f = AmountsIn(table)
  OBVIOUS
<1>2. PICK g : g = AmountsIn(new)
  OBVIOUS
<1>3. IsFiniteSet(rows) /\ \A d \in rows : f[d] = g[d]
  BY <1>1, <1>2, PayoutsFinite DEF AmountsIn
<1>4. SumOver(f, rows) = SumOver(g, rows)
  BY <1>3, SumSame
<1>5. QED BY <1>1, <1>2, <1>4, SumInIsSum

LEMMA SumInOne ==
  ASSUME NEW table \in [Payouts -> PayoutRow], NEW d \in Payouts
  PROVE  SumIn(table, {d}) = table[d].amount
<1>1. PICK f : f = AmountsIn(table)
  OBVIOUS
<1>2. f[d] \in Int /\ f[d] = table[d].amount
  BY <1>1, AmountsAreNat
<1>3. SumOver(f, {d}) = f[d]
  BY <1>2, SumOne
<1>4. QED BY <1>1, <1>2, <1>3, SumInIsSum

LEMMA SumInWith ==
  ASSUME NEW table \in [Payouts -> PayoutRow], NEW rows \in SUBSET Payouts,
         NEW d \in Payouts, d \notin rows
  PROVE  SumIn(table, rows \cup {d}) = table[d].amount + SumIn(table, rows)
<1>1. PICK f : f = AmountsIn(table)
  OBVIOUS
<1>2. /\ IsFiniteSet(rows) /\ \A e \in rows \cup {d} : f[e] \in Int
      /\ f[d] = table[d].amount
  BY <1>1, PayoutsFinite, AmountsAreNat
<1>3. SumOver(f, rows \cup {d}) = f[d] + SumOver(f, rows)
  BY <1>2, SumWith
<1>4. /\ SumIn(table, rows \cup {d}) = SumOver(f, rows \cup {d})
      /\ SumIn(table, rows) = SumOver(f, rows)
  BY <1>1, SumInIsSum
<1>5. QED BY <1>2, <1>3, <1>4

LEMMA SumInSplit ==
  ASSUME NEW table \in [Payouts -> PayoutRow], NEW all \in SUBSET Payouts, NEW rows \in SUBSET all
  PROVE  SumIn(table, all) = SumIn(table, rows) + SumIn(table, all \ rows)
<1>1. PICK f : f = AmountsIn(table)
  OBVIOUS
<1>2. IsFiniteSet(all) /\ \A d \in all : f[d] \in Int
  BY <1>1, PayoutsFinite, AmountsAreNat
<1>3. SumOver(f, all) = SumOver(f, rows) + SumOver(f, all \ rows)
  BY <1>2, SumSplit
<1>4. /\ SumIn(table, all) = SumOver(f, all)
      /\ SumIn(table, rows) = SumOver(f, rows)
      /\ SumIn(table, all \ rows) = SumOver(f, all \ rows)
  BY <1>1, SumInIsSum
<1>5. QED BY <1>3, <1>4

LEMMA SumOfIsSumIn == ASSUME NEW rows PROVE SumOf(rows) = SumIn(payout, rows)
  BY DEF SumOf, SumIn, MapThenSumSet, MapThenFoldSet

LEMMA ClaimsSumNow ==
  ASSUME NEW w PROVE SumOf(Claims(w)) = SumIn(payout, ClaimsIn(payout, w))
<1>1. Claims(w) = ClaimsIn(payout, w)
  BY DEF Claims, ClaimsIn
<1>2. QED BY <1>1, SumOfIsSumIn

-----------------------------------------------------------------------------
(* What a step leaves of the open requests *)

LEMMA DesksFinite == ASSUME NEW some \in SUBSET Desks PROVE IsFiniteSet(some)
  BY WalletAssumption, FS_Subset

LEMMA NoRowIsNone ==
  /\ NoRow \notin Owners
  /\ NoRow \notin PurseRow
<1>1. PurseRow \subseteq [balance : Int, banned : BOOLEAN]
  BY DEF PurseRow
<1>2. QED BY <1>1, WalletAssumption

LEMMA ClosedRow == NoRequest \in DeskRow
  BY DEF NoRequest, DeskRow

\* A request whose withdrawals keep their owner and amount stays sound.
LEMMA SoundKept ==
  ASSUME NEW r \in DeskRow, NEW table, NEW new, Sound(r, table),
         \A d \in r.rows : new[d].owner = table[d].owner /\ new[d].amount = table[d].amount
  PROVE  Sound(r, new)
<1>1. r.rows \in SUBSET Payouts
  BY DEF DeskRow
<1>2. SumIn(new, r.rows) = SumIn(table, r.rows)
  BY <1>1, SumInSame
<1>3. QED BY <1>2 DEF Sound

LEMMA ClosedIsSound ==
  ASSUME NEW purses, NEW table, NEW clashes
  PROVE  Sound(NoRequest, table) /\ Fresh(NoRequest, purses, table, clashes)
  BY NoRowIsNone DEF Sound, Fresh, NoRequest, Funded, Decisions

\* A slot that opens, advances or drops a request leaves the others as they were.
LEMMA DeskStep ==
  ASSUME WInv, NEW s \in Desks, NEW r \in DeskRow,
         desk' = [desk EXCEPT ![s] = r], UNCHANGED <<purse, payout, clashed>>,
         Sound(r, payout), Fresh(r, purse, payout, clashed)
  PROVE  RequestsSound'
<1>1. desk \in [Desks -> DeskRow]
  BY DEF WInv, RowTypes
<1> SUFFICES ASSUME NEW o \in Desks
             PROVE  /\ Sound(desk'[o], payout')
                    /\ Fresh(desk'[o], purse', payout', clashed')
  BY DEF RequestsSound
<1>2. CASE o = s
  <2>1. desk'[o] = r
    BY <1>1, <1>2
  <2>2. QED BY <2>1
<1>3. CASE o # s
  <2>1. desk'[o] = desk[o]
    BY <1>1, <1>3
  <2>2. Sound(desk[o], payout) /\ Fresh(desk[o], purse, payout, clashed)
    BY DEF WInv, RequestsSound
  <2>3. QED BY <2>1, <2>2
<1>4. QED BY <1>2, <1>3

\* What a commit about worker w may do to the rows: only the balance of w changes, and only when
\* the commit writes it; used withdrawals keep owner and amount, and others than rows all they say.
Commits(s, w, wrote, rows) ==
  /\ desk' = [desk EXCEPT ![s] = NoRequest]
  /\ NoteClash(s, w, wrote, rows)
  /\ \A v \in Owners : v # w \/ ~wrote => purse'[v].balance = purse[v].balance
  /\ \A d \in Payouts : payout[d].status # "none" =>
       /\ payout'[d].owner = payout[d].owner
       /\ payout'[d].amount = payout[d].amount
       /\ d \notin rows => payout'[d].status = payout[d].status

\* The withdrawals of an open request are used, and belong to its worker.
LEMMA RowsAreUsed ==
  ASSUME WInv, NEW o \in Desks, NEW d \in desk[o].rows
  PROVE  /\ d \in Payouts
         /\ desk[o].worker \in Owners
         /\ payout[d].owner = desk[o].worker
         /\ payout[d].status # "none"
<1>1. desk[o] \in DeskRow /\ Sound(desk[o], payout)
  BY DEF WInv, RowTypes, RequestsSound
<1>2. d \in Payouts
  BY <1>1 DEF DeskRow
<1>3. desk[o].kind # "none"
  BY <1>1 DEF Sound, NoRequest
<1>4. desk[o].worker \in Owners /\ payout[d].owner = desk[o].worker
  BY <1>1, <1>3 DEF Sound
<1>5. Owned(payout[d])
  BY <1>2 DEF WInv
<1>6. payout[d].status # "none"
  BY <1>4, <1>5, NoRowIsNone DEF Owned
<1>7. QED BY <1>2, <1>4, <1>6

LEMMA CommitStep ==
  ASSUME WInv, NEW s \in Desks, NEW w \in Owners, NEW wrote \in BOOLEAN, NEW rows \in SUBSET Payouts,
         \A d \in rows : payout[d].owner = w, Commits(s, w, wrote, rows)
  PROVE  RequestsSound'
<1>1. desk \in [Desks -> DeskRow] /\ clashed \subseteq clashed'
  BY DEF WInv, RowTypes, Commits, NoteClash
<1> SUFFICES ASSUME NEW o \in Desks
             PROVE  /\ Sound(desk'[o], payout')
                    /\ Fresh(desk'[o], purse', payout', clashed')
  BY DEF RequestsSound
<1>2. CASE o = s
  <2>1. desk'[o] = NoRequest
    BY <1>1, <1>2 DEF Commits
  <2>2. QED BY <2>1, ClosedIsSound
<1>3. CASE o # s
  <2>1. desk'[o] = desk[o]
    BY <1>1, <1>3 DEF Commits
  <2>2. PICK r \in DeskRow : r = desk[o]
    BY <1>1
  <2>3. Sound(r, payout) /\ Fresh(r, purse, payout, clashed)
    BY <2>2 DEF WInv, RequestsSound
  <2>4. \A d \in r.rows : /\ d \in Payouts /\ r.worker \in Owners
                          /\ payout[d].owner = r.worker
                          /\ payout'[d].owner = payout[d].owner
                          /\ payout'[d].amount = payout[d].amount
                          /\ d \notin rows => payout'[d].status = payout[d].status
    BY <2>2, RowsAreUsed DEF Commits
  <2>5. Sound(r, payout')
    BY <2>3, <2>4, SoundKept
  <2>6. ASSUME r.worker \in Owners \ clashed'
        PROVE  /\ r.seen # NoRow => r.seen.balance = purse'[r.worker].balance
               /\ \A d \in r.rows : payout'[d].status \in Needs(r.kind)
    <3>1. /\ r.seen # NoRow => r.seen.balance = purse[r.worker].balance
          /\ \A d \in r.rows : payout[d].status \in Needs(r.kind)
      BY <1>1, <2>3, <2>6 DEF Fresh
    <3>2. r.worker = w => ~Overrun(s, w, wrote, rows)
      BY <2>6 DEF Commits, NoteClash
    <3>3. r.worker = w => (wrote => r.seen = NoRow) /\ r.rows \cap rows = {}
      BY <1>3, <2>2, <3>2 DEF Overrun
    <3>4. r.seen # NoRow => purse'[r.worker].balance = purse[r.worker].balance
      BY <2>6, <3>3 DEF Commits
    <3>5. \A d \in r.rows : d \notin rows
      BY <2>4, <3>3
    <3>6. QED BY <2>4, <3>1, <3>4, <3>5
  <2>7. Fresh(r, purse', payout', clashed')
    BY <2>6 DEF Fresh
  <2>8. QED BY <2>1, <2>2, <2>5, <2>7
<1>4. QED BY <1>2, <1>3

-----------------------------------------------------------------------------
(* Room below the bounds *)

LEMMA RewardTimes ==
  ASSUME NEW m \in Nat, NEW n \in Nat, m <= n
  PROVE  /\ Reward * m \in Nat /\ Reward * n \in Nat
         /\ Reward * m <= Reward * n
         /\ Reward * (n + 1) = Reward * n + Reward
<1>1. Reward \in Nat
  BY WalletAssumption
<1>2. PICK k \in Nat : n = m + k
  <2>1. n - m \in Nat /\ n = m + (n - m)
    OBVIOUS
  <2>2. QED BY <2>1
<1>3. Reward * m \in Nat /\ Reward * n \in Nat /\ Reward * k \in Nat
  BY <1>1
<1>4. Reward * n = Reward * m + Reward * k
  BY <1>1, <1>2
<1>5. Reward * (n + 1) = Reward * n + Reward
  BY <1>1
<1>6. QED BY <1>3, <1>4, <1>5

\* Requests that end, and withdrawals that stay used, leave the room they had.
LEMMA RoomKept ==
  ASSUME WInv, Withdrawing' \subseteq Withdrawing, Unused' = Unused,
         \A w \in Owners : Rewarding(w)' \subseteq Rewarding(w), earned' = earned
  PROVE  RoomLeft'
<1>1. RoomLeft /\ MaxEarned \in Nat /\ earned \in [Owners -> Nat]
  BY WalletAssumption DEF WInv, RowTypes
<1>2. IsFiniteSet(Withdrawing) /\ IsFiniteSet(Unused)
  BY DesksFinite, PayoutsFinite DEF Withdrawing, Unused
<1>3. /\ Cardinality(Withdrawing') <= Cardinality(Withdrawing)
      /\ Cardinality(Withdrawing') \in Nat /\ Cardinality(Withdrawing) \in Nat
      /\ Cardinality(Unused) \in Nat
  BY <1>2, FS_Subset, FS_CardinalityType
<1>4. Cardinality(Withdrawing') <= Cardinality(Unused')
  BY <1>1, <1>3 DEF RoomLeft
<1>5. ASSUME NEW w \in Owners
      PROVE  earned'[w] + Reward * Cardinality(Rewarding(w)') <= MaxEarned
  <2>1. IsFiniteSet(Rewarding(w)) /\ Rewarding(w)' \subseteq Rewarding(w)
    BY DesksFinite DEF Rewarding
  <2>2. /\ Cardinality(Rewarding(w)') <= Cardinality(Rewarding(w))
        /\ Cardinality(Rewarding(w)') \in Nat /\ Cardinality(Rewarding(w)) \in Nat
    BY <2>1, FS_Subset, FS_CardinalityType
  <2>3. PICK i, j, k : i = earned[w] /\ j = Reward * Cardinality(Rewarding(w)')
                       /\ k = Reward * Cardinality(Rewarding(w))
    OBVIOUS
  <2>4. i \in Nat /\ j \in Nat /\ k \in Nat /\ j <= k
    BY <1>1, <2>2, <2>3, RewardTimes
  <2>5. i + k <= MaxEarned
    BY <1>1, <2>3 DEF RoomLeft
  <2>6. i + j <= MaxEarned
    BY <1>1, <2>4, <2>5
  <2>7. QED BY <2>3, <2>6
<1>6. QED BY <1>4, <1>5 DEF RoomLeft

-----------------------------------------------------------------------------
(* The steps that only read *)

Rows == <<purse, payout, booked, earned, unbooked, clashed>>

LEMMA ReadStep ==
  ASSUME WInv, NEW s \in Desks, NEW r \in DeskRow,
         desk' = [desk EXCEPT ![s] = r], UNCHANGED Rows,
         Sound(r, payout), Fresh(r, purse, payout, clashed), RoomLeft'
  PROVE  WInv'
<1>1. RowTypes'
  BY DEF WInv, RowTypes, Rows
<1>2. RequestsSound'
  BY DeskStep DEF Rows
<1>3. \A d \in Payouts : Owned(payout'[d])
  BY DEF WInv, Rows
<1>4. ASSUME NEW w \in Owners \ clashed' PROVE Conserved(w)'
  BY <1>4 DEF WInv, Rows, Conserved
<1>5. QED BY <1>1, <1>2, <1>3, <1>4 DEF WInv

\* A request that is neither a new withdrawal nor a new reward needs no room of its own.
LEMMA ReadKeepsRoom ==
  ASSUME WInv, NEW s \in Desks, NEW r \in DeskRow,
         desk' = [desk EXCEPT ![s] = r], UNCHANGED Rows,
         r.kind \in {"asking", "holding"} => desk[s].kind \in {"asking", "holding"},
         r.kind # "rewarding"
  PROVE  RoomLeft'
<1>1. desk \in [Desks -> DeskRow]
  BY DEF WInv, RowTypes
<1>2. \A o \in Desks : desk'[o] = IF o = s THEN r ELSE desk[o]
  BY <1>1
<1>3. Withdrawing' \subseteq Withdrawing
  BY <1>2 DEF Withdrawing
<1>4. \A w \in Owners : Rewarding(w)' \subseteq Rewarding(w)
  BY <1>2 DEF Rewarding
<1>5. Unused' = Unused /\ earned' = earned
  BY DEF Unused, Rows
<1>6. QED BY <1>3, <1>4, <1>5, RoomKept

LEMMA ReadRewardStep ==
  ASSUME WInv, NEW s \in Desks, NEW w \in Owners, ReadReward(s, w)
  PROVE  WInv'
<1>1. PICK r : r = [kind |-> "rewarding", worker |-> w, seen |-> purse[w], rows |-> {},
                    amount |-> Reward]
  OBVIOUS
<1>2. desk' = [desk EXCEPT ![s] = r] /\ UNCHANGED Rows
  BY <1>1 DEF ReadReward, Serve, Rows
<1>3. purse[w] \in PurseRow /\ Reward \in Nat /\ desk \in [Desks -> DeskRow]
  BY WalletAssumption DEF WInv, RowTypes
<1>4. r \in DeskRow
  BY <1>1, <1>3 DEF DeskRow, Funded
<1>5. Sound(r, payout)
  BY <1>1, <1>3, NoRowIsNone DEF Sound, Funded, Decisions
<1>6. Fresh(r, purse, payout, clashed)
  BY <1>1 DEF Fresh
<1>7. \A o \in Desks : desk'[o] = IF o = s THEN r ELSE desk[o]
  BY <1>2, <1>3
<1>8. desk[s].kind = "none"
  BY DEF ReadReward, Vacant, NoRequest
<1>9. Withdrawing' = Withdrawing /\ Unused' = Unused
  BY <1>1, <1>2, <1>7, <1>8 DEF Withdrawing, Unused, Rows
<1>10. \A v \in Owners : v # w => Rewarding(v)' = Rewarding(v)
  BY <1>1, <1>7, <1>8 DEF Rewarding
<1>11. Rewarding(w)' = Rewarding(w) \cup {s} /\ s \notin Rewarding(w)
  BY <1>1, <1>7, <1>8 DEF Rewarding
<1>12. earned[w] + Reward * Cardinality(Rewarding(w)') <= MaxEarned
  <2>1. PICK all : all = {o \in Desks : desk[o].kind = "rewarding"}
    OBVIOUS
  <2>2. earned[w] + Reward * (1 + Cardinality(all)) <= MaxEarned
    BY <2>1 DEF ReadReward
  <2>3. IsFiniteSet(all) /\ Rewarding(w) \subseteq all
    BY <2>1, DesksFinite DEF Rewarding
  <2>4. /\ Cardinality(Rewarding(w)) <= Cardinality(all) /\ Cardinality(all) \in Nat
        /\ IsFiniteSet(Rewarding(w)) /\ Cardinality(Rewarding(w)) \in Nat
    BY <2>3, FS_Subset, FS_CardinalityType
  <2>5. Cardinality(Rewarding(w)') = Cardinality(Rewarding(w)) + 1
    BY <1>11, <2>4, FS_AddElement
  <2>6. PICK c, n, e : c = Cardinality(Rewarding(w)') /\ n = 1 + Cardinality(all) /\ e = earned[w]
    OBVIOUS
  <2>7. c \in Nat /\ n \in Nat /\ c <= n /\ e \in Nat /\ MaxEarned \in Nat
    BY <2>4, <2>5, <2>6, WalletAssumption DEF WInv, RowTypes
  <2>8. PICK i, j : i = Reward * c /\ j = Reward * n
    OBVIOUS
  <2>9. i \in Nat /\ j \in Nat /\ i <= j
    BY <2>7, <2>8, RewardTimes
  <2>10. e + j <= MaxEarned
    BY <2>2, <2>6, <2>8
  <2>11. e + i <= MaxEarned
    BY <2>7, <2>9, <2>10
  <2>12. QED BY <2>6, <2>8, <2>11
<1>13. RoomLeft'
  BY <1>2, <1>9, <1>10, <1>12 DEF WInv, RoomLeft, Rows
<1>14. QED BY <1>2, <1>4, <1>5, <1>6, <1>13, ReadStep

LEMMA ReadWithdrawStep ==
  ASSUME WInv, NEW s \in Desks, NEW w \in Owners, NEW amount \in Amounts, ReadWithdraw(s, w, amount)
  PROVE  WInv'
<1>1. PICK r : r = [kind |-> "asking", worker |-> w, seen |-> purse[w], rows |-> {},
                    amount |-> amount]
  OBVIOUS
<1>2. desk' = [desk EXCEPT ![s] = r] /\ UNCHANGED Rows
  BY <1>1 DEF ReadWithdraw, Serve, Rows
<1>3. purse[w] \in PurseRow /\ amount \in Nat /\ desk \in [Desks -> DeskRow]
  BY WalletAssumption DEF WInv, RowTypes
<1>4. r \in DeskRow
  BY <1>1, <1>3 DEF DeskRow, Funded
<1>5. Sound(r, payout)
  BY <1>1, <1>3, NoRowIsNone DEF Sound, Funded, Decisions
<1>6. Fresh(r, purse, payout, clashed)
  BY <1>1 DEF Fresh
<1>7. \A o \in Desks : desk'[o] = IF o = s THEN r ELSE desk[o]
  BY <1>2, <1>3
<1>8. desk[s].kind = "none"
  BY DEF ReadWithdraw, Vacant, NoRequest
<1>9. Withdrawing' = Withdrawing \cup {s} /\ s \notin Withdrawing /\ Unused' = Unused
  BY <1>1, <1>2, <1>7, <1>8 DEF Withdrawing, Unused, Rows
<1>10. \A v \in Owners : Rewarding(v)' = Rewarding(v)
  BY <1>1, <1>7, <1>8 DEF Rewarding
<1>11. IsFiniteSet(Withdrawing) /\ IsFiniteSet(Unused)
  BY DesksFinite, PayoutsFinite DEF Withdrawing, Unused
<1>12. Cardinality(Withdrawing') = Cardinality(Withdrawing) + 1
  BY <1>9, <1>11, FS_AddElement
<1>13. Cardinality(Withdrawing) \in Nat /\ Cardinality(Unused) \in Nat
  BY <1>11, FS_CardinalityType
<1>14. Cardinality(Unused) > Cardinality(Withdrawing)
  BY DEF ReadWithdraw, Withdrawing
<1>15. Cardinality(Withdrawing') <= Cardinality(Unused')
  BY <1>9, <1>12, <1>13, <1>14
<1>16. RoomLeft'
  BY <1>2, <1>10, <1>15 DEF WInv, RoomLeft, Rows
<1>17. QED BY <1>2, <1>4, <1>5, <1>6, <1>16, ReadStep

LEMMA CheckFundsStep ==
  ASSUME WInv, NEW s \in Desks, CheckFunds(s)
  PROVE  WInv'
<1>1. PICK r \in DeskRow : r = desk[s] /\ Sound(r, payout) /\ Fresh(r, purse, payout, clashed)
  BY DEF WInv, RowTypes, RequestsSound
<1>2. r.kind = "asking" /\ r.rows = {} /\ r.worker \in Owners /\ r.seen # NoRow /\ r.amount \in Amounts
  BY <1>1 DEF CheckFunds, Sound, Funded
<1>3. UNCHANGED Rows
  BY DEF CheckFunds, Rows
<1>4. CASE r.amount <= Available(r.worker, r.seen) /\ Serve(s, [r EXCEPT !.kind = "holding"])
  <2>1. PICK q : q = [r EXCEPT !.kind = "holding"]
    OBVIOUS
  <2>2. /\ q.kind = "holding" /\ q.worker = r.worker /\ q.seen = r.seen /\ q.rows = {}
        /\ q.amount = r.amount /\ q \in DeskRow
    BY <1>2, <2>1 DEF DeskRow, Funded
  <2>3. desk' = [desk EXCEPT ![s] = q]
    BY <1>4, <2>1 DEF Serve
  <2>4. PICK held : held = SumIn(payout, PendingOf(r.worker))
    OBVIOUS
  <2>5. held \in Nat
    BY <2>4, SumInType DEF WInv, RowTypes, PendingOf
  <2>6. r.seen.balance \in Nat /\ r.amount \in Nat
    BY <1>2, WalletAssumption DEF DeskRow, PurseRow
  <2>7. r.amount <= r.seen.balance - held
    BY <1>4, <2>4, SumOfIsSumIn DEF Available
  <2>8. r.amount <= r.seen.balance
    BY <2>5, <2>6, <2>7
  <2>9. Sound(q, payout)
    BY <1>2, <2>2, <2>8 DEF Sound, Funded, Decisions
  <2>10. Fresh(q, purse, payout, clashed)
    BY <1>1, <1>2, <2>2 DEF Fresh
  <2>11. RoomLeft'
    BY <1>1, <1>2, <1>3, <2>2, <2>3, ReadKeepsRoom
  <2>12. QED BY <1>3, <2>2, <2>3, <2>9, <2>10, <2>11, ReadStep
<1>5. CASE Finish(s)
  <2>1. desk' = [desk EXCEPT ![s] = NoRequest]
    BY <1>5 DEF Finish
  <2>2. NoRequest.kind = "none"
    BY DEF NoRequest
  <2>3. RoomLeft'
    BY <1>3, <2>1, <2>2, ClosedRow, ReadKeepsRoom
  <2>4. QED BY <1>3, <2>1, <2>3, ClosedRow, ClosedIsSound, ReadStep
<1>6. QED BY <1>1, <1>4, <1>5 DEF CheckFunds

LEMMA ReadPayoutStep ==
  ASSUME WInv, NEW s \in Desks, NEW d \in Payouts, NEW kind \in Decisions, ReadPayout(s, d, kind)
  PROVE  WInv'
<1>1. PICK r : r = [kind |-> kind, worker |-> payout[d].owner, seen |-> NoRow, rows |-> {d},
                    amount |-> payout[d].amount]
  OBVIOUS
<1>2. desk' = [desk EXCEPT ![s] = r] /\ UNCHANGED Rows
  BY <1>1 DEF ReadPayout, Serve, Rows
<1>3. payout \in [Payouts -> PayoutRow] /\ payout[d] \in PayoutRow /\ payout[d].status # "none"
  BY DEF WInv, RowTypes, ReadPayout, Needs
<1>4. payout[d].owner \in Owners
  BY <1>3 DEF WInv, Owned
<1>5. payout[d].amount \in Nat
  BY <1>3, AmountsAreNat
<1>6. r \in DeskRow
  BY <1>1, <1>3, <1>4, <1>5 DEF DeskRow
<1>7. r.amount = SumIn(payout, r.rows)
  BY <1>1, <1>3, SumInOne
<1>8. Sound(r, payout)
  BY <1>1, <1>4, <1>7 DEF Sound, Funded, Decisions
<1>9. Fresh(r, purse, payout, clashed)
  BY <1>1 DEF Fresh, ReadPayout
<1>10. RoomLeft'
  BY <1>1, <1>2, <1>6, ReadKeepsRoom DEF Decisions
<1>11. QED BY <1>2, <1>6, <1>8, <1>9, <1>10, ReadStep

LEMMA ReadOwnerStep ==
  ASSUME WInv, NEW s \in Desks, ReadOwner(s)
  PROVE  WInv'
<1>1. PICK r \in DeskRow : r = desk[s] /\ Sound(r, payout) /\ Fresh(r, purse, payout, clashed)
  BY DEF WInv, RowTypes, RequestsSound
<1>2. r.kind \in {"rejecting", "cancelling"} /\ r.worker \in Owners
  BY <1>1 DEF ReadOwner, Sound
<1>3. PICK q : q = [r EXCEPT !.seen = purse[r.worker]]
  OBVIOUS
<1>4. purse[r.worker] \in PurseRow
  BY <1>2 DEF WInv, RowTypes
<1>5. /\ q.kind = r.kind /\ q.worker = r.worker /\ q.seen = purse[r.worker] /\ q.rows = r.rows
      /\ q.amount = r.amount /\ q \in DeskRow
  BY <1>3, <1>4 DEF DeskRow
<1>6. desk' = [desk EXCEPT ![s] = q] /\ UNCHANGED Rows
  BY <1>1, <1>3 DEF ReadOwner, Serve, Rows
<1>7. Sound(q, payout)
  BY <1>1, <1>2, <1>5 DEF Sound, Funded, Decisions
<1>8. Fresh(q, purse, payout, clashed)
  BY <1>1, <1>5 DEF Fresh
<1>9. RoomLeft'
  BY <1>2, <1>5, <1>6, ReadKeepsRoom
<1>10. QED BY <1>5, <1>6, <1>7, <1>8, <1>9, ReadStep

LEMMA ReadBannedStep ==
  ASSUME WInv, NEW s \in Desks, NEW w \in Owners, ReadBanned(s, w)
  PROVE  WInv'
<1>1. PICK r : r = [kind |-> "closing", worker |-> w, seen |-> purse[w], rows |-> {}, amount |-> 0]
  OBVIOUS
<1>2. desk' = [desk EXCEPT ![s] = r] /\ UNCHANGED Rows
  BY <1>1 DEF ReadBanned, Serve, Rows
<1>3. purse[w] \in PurseRow
  BY DEF WInv, RowTypes
<1>4. r \in DeskRow
  BY <1>1, <1>3 DEF DeskRow, Funded
<1>5. Sound(r, payout)
  BY <1>1, <1>3, NoRowIsNone DEF Sound, Funded, Decisions
<1>6. Fresh(r, purse, payout, clashed)
  BY <1>1 DEF Fresh
<1>7. RoomLeft'
  BY <1>1, <1>2, <1>4, ReadKeepsRoom
<1>8. QED BY <1>2, <1>4, <1>5, <1>6, <1>7, ReadStep

LEMMA ListPendingStep ==
  ASSUME WInv, NEW s \in Desks, ListPending(s)
  PROVE  WInv'
<1>1. PICK r \in DeskRow : r = desk[s] /\ Sound(r, payout) /\ Fresh(r, purse, payout, clashed)
  BY DEF WInv, RowTypes, RequestsSound
<1>2. r.kind = "closing" /\ r.worker \in Owners /\ r.seen # NoRow
  BY <1>1 DEF ListPending, Sound, Funded
<1>3. PICK listed, held : listed = PendingOf(r.worker) /\ held = SumIn(payout, listed)
  OBVIOUS
<1>4. listed \in SUBSET Payouts
  BY <1>3 DEF PendingOf
<1>5. held \in Nat
  BY <1>3, <1>4, SumInType DEF WInv, RowTypes
<1>6. PICK q : q = [r EXCEPT !.kind = "banning", !.rows = listed, !.amount = held]
  OBVIOUS
<1>7. /\ q.kind = "banning" /\ q.worker = r.worker /\ q.seen = r.seen /\ q.rows = listed
      /\ q.amount = held /\ q \in DeskRow
  BY <1>4, <1>5, <1>6 DEF DeskRow, Funded
<1>8. desk' = [desk EXCEPT ![s] = q] /\ UNCHANGED Rows
  BY <1>1, <1>3, <1>6, SumOfIsSumIn DEF ListPending, Serve, Rows
<1>9. Sound(q, payout)
  BY <1>2, <1>3, <1>7 DEF Sound, Funded, Decisions, PendingOf
<1>10. Fresh(q, purse, payout, clashed)
  BY <1>1, <1>3, <1>7 DEF Fresh, PendingOf, Needs
<1>11. RoomLeft'
  BY <1>7, <1>8, ReadKeepsRoom
<1>12. QED BY <1>7, <1>8, <1>9, <1>10, <1>11, ReadStep

-----------------------------------------------------------------------------
(* The steps that commit *)

\* A commit about worker w leaves the money of every other worker alone.
LEMMA MoneyOfOthers ==
  ASSUME WInv, NEW s \in Desks, NEW w \in Owners, NEW wrote \in BOOLEAN, NEW rows \in SUBSET Payouts,
         Commits(s, w, wrote, rows),
         \A d \in Payouts : \/ payout'[d] = payout[d]
                            \/ payout[d].owner \in {w, NoRow} /\ payout'[d].owner = w,
         NEW v \in Owners \ clashed', v # w,
         booked'[v] = booked[v], earned'[v] = earned[v], unbooked'[v] = unbooked[v]
  PROVE  Conserved(v)'
<1>1. v \notin clashed
  BY DEF Commits, NoteClash
<1>2. /\ earned[v] = purse[v].balance + SumIn(payout, ClaimsIn(payout, v))
      /\ purse[v].balance = booked[v] + unbooked[v]
  BY <1>1 DEF WInv, Conserved
<1>3. purse'[v].balance = purse[v].balance
  BY DEF Commits
<1>4. PICK mine, new : mine = ClaimsIn(payout, v) /\ new = payout'
  OBVIOUS
<1>5. ClaimsIn(new, v) = mine /\ \A d \in mine : new[d].amount = payout[d].amount
  BY <1>4, NoRowIsNone DEF ClaimsIn
<1>6. mine \in SUBSET Payouts
  BY <1>4 DEF ClaimsIn
<1>7. SumIn(new, mine) = SumIn(payout, mine)
  BY <1>5, <1>6, SumInSame
<1>8. earned'[v] = purse'[v].balance + SumIn(payout', ClaimsIn(payout', v))
  BY <1>2, <1>3, <1>4, <1>5, <1>7
<1>9. purse'[v].balance = booked'[v] + unbooked'[v]
  BY <1>2, <1>3
<1>10. QED BY <1>8, <1>9 DEF Conserved

\* A commit that requests no withdrawal uses none up, and ends no withdrawal request.
LEMMA CommitKeepsRoom ==
  ASSUME WInv, NEW s \in Desks, desk' = [desk EXCEPT ![s] = NoRequest], earned' = earned,
         \A d \in Payouts : payout'[d].status = "none" <=> payout[d].status = "none"
  PROVE  RoomLeft'
<1>1. desk \in [Desks -> DeskRow]
  BY DEF WInv, RowTypes
<1>2. NoRequest.kind = "none"
  BY DEF NoRequest
<1>3. \A o \in Desks : desk'[o].kind = IF o = s THEN "none" ELSE desk[o].kind
  BY <1>1, <1>2
<1>4. \A o \in Desks : o # s => desk'[o] = desk[o]
  BY <1>1
<1>5. Withdrawing' \subseteq Withdrawing
  BY <1>3 DEF Withdrawing
<1>6. \A w \in Owners : Rewarding(w)' \subseteq Rewarding(w)
  BY <1>3, <1>4 DEF Rewarding
<1>7. Unused' = Unused
  BY DEF Unused
<1>8. QED BY <1>5, <1>6, <1>7, RoomKept

\* What the open request of a commit knows.
LEMMA AtCommit ==
  ASSUME WInv, NEW s \in Desks, NEW r, r = desk[s], r.kind # "none"
  PROVE  /\ r \in DeskRow /\ r.worker \in Owners /\ r.rows \in SUBSET Payouts
         /\ Sound(r, payout) /\ Fresh(r, purse, payout, clashed)
         /\ \A d \in r.rows : payout[d].owner = r.worker /\ payout[d].status # "none"
         /\ r.seen # NoRow => r.seen.balance \in Nat
         /\ purse \in [Owners -> PurseRow] /\ purse[r.worker] \in PurseRow
         /\ purse[r.worker].balance \in Nat
         /\ payout \in [Payouts -> PayoutRow]
<1>1. r \in DeskRow /\ Sound(r, payout) /\ Fresh(r, purse, payout, clashed)
  BY DEF WInv, RowTypes, RequestsSound
<1>2. r.worker \in Owners /\ r.rows \in SUBSET Payouts
  BY <1>1 DEF Sound, DeskRow
<1>3. r.seen # NoRow => r.seen.balance \in Nat
  BY <1>1 DEF DeskRow, PurseRow
<1>4. /\ purse \in [Owners -> PurseRow] /\ purse[r.worker] \in PurseRow
      /\ purse[r.worker].balance \in Nat /\ payout \in [Payouts -> PayoutRow]
  BY <1>2 DEF WInv, RowTypes, PurseRow
<1>5. \A d \in r.rows : payout[d].owner = r.worker /\ payout[d].status # "none"
  BY RowsAreUsed
<1>6. QED BY <1>1, <1>2, <1>3, <1>4, <1>5

\* What a commit finds when nothing about its worker has clashed until it.
LEMMA FreshAtCommit ==
  ASSUME WInv, NEW s \in Desks, NEW r, r = desk[s], r.kind # "none", r.worker \notin clashed
  PROVE  /\ r.seen # NoRow => r.seen.balance = purse[r.worker].balance
         /\ \A d \in r.rows : payout[d].status \in Needs(r.kind)
         /\ Conserved(r.worker)
<1>1. r.worker \in Owners \ clashed /\ Fresh(r, purse, payout, clashed)
  BY AtCommit
<1>2. QED BY <1>1 DEF Fresh, WInv

LEMMA BookedRows ==
  ASSUME WInv, NEW w \in Owners, NEW row, NEW amount \in Int, row.balance + amount \in Nat,
         Book(w, row, amount)
  PROVE  /\ purse' \in [Owners -> PurseRow] /\ booked' \in [Owners -> Int]
         /\ \A v \in Owners : v # w => purse'[v] = purse[v] /\ booked'[v] = booked[v]
         /\ purse'[w].balance = row.balance + amount
         /\ booked'[w] = booked[w] + amount
<1>1. purse \in [Owners -> PurseRow] /\ booked \in [Owners -> Int]
  BY DEF WInv, RowTypes
<1>2. PICK new : new = [purse[w] EXCEPT !.balance = row.balance + amount]
  OBVIOUS
<1>3. purse[w] \in PurseRow
  BY <1>1
<1>4. new \in PurseRow /\ new.balance = row.balance + amount
  BY <1>2, <1>3 DEF PurseRow
<1>5. purse' = [purse EXCEPT ![w] = new]
  BY <1>2 DEF Book
<1>6. booked' = [booked EXCEPT ![w] = booked[w] + amount]
  BY DEF Book
<1>7. booked[w] + amount \in Int
  BY <1>1
<1>8. QED BY <1>1, <1>4, <1>5, <1>6, <1>7

LEMMA CommitRewardStep ==
  ASSUME WInv, NEW s \in Desks, CommitReward(s)
  PROVE  WInv'
<1>1. PICK r : r = desk[s]
  OBVIOUS
<1>2. r.kind = "rewarding"
  BY <1>1 DEF CommitReward
<1>3. PICK w : w = r.worker
  OBVIOUS
<1>4. /\ w \in Owners /\ r.seen # NoRow /\ r.amount = Reward /\ r.rows = {}
      /\ r.seen.balance \in Nat /\ Reward \in Nat
  BY <1>1, <1>2, <1>3, AtCommit, WalletAssumption DEF Sound, Funded
<1>5. /\ purse' \in [Owners -> PurseRow] /\ booked' \in [Owners -> Int]
      /\ \A v \in Owners : v # w => purse'[v] = purse[v] /\ booked'[v] = booked[v]
      /\ purse'[w].balance = r.seen.balance + Reward
      /\ booked'[w] = booked[w] + Reward
  <2>1. Book(w, r.seen, Reward)
    BY <1>1, <1>3, <1>4 DEF CommitReward
  <2>2. r.seen.balance + Reward \in Nat /\ Reward \in Int
    BY <1>4
  <2>3. QED BY <1>4, <2>1, <2>2, BookedRows
<1>6. payout' = payout /\ unbooked' = unbooked /\ desk' = [desk EXCEPT ![s] = NoRequest]
  BY DEF CommitReward, Finish
<1>7. earned \in [Owners -> Nat] /\ earned' = [earned EXCEPT ![w] = earned[w] + Reward]
  BY <1>1, <1>3, <1>4 DEF CommitReward, WInv, RowTypes
<1>8. /\ earned' \in [Owners -> Nat] /\ earned'[w] = earned[w] + Reward
      /\ \A v \in Owners : v # w => earned'[v] = earned[v]
  <2>1. earned[w] + Reward \in Nat
    BY <1>4, <1>7
  <2>2. QED BY <1>4, <1>7, <2>1
<1>9. Commits(s, w, TRUE, {})
  BY <1>1, <1>3, <1>5, <1>6 DEF Commits, CommitReward
<1>10. RowTypes'
  <2>1. desk' \in [Desks -> DeskRow]
    BY <1>6, ClosedRow DEF WInv, RowTypes
  <2>2. clashed' \in SUBSET Owners
    BY <1>4, <1>9 DEF Commits, NoteClash, WInv, RowTypes
  <2>3. payout' \in [Payouts -> PayoutRow] /\ unbooked' \in [Owners -> Nat]
    BY <1>6 DEF WInv, RowTypes
  <2>4. QED BY <1>5, <1>8, <2>1, <2>2, <2>3 DEF RowTypes
<1>11. \A d \in Payouts : Owned(payout'[d])
  BY <1>6 DEF WInv
<1>12. RequestsSound'
  BY <1>4, <1>9, CommitStep
<1>13. RoomLeft'
  <2>1. desk \in [Desks -> DeskRow] /\ NoRequest.kind = "none"
    BY DEF WInv, RowTypes, NoRequest
  <2>2. \A o \in Desks : desk'[o] = IF o = s THEN NoRequest ELSE desk[o]
    BY <1>6, <2>1
  <2>3. Withdrawing' = Withdrawing /\ Unused' = Unused
    BY <1>1, <1>2, <1>6, <2>1, <2>2 DEF Withdrawing, Unused
  <2>4. \A v \in Owners : v # w => Rewarding(v)' = Rewarding(v)
    BY <1>1, <1>2, <1>3, <2>1, <2>2 DEF Rewarding
  <2>5. Rewarding(w)' = Rewarding(w) \ {s} /\ s \in Rewarding(w)
    BY <1>1, <1>2, <1>3, <2>1, <2>2 DEF Rewarding
  <2>6. IsFiniteSet(Rewarding(w))
    BY DesksFinite DEF Rewarding
  <2>7. PICK m, n : m = Cardinality(Rewarding(w)') /\ n = Cardinality(Rewarding(w))
    OBVIOUS
  <2>8. m \in Nat /\ n = m + 1
    <3>1. PICK all : all = Rewarding(w)
      OBVIOUS
    <3>2. IsFiniteSet(all) /\ s \in all /\ m = Cardinality(all \ {s}) /\ n = Cardinality(all)
      BY <2>5, <2>6, <2>7, <3>1
    <3>3. IsFiniteSet(all \ {s}) /\ n \in Nat /\ m = n - 1
      BY <3>2, WithoutOne
    <3>4. m \in Nat
      BY <3>2, <3>3, FS_CardinalityType
    <3>5. QED BY <3>3, <3>4
  <2>9. PICK i, j, e : i = Reward * m /\ j = Reward * n /\ e = earned[w]
    OBVIOUS
  <2>10. i \in Nat /\ j = i + Reward /\ e \in Nat
    <3>1. Reward * m \in Nat /\ Reward * (m + 1) = Reward * m + Reward
      <4>1. m <= m
        BY <2>8
      <4>2. QED BY <2>8, <4>1, RewardTimes
    <3>2. e \in Nat
      BY <1>4, <1>7, <2>9
    <3>3. QED BY <2>8, <2>9, <3>1, <3>2
  <2>11. e + j <= MaxEarned
    BY <1>4, <2>7, <2>9 DEF WInv, RoomLeft
  <2>12. (e + Reward) + i <= MaxEarned
    BY <1>4, <2>10, <2>11, WalletAssumption
  <2>13. earned'[w] + Reward * Cardinality(Rewarding(w)') <= MaxEarned
    BY <1>8, <2>7, <2>9, <2>12
  <2>14. QED BY <1>8, <2>3, <2>4, <2>13 DEF WInv, RoomLeft
<1>14. ASSUME NEW v \in Owners \ clashed' PROVE Conserved(v)'
  <2>1. CASE v # w
    BY <1>4, <1>5, <1>6, <1>8, <1>9, <1>14, <2>1, MoneyOfOthers
  <2>2. CASE v = w
    <3>1. w \notin clashed
      BY <1>9, <1>14, <2>2 DEF Commits, NoteClash
    <3>2. /\ r.seen.balance = purse[w].balance
          /\ earned[w] = purse[w].balance + SumIn(payout, ClaimsIn(payout, w))
          /\ purse[w].balance = booked[w] + unbooked[w]
      BY <1>1, <1>2, <1>3, <1>4, <3>1, FreshAtCommit DEF Conserved
    <3>3. PICK held : held = SumIn(payout, ClaimsIn(payout, w))
      OBVIOUS
    <3>4. held \in Nat /\ booked[w] \in Int /\ unbooked[w] \in Int /\ purse[w].balance \in Nat
      BY <1>1, <1>2, <1>3, <1>4, <3>3, AtCommit, SumInType DEF WInv, RowTypes, ClaimsIn
    <3>5. purse'[w].balance = purse[w].balance + Reward
      BY <1>5, <3>2
    <3>6. earned'[w] = purse'[w].balance + held
      BY <1>4, <1>8, <3>2, <3>3, <3>4, <3>5
    <3>7. purse'[w].balance = booked'[w] + unbooked'[w]
      BY <1>4, <1>5, <1>6, <3>2, <3>4, <3>5
    <3>8. QED BY <1>6, <2>2, <3>3, <3>6, <3>7 DEF Conserved
  <2>3. QED BY <2>1, <2>2
<1>15. QED BY <1>10, <1>11, <1>12, <1>13, <1>14 DEF WInv

\* A withdrawal that is requested moves its amount from the balance to the claims.
LEMMA CommitHoldStep ==
  ASSUME WInv, NEW s \in Desks, CommitHold(s)
  PROVE  WInv'
<1>1. PICK r : r = desk[s]
  OBVIOUS
<1>2. r.kind = "holding"
  BY <1>1 DEF CommitHold
<1>3. PICK w, amount : w = r.worker /\ amount = r.amount
  OBVIOUS
<1>4. /\ w \in Owners /\ r.seen # NoRow /\ amount \in Amounts /\ amount \in Nat /\ r.rows = {}
      /\ r.seen.balance \in Nat /\ amount <= r.seen.balance
      /\ purse[w].balance \in Nat /\ payout \in [Payouts -> PayoutRow]
  BY <1>1, <1>2, <1>3, AtCommit, WalletAssumption DEF Sound, Funded
<1>5. PICK d : d = CHOOSE x \in Unused : TRUE
  OBVIOUS
<1>6. s \in Withdrawing /\ IsFiniteSet(Withdrawing) /\ IsFiniteSet(Unused)
  BY <1>1, <1>2, DesksFinite, PayoutsFinite DEF Withdrawing, Unused
<1>7. PICK before, free : before = Withdrawing /\ free = Unused
  OBVIOUS
<1>8. /\ IsFiniteSet(before \ {s}) /\ Cardinality(before) \in Nat
      /\ Cardinality(before \ {s}) = Cardinality(before) - 1
      /\ Cardinality(before \ {s}) \in Nat
  BY <1>6, <1>7, WithoutOne, FS_CardinalityType
<1>9. Cardinality(before) <= Cardinality(free) /\ IsFiniteSet(free) /\ Cardinality(free) \in Nat
  BY <1>6, <1>7, FS_CardinalityType DEF WInv, RoomLeft
<1>10. free # {}
  BY <1>8, <1>9, FS_EmptySet
<1>11. d \in free /\ d \in Payouts /\ payout[d].status = "none" /\ payout[d].owner = NoRow
  <2>1. d \in Unused
    BY <1>5, <1>7, <1>10
  <2>2. d \in Payouts /\ payout[d].status = "none"
    BY <2>1 DEF Unused
  <2>3. QED BY <1>7, <2>1, <2>2 DEF WInv, Owned
<1>12. PICK row : row = [owner |-> w, amount |-> amount, status |-> "pending"]
  OBVIOUS
<1>13. row \in PayoutRow
  BY <1>4, <1>12 DEF PayoutRow
<1>14. payout' = [payout EXCEPT ![d] = row]
  BY <1>1, <1>3, <1>5, <1>12 DEF CommitHold
<1>15. /\ payout' \in [Payouts -> PayoutRow] /\ payout'[d] = row
       /\ \A e \in Payouts : e # d => payout'[e] = payout[e]
  BY <1>4, <1>11, <1>13, <1>14
<1>16. /\ purse' \in [Owners -> PurseRow] /\ booked' \in [Owners -> Int]
       /\ \A v \in Owners : v # w => purse'[v] = purse[v] /\ booked'[v] = booked[v]
       /\ purse'[w].balance = r.seen.balance + (-amount)
       /\ booked'[w] = booked[w] + (-amount)
  <2>1. Book(w, r.seen, -amount)
    BY <1>1, <1>3 DEF CommitHold
  <2>2. r.seen.balance + (-amount) \in Nat /\ -amount \in Int
    BY <1>4
  <2>3. PICK less : less = -amount
    OBVIOUS
  <2>4. QED BY <1>4, <2>1, <2>2, <2>3, BookedRows
<1>17. earned' = earned /\ unbooked' = unbooked /\ desk' = [desk EXCEPT ![s] = NoRequest]
  BY DEF CommitHold, Finish
<1>18. Commits(s, w, TRUE, {})
  BY <1>1, <1>3, <1>11, <1>15, <1>16, <1>17 DEF Commits, CommitHold
<1>19. RowTypes'
  <2>1. desk' \in [Desks -> DeskRow]
    BY <1>17, ClosedRow DEF WInv, RowTypes
  <2>2. clashed' \in SUBSET Owners
    BY <1>4, <1>18 DEF Commits, NoteClash, WInv, RowTypes
  <2>3. earned' \in [Owners -> Nat] /\ unbooked' \in [Owners -> Nat]
    BY <1>17 DEF WInv, RowTypes
  <2>4. QED BY <1>15, <1>16, <2>1, <2>2, <2>3 DEF RowTypes
<1>20. ASSUME NEW e \in Payouts PROVE Owned(payout'[e])
  <2>1. CASE e = d
    BY <1>4, <1>12, <1>15, <2>1 DEF Owned
  <2>2. CASE e # d
    BY <1>15, <2>2 DEF WInv
  <2>3. QED BY <2>1, <2>2
<1>21. RequestsSound'
  BY <1>4, <1>18, CommitStep
<1>22. RoomLeft'
  <2>1. desk \in [Desks -> DeskRow] /\ NoRequest.kind = "none"
    BY DEF WInv, RowTypes, NoRequest
  <2>2. \A o \in Desks : desk'[o] = IF o = s THEN NoRequest ELSE desk[o]
    BY <1>17, <2>1
  <2>3. Withdrawing' = before \ {s}
    BY <1>7, <2>1, <2>2 DEF Withdrawing
  <2>4. Unused' = free \ {d}
    BY <1>7, <1>12, <1>15 DEF Unused
  <2>5. Cardinality(free \ {d}) = Cardinality(free) - 1 /\ Cardinality(free \ {d}) \in Nat
    BY <1>9, <1>11, WithoutOne, FS_CardinalityType
  <2>6. Cardinality(Withdrawing') <= Cardinality(Unused')
    BY <1>8, <1>9, <2>3, <2>4, <2>5
  <2>7. \A v \in Owners : Rewarding(v)' = Rewarding(v)
    BY <1>1, <1>2, <2>1, <2>2 DEF Rewarding
  <2>8. QED BY <1>17, <2>6, <2>7 DEF WInv, RoomLeft
<1>23. ASSUME NEW v \in Owners \ clashed' PROVE Conserved(v)'
  <2>1. CASE v # w
    <3>1. \A e \in Payouts : \/ payout'[e] = payout[e]
                             \/ payout[e].owner \in {w, NoRow} /\ payout'[e].owner = w
      BY <1>11, <1>12, <1>15
    <3>2. booked'[v] = booked[v] /\ earned'[v] = earned[v] /\ unbooked'[v] = unbooked[v]
      BY <1>16, <1>17, <1>23, <2>1
    <3>3. QED BY <1>4, <1>18, <1>23, <2>1, <3>1, <3>2, MoneyOfOthers
  <2>2. CASE v = w
    <3>1. w \notin clashed
      BY <1>18, <1>23, <2>2 DEF Commits, NoteClash
    <3>2. /\ r.seen.balance = purse[w].balance
          /\ earned[w] = purse[w].balance + SumIn(payout, ClaimsIn(payout, w))
          /\ purse[w].balance = booked[w] + unbooked[w]
      BY <1>1, <1>2, <1>3, <1>4, <3>1, FreshAtCommit DEF Conserved
    <3>3. PICK mine, new : mine = ClaimsIn(payout, w) /\ new = payout'
      OBVIOUS
    <3>4. mine \in SUBSET Payouts /\ d \notin mine
      BY <1>11, <3>3 DEF ClaimsIn
    <3>5. ClaimsIn(new, w) = mine \cup {d}
      BY <1>11, <1>12, <1>15, <3>3 DEF ClaimsIn
    <3>6. PICK held : held = SumIn(payout, mine)
      OBVIOUS
    <3>7. held \in Nat /\ booked[w] \in Int /\ unbooked[w] \in Int
      BY <1>4, <3>4, <3>6, SumInType DEF WInv, RowTypes
    <3>8. SumIn(new, mine) = held
      <4>1. \A e \in mine : new[e].amount = payout[e].amount
        BY <1>15, <3>3, <3>4
      <4>2. QED BY <3>4, <3>6, <4>1, SumInSame
    <3>9. SumIn(new, mine \cup {d}) = new[d].amount + held
      BY <1>11, <1>15, <3>3, <3>4, <3>8, SumInWith
    <3>10. SumIn(new, ClaimsIn(new, w)) = amount + held
      BY <1>12, <1>15, <3>3, <3>5, <3>9
    <3>11. purse'[w].balance = purse[w].balance + (-amount)
      BY <1>16, <3>2
    <3>12. earned'[w] = purse'[w].balance + (amount + held)
      BY <1>4, <1>17, <3>2, <3>3, <3>6, <3>7, <3>11
    <3>13. purse'[w].balance = booked'[w] + unbooked'[w]
      BY <1>4, <1>16, <1>17, <3>2, <3>7
    <3>14. QED BY <2>2, <3>3, <3>10, <3>12, <3>13 DEF Conserved
  <2>3. QED BY <2>1, <2>2
<1>24. QED BY <1>19, <1>20, <1>21, <1>22, <1>23 DEF WInv

-----------------------------------------------------------------------------
(* Decisions about withdrawals *)

Statuses == {"none", "pending", "approved", "rejected", "paid", "cancelled"}

\* Setting the status of a worker's withdrawals.
LEMMA StatusSet ==
  ASSUME WInv, NEW w \in Owners, NEW rows \in SUBSET Payouts, NEW status \in Statuses \ {"none"},
         \A d \in rows : payout[d].owner = w /\ payout[d].status # "none", SetStatus(rows, status)
  PROVE  /\ payout' \in [Payouts -> PayoutRow]
         /\ \A d \in Payouts : /\ payout'[d].owner = payout[d].owner
                               /\ payout'[d].amount = payout[d].amount
                               /\ payout'[d].status = IF d \in rows THEN status ELSE payout[d].status
                               /\ d \notin rows => payout'[d] = payout[d]
                               /\ Owned(payout'[d])
<1>1. payout \in [Payouts -> PayoutRow]
  BY DEF WInv, RowTypes
<1>2. \A d \in Payouts : payout'[d] = IF d \in rows THEN [payout[d] EXCEPT !.status = status] ELSE payout[d]
  BY DEF SetStatus
<1>3. ASSUME NEW d \in Payouts
      PROVE  /\ payout'[d] \in PayoutRow
             /\ payout'[d].owner = payout[d].owner
             /\ payout'[d].amount = payout[d].amount
             /\ payout'[d].status = IF d \in rows THEN status ELSE payout[d].status
             /\ d \notin rows => payout'[d] = payout[d]
  <2>1. payout[d] \in PayoutRow
    BY <1>1
  <2>2. QED BY <1>2, <2>1 DEF PayoutRow, Statuses
<1>4. ASSUME NEW d \in Payouts PROVE Owned(payout'[d])
  <2>1. Owned(payout[d])
    BY DEF WInv
  <2>2. QED BY <1>3, <2>1 DEF Owned
<1>5. payout' \in [Payouts -> PayoutRow]
  <2>1. payout' = [d \in Payouts |-> payout'[d]]
    BY DEF SetStatus
  <2>2. QED BY <1>3, <2>1
<1>6. QED BY <1>3, <1>4, <1>5

\* The rows an operation of kind "approving" to "banning" decides, and what that does to the claims
\* of their owner: statuses that keep the claim leave the sum, the others take the rows out of it.
LEMMA ClaimsAfter ==
  ASSUME NEW table \in [Payouts -> PayoutRow], NEW new \in [Payouts -> PayoutRow],
         NEW w \in Owners, NEW rows \in SUBSET Payouts, NEW status,
         \A d \in rows : table[d].owner = w /\ table[d].status \in {"pending", "approved"},
         \A d \in Payouts : /\ new[d].owner = table[d].owner
                            /\ new[d].amount = table[d].amount
                            /\ new[d].status = IF d \in rows THEN status ELSE table[d].status
  PROVE  /\ SumIn(table, ClaimsIn(table, w)) \in Nat
         /\ SumIn(table, rows) \in Nat
         /\ status \in {"approved", "paid"} =>
              SumIn(new, ClaimsIn(new, w)) = SumIn(table, ClaimsIn(table, w))
         /\ status \in {"rejected", "cancelled"} =>
              /\ SumIn(table, ClaimsIn(table, w)) = SumIn(table, rows) + SumIn(new, ClaimsIn(new, w))
              /\ SumIn(new, ClaimsIn(new, w)) \in Nat
<1>1. PICK mine, left : mine = ClaimsIn(table, w) /\ left = mine \ rows
  OBVIOUS
<1>2. mine \in SUBSET Payouts /\ rows \in SUBSET mine /\ left \in SUBSET Payouts
  BY <1>1 DEF ClaimsIn
<1>3. SumIn(table, mine) \in Nat /\ SumIn(table, rows) \in Nat /\ SumIn(table, left) \in Nat
  BY <1>2, SumInType
<1>4. SumIn(new, mine) = SumIn(table, mine) /\ SumIn(new, left) = SumIn(table, left)
  <2>1. \A d \in mine : new[d].amount = table[d].amount
    BY <1>2
  <2>2. \A d \in left : new[d].amount = table[d].amount
    BY <1>2
  <2>3. QED BY <1>2, <2>1, <2>2, SumInSame
<1>5. SumIn(table, mine) = SumIn(table, rows) + SumIn(table, left)
  BY <1>1, <1>2, SumInSplit
<1>6. status \in {"approved", "paid"} => ClaimsIn(new, w) = mine
  BY <1>1 DEF ClaimsIn
<1>7. status \in {"rejected", "cancelled"} => ClaimsIn(new, w) = left
  BY <1>1 DEF ClaimsIn
<1>8. QED BY <1>1, <1>3, <1>4, <1>5, <1>6, <1>7

\* A commit that decides about withdrawals keeps the invariant if it keeps the money of its worker.
LEMMA DecisionKeeps ==
  ASSUME WInv, NEW s \in Desks, NEW r, r = desk[s], r.kind # "none",
         NEW status \in Statuses \ {"none"}, SetStatus(r.rows, status),
         NEW wrote \in BOOLEAN, Commits(s, r.worker, wrote, r.rows), earned' = earned,
         purse' \in [Owners -> PurseRow], booked' \in [Owners -> Int], unbooked' \in [Owners -> Nat],
         \A v \in Owners : v # r.worker => booked'[v] = booked[v] /\ unbooked'[v] = unbooked[v],
         r.worker \notin clashed' => Conserved(r.worker)'
  PROVE  WInv'
<1>1. PICK w, rows : w = r.worker /\ rows = r.rows
  OBVIOUS
<1>2. /\ w \in Owners /\ rows \in SUBSET Payouts
      /\ \A d \in rows : payout[d].owner = w /\ payout[d].status # "none"
  BY <1>1, AtCommit
<1>3. /\ payout' \in [Payouts -> PayoutRow]
      /\ \A d \in Payouts : /\ payout'[d].owner = payout[d].owner
                            /\ payout'[d].amount = payout[d].amount
                            /\ payout'[d].status = IF d \in rows THEN status ELSE payout[d].status
                            /\ d \notin rows => payout'[d] = payout[d]
                            /\ Owned(payout'[d])
  BY <1>1, <1>2, StatusSet
<1>4. RowTypes'
  <2>1. desk' \in [Desks -> DeskRow]
    BY ClosedRow DEF WInv, RowTypes, Commits
  <2>2. clashed' \in SUBSET Owners
    BY <1>1, <1>2 DEF Commits, NoteClash, WInv, RowTypes
  <2>3. earned' \in [Owners -> Nat]
    BY DEF WInv, RowTypes
  <2>4. QED BY <1>3, <2>1, <2>2, <2>3 DEF RowTypes
<1>5. RequestsSound'
  BY <1>1, <1>2, CommitStep
<1>6. RoomLeft'
  <2>1. \A d \in Payouts : payout'[d].status = "none" <=> payout[d].status = "none"
    BY <1>2, <1>3
  <2>2. desk' = [desk EXCEPT ![s] = NoRequest]
    BY DEF Commits
  <2>3. QED BY <2>1, <2>2, CommitKeepsRoom
<1>7. ASSUME NEW v \in Owners \ clashed' PROVE Conserved(v)'
  <2>1. CASE v # w
    <3>1. \A e \in Payouts : \/ payout'[e] = payout[e]
                             \/ payout[e].owner \in {w, NoRow} /\ payout'[e].owner = w
      BY <1>2, <1>3
    <3>2. booked'[v] = booked[v] /\ earned'[v] = earned[v] /\ unbooked'[v] = unbooked[v]
      BY <1>1, <1>7, <2>1
    <3>3. Commits(s, w, wrote, rows)
      BY <1>1
    <3>4. QED BY <1>2, <1>7, <2>1, <3>1, <3>2, <3>3, MoneyOfOthers
  <2>2. CASE v = w
    BY <1>1, <1>7, <2>2
  <2>3. QED BY <2>1, <2>2
<1>8. QED BY <1>3, <1>4, <1>5, <1>6, <1>7 DEF WInv

LEMMA StatusesNamed == Statuses \ {"none"} = {"pending", "approved", "rejected", "paid", "cancelled"}
  BY DEF Statuses

\* The money of the worker of a decision, until something about the worker clashes.
LEMMA DecisionMoney ==
  ASSUME WInv, NEW s \in Desks, NEW r, r = desk[s], r.kind \in Decisions \cup {"banning"},
         NEW status \in {"approved", "paid", "rejected", "cancelled"}, SetStatus(r.rows, status),
         r.worker \notin clashed
  PROVE  /\ r.seen # NoRow => r.seen.balance = purse[r.worker].balance
         /\ earned[r.worker] \in Nat /\ booked[r.worker] \in Int /\ unbooked[r.worker] \in Nat
         /\ purse[r.worker].balance \in Nat /\ r.amount \in Nat
         /\ \E before, after \in Nat :
              /\ after = SumIn(payout', ClaimsIn(payout', r.worker))
              /\ earned[r.worker] = purse[r.worker].balance + before
              /\ purse[r.worker].balance = booked[r.worker] + unbooked[r.worker]
              /\ status \in {"approved", "paid"} => after = before
              /\ status \in {"rejected", "cancelled"} => before = r.amount + after
<1>1. PICK w, rows, new : w = r.worker /\ rows = r.rows /\ new = payout'
  OBVIOUS
<1>2. r.kind # "none"
  BY DEF Decisions
<1>3. /\ w \in Owners /\ rows \in SUBSET Payouts /\ purse[w].balance \in Nat
      /\ \A d \in rows : payout[d].owner = w /\ payout[d].status # "none"
      /\ r.amount = SumIn(payout, rows) /\ payout \in [Payouts -> PayoutRow]
  BY <1>1, <1>2, AtCommit DEF Sound
<1>4. /\ r.seen # NoRow => r.seen.balance = purse[w].balance
      /\ \A d \in rows : payout[d].status \in Needs(r.kind)
      /\ Conserved(w)
  BY <1>1, <1>2, FreshAtCommit
<1>5. /\ new \in [Payouts -> PayoutRow]
      /\ \A d \in Payouts : /\ new[d].owner = payout[d].owner
                            /\ new[d].amount = payout[d].amount
                            /\ new[d].status = IF d \in rows THEN status ELSE payout[d].status
  <2>1. status \in Statuses \ {"none"}
    BY StatusesNamed
  <2>2. SetStatus(rows, status)
    BY <1>1
  <2>3. QED BY <1>1, <1>3, <2>1, <2>2, StatusSet
<1>6. \A d \in rows : payout[d].owner = w /\ payout[d].status \in {"pending", "approved"}
  BY <1>3, <1>4 DEF Needs
<1>7. PICK before, after : /\ before = SumIn(payout, ClaimsIn(payout, w))
                           /\ after = SumIn(new, ClaimsIn(new, w))
  OBVIOUS
<1>8. /\ before \in Nat /\ SumIn(payout, rows) \in Nat
      /\ status \in {"approved", "paid"} => after = before
      /\ status \in {"rejected", "cancelled"} =>
           /\ before = SumIn(payout, rows) + after
           /\ after \in Nat
  <2>1. PICK old : old = payout
    OBVIOUS
  <2>2. old \in [Payouts -> PayoutRow]
    BY <1>3, <2>1
  <2>3. \A d \in rows : old[d].owner = w /\ old[d].status \in {"pending", "approved"}
    BY <1>6, <2>1
  <2>4. \A d \in Payouts : /\ new[d].owner = old[d].owner
                           /\ new[d].amount = old[d].amount
                           /\ new[d].status = IF d \in rows THEN status ELSE old[d].status
    BY <1>5, <2>1
  <2>5. /\ SumIn(old, ClaimsIn(old, w)) \in Nat
        /\ SumIn(old, rows) \in Nat
        /\ status \in {"approved", "paid"} =>
              SumIn(new, ClaimsIn(new, w)) = SumIn(old, ClaimsIn(old, w))
        /\ status \in {"rejected", "cancelled"} =>
              /\ SumIn(old, ClaimsIn(old, w)) = SumIn(old, rows) + SumIn(new, ClaimsIn(new, w))
              /\ SumIn(new, ClaimsIn(new, w)) \in Nat
    BY <1>3, <1>5, <2>2, <2>3, <2>4, ClaimsAfter
  <2>6. QED BY <1>7, <2>1, <2>5
<1>9. after \in Nat
  BY <1>8
<1>10. earned[w] = purse[w].balance + before /\ purse[w].balance = booked[w] + unbooked[w]
  BY <1>4, <1>7 DEF Conserved
<1>11. earned[w] \in Nat /\ booked[w] \in Int /\ unbooked[w] \in Nat
  BY <1>3 DEF WInv, RowTypes
<1>12. QED BY <1>1, <1>3, <1>4, <1>7, <1>8, <1>9, <1>10, <1>11

LEMMA CommitDecisionStep ==
  ASSUME WInv, NEW s \in Desks, CommitDecision(s)
  PROVE  WInv'
<1>1. PICK r : r = desk[s]
  OBVIOUS
<1>2. PICK status \in {"approved", "paid"} : SetStatus(r.rows, status)
  BY <1>1 DEF CommitDecision
<1>3. status \in Statuses \ {"none"}
  BY StatusesNamed
<1>4. r.kind \in Decisions \cup {"banning"} /\ r.kind # "none"
  BY <1>1 DEF CommitDecision, Decisions
<1>5. r.worker \in Owners /\ r.rows \in SUBSET Payouts
      /\ \A d \in r.rows : payout[d].owner = r.worker /\ payout[d].status # "none"
  BY <1>1, <1>4, AtCommit
<1>6. /\ purse' = purse /\ booked' = booked /\ earned' = earned /\ unbooked' = unbooked
      /\ desk' = [desk EXCEPT ![s] = NoRequest] /\ NoteClash(s, r.worker, FALSE, r.rows)
  BY <1>1 DEF CommitDecision, Finish
<1>7. \A d \in Payouts : /\ payout'[d].owner = payout[d].owner
                         /\ payout'[d].amount = payout[d].amount
                         /\ d \notin r.rows => payout'[d].status = payout[d].status
  BY <1>2, <1>3, <1>5, StatusSet
<1>8. Commits(s, r.worker, FALSE, r.rows)
  BY <1>6, <1>7 DEF Commits
<1>9. ASSUME r.worker \notin clashed' PROVE Conserved(r.worker)'
  <2>1. r.worker \notin clashed
    BY <1>6, <1>9 DEF NoteClash
  <2>2. PICK after : /\ after = SumIn(payout', ClaimsIn(payout', r.worker))
                     /\ earned[r.worker] = purse[r.worker].balance + after
                     /\ purse[r.worker].balance = booked[r.worker] + unbooked[r.worker]
    BY <1>1, <1>2, <1>3, <1>4, <2>1, DecisionMoney
  <2>3. QED BY <1>6, <2>2 DEF Conserved
<1>10. /\ purse' \in [Owners -> PurseRow] /\ booked' \in [Owners -> Int]
       /\ unbooked' \in [Owners -> Nat]
  BY <1>6 DEF WInv, RowTypes
<1>11. QED BY <1>1, <1>2, <1>3, <1>4, <1>6, <1>8, <1>9, <1>10, DecisionKeeps

LEMMA CommitRefundStep ==
  ASSUME WInv, NEW s \in Desks, CommitRefund(s)
  PROVE  WInv'
<1>1. PICK r : r = desk[s]
  OBVIOUS
<1>2. PICK status \in {"rejected", "cancelled"} : SetStatus(r.rows, status)
  BY <1>1 DEF CommitRefund
<1>3. status \in Statuses \ {"none"}
  BY StatusesNamed
<1>4. r.kind \in Decisions \cup {"banning"} /\ r.kind # "none" /\ r.kind \in Decisions
  BY <1>1 DEF CommitRefund, Decisions
<1>5. PICK w : w = r.worker
  OBVIOUS
<1>6. /\ w \in Owners /\ r.rows \in SUBSET Payouts
      /\ \A d \in r.rows : payout[d].owner = w /\ payout[d].status # "none"
      /\ r.seen # NoRow /\ r.seen.balance \in Nat /\ r.amount \in Nat
  <2>1. r.seen # NoRow
    BY <1>1 DEF CommitRefund
  <2>2. QED BY <1>1, <1>4, <1>5, <2>1, AtCommit DEF DeskRow
<1>7. /\ purse' \in [Owners -> PurseRow] /\ booked' \in [Owners -> Int]
      /\ \A v \in Owners : v # w => purse'[v] = purse[v] /\ booked'[v] = booked[v]
      /\ purse'[w].balance = r.seen.balance + r.amount
      /\ booked'[w] = booked[w] + r.amount
  <2>1. Book(w, r.seen, r.amount)
    BY <1>1, <1>5 DEF CommitRefund
  <2>2. r.seen.balance + r.amount \in Nat /\ r.amount \in Int
    BY <1>6
  <2>3. QED BY <1>6, <2>1, <2>2, BookedRows
<1>8. /\ earned' = earned /\ unbooked' = unbooked
      /\ desk' = [desk EXCEPT ![s] = NoRequest] /\ NoteClash(s, w, TRUE, r.rows)
  BY <1>1, <1>5 DEF CommitRefund, Finish
<1>9. \A d \in Payouts : /\ payout'[d].owner = payout[d].owner
                         /\ payout'[d].amount = payout[d].amount
                         /\ d \notin r.rows => payout'[d].status = payout[d].status
  BY <1>2, <1>3, <1>6, StatusSet
<1>10. Commits(s, w, TRUE, r.rows)
  BY <1>7, <1>8, <1>9 DEF Commits
<1>11. ASSUME w \notin clashed' PROVE Conserved(w)'
  <2>1. w \notin clashed
    BY <1>8, <1>11 DEF NoteClash
  <2>2. /\ r.seen.balance = purse[w].balance
        /\ earned[w] \in Nat /\ booked[w] \in Int /\ unbooked[w] \in Nat
        /\ purse[w].balance \in Nat /\ r.amount \in Nat
        /\ \E before, after \in Nat :
             /\ after = SumIn(payout', ClaimsIn(payout', w))
             /\ earned[w] = purse[w].balance + before
             /\ purse[w].balance = booked[w] + unbooked[w]
             /\ before = r.amount + after
    BY <1>1, <1>2, <1>3, <1>4, <1>5, <1>6, <2>1, DecisionMoney
  <2>3. PICK before \in Nat, after \in Nat :
             /\ after = SumIn(payout', ClaimsIn(payout', w))
             /\ earned[w] = purse[w].balance + before
             /\ purse[w].balance = booked[w] + unbooked[w]
             /\ before = r.amount + after
    BY <2>2
  <2>4. purse'[w].balance = purse[w].balance + r.amount
    BY <1>7, <2>2
  <2>5. earned'[w] = purse'[w].balance + after
    BY <1>8, <2>2, <2>3, <2>4
  <2>6. purse'[w].balance = booked'[w] + unbooked'[w]
    BY <1>7, <1>8, <2>2, <2>3, <2>4
  <2>7. QED BY <2>3, <2>5, <2>6 DEF Conserved
<1>12. unbooked' \in [Owners -> Nat]
  BY <1>8 DEF WInv, RowTypes
<1>13. \A v \in Owners : v # w => booked'[v] = booked[v] /\ unbooked'[v] = unbooked[v]
  BY <1>7, <1>8
<1>14. QED BY <1>1, <1>2, <1>3, <1>4, <1>5, <1>7, <1>8, <1>10, <1>11, <1>12, <1>13, DecisionKeeps

LEMMA CommitBannedStep ==
  ASSUME WInv, NEW s \in Desks, CommitBanned(s)
  PROVE  WInv'
<1>1. PICK r : r = desk[s]
  OBVIOUS
<1>2. r.kind \in Decisions \cup {"banning"} /\ r.kind # "none" /\ r.kind = "banning"
  BY <1>1 DEF CommitBanned
<1>3. PICK w : w = r.worker
  OBVIOUS
<1>4. /\ w \in Owners /\ r.rows \in SUBSET Payouts
      /\ \A d \in r.rows : payout[d].owner = w /\ payout[d].status # "none"
      /\ r.seen # NoRow /\ r.seen.balance \in Nat /\ r.amount \in Nat
      /\ purse \in [Owners -> PurseRow] /\ purse[w].balance \in Nat
  BY <1>1, <1>2, <1>3, AtCommit DEF DeskRow, Sound, Funded
<1>5. SetStatus(r.rows, "cancelled") /\ "cancelled" \in Statuses \ {"none"}
  BY <1>1, StatusesNamed DEF CommitBanned
<1>6. PICK row : row = [banned |-> TRUE,
                        balance |-> IF r.amount = 0 THEN purse[w].balance
                                    ELSE r.seen.balance + r.amount]
  OBVIOUS
<1>7. row \in PurseRow /\ purse' = [purse EXCEPT ![w] = row]
  <2>1. (IF r.amount = 0 THEN purse[w].balance ELSE r.seen.balance + r.amount) \in Nat
    BY <1>4
  <2>2. row \in PurseRow
    BY <1>6, <2>1 DEF PurseRow
  <2>3. purse' = [purse EXCEPT ![w] = row]
    BY <1>1, <1>3, <1>6 DEF CommitBanned
  <2>4. QED BY <2>2, <2>3
<1>8. /\ purse' \in [Owners -> PurseRow] /\ purse'[w] = row
      /\ \A v \in Owners : v # w => purse'[v] = purse[v]
  BY <1>4, <1>7
<1>9. /\ unbooked' \in [Owners -> Nat] /\ unbooked'[w] = unbooked[w] + r.amount
      /\ \A v \in Owners : v # w => unbooked'[v] = unbooked[v]
  <2>1. unbooked \in [Owners -> Nat] /\ unbooked' = [unbooked EXCEPT ![w] = unbooked[w] + r.amount]
    BY <1>1, <1>3 DEF CommitBanned, WInv, RowTypes
  <2>2. unbooked[w] + r.amount \in Nat
    BY <1>4, <2>1
  <2>3. QED BY <1>4, <2>1, <2>2
<1>10. /\ earned' = earned /\ booked' = booked
       /\ desk' = [desk EXCEPT ![s] = NoRequest] /\ NoteClash(s, w, TRUE, r.rows)
  BY <1>1, <1>3 DEF CommitBanned, Finish
<1>11. \A d \in Payouts : /\ payout'[d].owner = payout[d].owner
                          /\ payout'[d].amount = payout[d].amount
                          /\ d \notin r.rows => payout'[d].status = payout[d].status
  BY <1>4, <1>5, StatusSet
<1>12. Commits(s, w, TRUE, r.rows)
  BY <1>8, <1>10, <1>11 DEF Commits
<1>13. ASSUME w \notin clashed' PROVE Conserved(w)'
  <2>1. w \notin clashed
    BY <1>10, <1>13 DEF NoteClash
  <2>2. /\ r.seen.balance = purse[w].balance
        /\ earned[w] \in Nat /\ booked[w] \in Int /\ unbooked[w] \in Nat
        /\ \E before, after \in Nat :
             /\ after = SumIn(payout', ClaimsIn(payout', w))
             /\ earned[w] = purse[w].balance + before
             /\ purse[w].balance = booked[w] + unbooked[w]
             /\ before = r.amount + after
    BY <1>1, <1>2, <1>3, <1>4, <1>5, <2>1, DecisionMoney
  <2>3. PICK before \in Nat, after \in Nat :
             /\ after = SumIn(payout', ClaimsIn(payout', w))
             /\ earned[w] = purse[w].balance + before
             /\ purse[w].balance = booked[w] + unbooked[w]
             /\ before = r.amount + after
    BY <2>2
  <2>4. purse'[w].balance = purse[w].balance + r.amount
    BY <1>4, <1>6, <1>8, <2>2
  <2>5. earned'[w] = purse'[w].balance + after
    BY <1>4, <1>10, <2>2, <2>3, <2>4
  <2>6. purse'[w].balance = booked'[w] + unbooked'[w]
    BY <1>4, <1>9, <1>10, <2>2, <2>3, <2>4
  <2>7. QED BY <2>3, <2>5, <2>6 DEF Conserved
<1>14. booked' \in [Owners -> Int]
  BY <1>10 DEF WInv, RowTypes
<1>15. \A v \in Owners : v # w => booked'[v] = booked[v] /\ unbooked'[v] = unbooked[v]
  BY <1>9, <1>10
<1>16. QED BY <1>1, <1>2, <1>3, <1>5, <1>8, <1>9, <1>10, <1>12, <1>13, <1>14, <1>15, DecisionKeeps

\* Bans and unbans that touch no balance.
LEMMA BanStep ==
  ASSUME WInv, NEW w \in Owners, AutoBan(w) \/ Unban(w)
  PROVE  WInv'
<1>1. PICK flag \in BOOLEAN : purse' = [purse EXCEPT ![w].banned = flag]
  BY DEF AutoBan, Unban
<1>2. UNCHANGED <<payout, booked, desk, earned, unbooked, clashed>>
  BY DEF AutoBan, Unban
<1>3. purse \in [Owners -> PurseRow] /\ purse[w] \in PurseRow
  BY DEF WInv, RowTypes
<1>4. PICK row : row = [purse[w] EXCEPT !.banned = flag]
  OBVIOUS
<1>5. row \in PurseRow /\ row.balance = purse[w].balance
  BY <1>3, <1>4 DEF PurseRow
<1>6. purse' = [purse EXCEPT ![w] = row]
  BY <1>1, <1>4
<1>7. purse' \in [Owners -> PurseRow] /\ \A v \in Owners : purse'[v].balance = purse[v].balance
  BY <1>3, <1>5, <1>6
<1>8. RowTypes'
  BY <1>2, <1>7 DEF WInv, RowTypes
<1>9. \A d \in Payouts : Owned(payout'[d])
  BY <1>2 DEF WInv
<1>10. RequestsSound'
  <2>1. ASSUME NEW o \in Desks
        PROVE  Sound(desk'[o], payout') /\ Fresh(desk'[o], purse', payout', clashed')
    <3>1. Sound(desk[o], payout) /\ Fresh(desk[o], purse, payout, clashed)
      BY DEF WInv, RequestsSound
    <3>2. Fresh(desk[o], purse', payout, clashed)
      BY <1>7, <3>1 DEF Fresh
    <3>3. QED BY <1>2, <3>1, <3>2
  <2>2. QED BY <2>1 DEF RequestsSound
<1>11. RoomLeft'
  BY <1>2 DEF WInv, RoomLeft, Withdrawing, Unused, Rewarding
<1>12. ASSUME NEW v \in Owners \ clashed' PROVE Conserved(v)'
  <2>1. Conserved(v)
    BY <1>2, <1>12 DEF WInv
  <2>2. QED BY <1>2, <1>7, <1>12, <2>1 DEF Conserved
<1>13. QED BY <1>8, <1>9, <1>10, <1>11, <1>12 DEF WInv

-----------------------------------------------------------------------------
(* Every behaviour *)

LEMMA WInvHoldsAtInit == WalletInit => WInv
<1> SUFFICES ASSUME WalletInit PROVE WInv
  OBVIOUS
<1>1. RowTypes
  <2>1. purse \in [Owners -> PurseRow]
    BY DEF WalletInit, PurseRow
  <2>2. payout \in [Payouts -> PayoutRow]
    BY DEF WalletInit, PayoutRow
  <2>3. desk \in [Desks -> DeskRow]
    BY ClosedRow DEF WalletInit
  <2>4. QED BY <2>1, <2>2, <2>3 DEF WalletInit, RowTypes
<1>2. \A d \in Payouts : Owned(payout[d])
  BY DEF WalletInit, Owned
<1>3. RequestsSound
  BY ClosedIsSound DEF WalletInit, RequestsSound
<1>4. RoomLeft
  <2>1. Withdrawing = {} /\ \A w \in Owners : Rewarding(w) = {}
    BY DEF WalletInit, NoRequest, Withdrawing, Rewarding
  <2>2. Cardinality({}) = 0
    BY FS_EmptySet
  <2>3. Cardinality(Unused) \in Nat
    BY PayoutsFinite, FS_CardinalityType DEF Unused
  <2>4. Reward * 0 = 0 /\ MaxEarned \in Nat
    BY WalletAssumption
  <2>5. Cardinality(Withdrawing) <= Cardinality(Unused)
    BY <2>1, <2>2, <2>3
  <2>6. \A w \in Owners : earned[w] + Reward * Cardinality(Rewarding(w)) <= MaxEarned
    <3>1. ASSUME NEW w \in Owners
          PROVE  earned[w] + Reward * Cardinality(Rewarding(w)) <= MaxEarned
      <4>1. earned[w] = 0 /\ Cardinality(Rewarding(w)) = 0
        BY <2>1, <2>2 DEF WalletInit
      <4>2. QED BY <2>4, <4>1
    <3>2. QED BY <3>1
  <2>7. QED BY <2>5, <2>6 DEF RoomLeft
<1>5. ASSUME NEW w \in Owners PROVE Conserved(w)
  <2>1. ClaimsIn(payout, w) = {}
    BY DEF WalletInit, ClaimsIn
  <2>2. PICK f : f = AmountsIn(payout)
    OBVIOUS
  <2>3. SumIn(payout, {}) = 0
    BY <2>2, SumInIsSum, SumEmpty
  <2>4. earned[w] = 0 /\ purse[w].balance = 0 /\ booked[w] = 0 /\ unbooked[w] = 0
    BY DEF WalletInit
  <2>5. SumIn(payout, ClaimsIn(payout, w)) = 0
    BY <2>1, <2>3
  <2>6. QED BY <2>4, <2>5 DEF Conserved
<1>6. QED BY <1>1, <1>2, <1>3, <1>4, <1>5 DEF WInv

LEMMA WInvKept == WInv /\ [WalletNext]_walletVars => WInv'
<1> SUFFICES ASSUME WInv, [WalletNext]_walletVars PROVE WInv'
  OBVIOUS
<1>1. CASE UNCHANGED walletVars
  BY <1>1 DEF walletVars, WInv, RowTypes, RequestsSound, RoomLeft, Withdrawing, Unused, Rewarding,
              Conserved
<1>2. ASSUME NEW s \in Desks, NEW w \in Owners, ReadReward(s, w) \/ ReadBanned(s, w)
      PROVE  WInv'
  BY <1>2, ReadRewardStep, ReadBannedStep
<1>3. ASSUME NEW s \in Desks, NEW w \in Owners, NEW amount \in Amounts, ReadWithdraw(s, w, amount)
      PROVE  WInv'
  BY <1>3, ReadWithdrawStep
<1>4. ASSUME NEW s \in Desks, NEW d \in Payouts, NEW kind \in Decisions, ReadPayout(s, d, kind)
      PROVE  WInv'
  BY <1>4, ReadPayoutStep
<1>5. ASSUME NEW s \in Desks, CheckFunds(s) \/ ReadOwner(s) \/ ListPending(s)
      PROVE  WInv'
  BY <1>5, CheckFundsStep, ReadOwnerStep, ListPendingStep
<1>6. ASSUME NEW s \in Desks,
             CommitReward(s) \/ CommitHold(s) \/ CommitDecision(s) \/ CommitRefund(s) \/ CommitBanned(s)
      PROVE  WInv'
  BY <1>6, CommitRewardStep, CommitHoldStep, CommitDecisionStep, CommitRefundStep, CommitBannedStep
<1>7. ASSUME NEW w \in Owners, AutoBan(w) \/ Unban(w) PROVE WInv'
  BY <1>7, BanStep
<1>8. CASE WalletNext
  BY <1>2, <1>3, <1>4, <1>5, <1>6, <1>7, <1>8 DEF WalletNext, Decisions
<1>9. QED BY <1>1, <1>8

LEMMA AlwaysWInv == WalletSpec => []WInv
  BY WInvHoldsAtInit, WInvKept, PTL DEF WalletSpec

\* The bound of the module is kept: no worker is credited more than MaxEarned.
LEMMA EarnedBounded == ASSUME WInv PROVE earned \in [Owners -> 0 .. MaxEarned]
<1>1. earned \in [Owners -> Nat] /\ MaxEarned \in Nat
  BY WalletAssumption DEF WInv, RowTypes
<1>2. ASSUME NEW w \in Owners PROVE earned[w] \in 0 .. MaxEarned
  <2>1. IsFiniteSet(Rewarding(w))
    BY DesksFinite DEF Rewarding
  <2>2. PICK n, k : n = Cardinality(Rewarding(w)) /\ k = Reward * n
    OBVIOUS
  <2>3. n \in Nat /\ n <= n
    BY <2>1, <2>2, FS_CardinalityType
  <2>4. k \in Nat
    BY <2>2, <2>3, RewardTimes
  <2>5. earned[w] + k <= MaxEarned /\ earned[w] \in Nat
    BY <1>1, <2>2 DEF WInv, RoomLeft
  <2>6. QED BY <1>1, <2>4, <2>5
<1>3. QED BY <1>1, <1>2

LEMMA WInvImpliesWalletInv == WInv => WalletInv
<1> SUFFICES ASSUME WInv PROVE WalletInv
  OBVIOUS
<1>1. WalletTypeOK
  <2>1. PurseRow \subseteq [balance : Int, banned : BOOLEAN]
    BY DEF PurseRow
  <2>2. purse \in [Owners -> [balance : Int, banned : BOOLEAN]]
    BY <2>1 DEF WInv, RowTypes
  <2>3. QED BY <2>2, EarnedBounded DEF WInv, RowTypes, PayoutRow, WalletTypeOK
<1>2. ASSUME NEW w \in Owners \ clashed
      PROVE  /\ earned[w] = purse[w].balance + SumOf(Claims(w))
             /\ purse[w].balance = booked[w] + unbooked[w]
  <2>1. Conserved(w)
    BY DEF WInv
  <2>2. QED BY <2>1, ClaimsSumNow DEF Conserved
<1>3. QED BY <1>1, <1>2 DEF WalletInv, MoneyConserved

\* However rewards, withdrawals, decisions and bans overlap, the rows keep their types; and until
\* two requests about a worker overlap on a row, what the worker earned is in the balance or in
\* withdrawals that were not refunded, and the ledger explains the balance (routers/wallet.py,
\* ban_worker): for any number of workers, withdrawals and requests.
THEOREM MoneyIsConserved == WalletSpec => []WalletInv
  BY AlwaysWInv, WInvImpliesWalletInv, PTL

\* request_withdrawal checks the funds and takes the hold from one reading of the balance: no
\* interleaving of requests makes a balance negative.
THEOREM BalancesStayPositive == WalletSpec => []NeverOverdrawn
<1>1. ASSUME WInv, NEW w \in Owners PROVE purse[w].balance >= 0
  <2>1. purse[w] \in PurseRow
    BY <1>1 DEF WInv, RowTypes
  <2>2. purse[w].balance \in Nat
    BY <2>1 DEF PurseRow
  <2>3. QED BY <2>2
<1>2. WInv => NeverOverdrawn
  BY <1>1 DEF NeverOverdrawn
<1>3. QED BY <1>2, AlwaysWInv, PTL

\* One decision step: the row of every withdrawal it writes was in the status the handler needs.
LEMMA DecisionsFinalStep ==
  ASSUME WInv, [WalletNext]_walletVars, NEW d \in Payouts, payout[d].owner \in Owners \ clashed'
  PROVE  \/ payout'[d] = payout[d]
         \/ payout[d].status = "pending" /\ payout'[d].status \in {"approved", "rejected", "cancelled"}
         \/ payout[d].status = "approved" /\ payout'[d].status = "paid"
<1>1. payout[d].status # "none"
  BY NoRowIsNone DEF WInv, Owned
<1>2. ASSUME NEW s \in Desks, NEW r, r = desk[s], r.kind \in Decisions \cup {"banning"},
             NEW status \in Statuses \ {"none"}, SetStatus(r.rows, status),
             NEW wrote \in BOOLEAN, NoteClash(s, r.worker, wrote, r.rows)
      PROVE  \/ payout'[d] = payout[d]
             \/ /\ payout[d].status \in Needs(r.kind)
                /\ payout'[d].status = status
  <2>1. r.kind # "none"
    BY <1>2 DEF Decisions
  <2>2. /\ r.worker \in Owners /\ r.rows \in SUBSET Payouts
        /\ \A e \in r.rows : payout[e].owner = r.worker /\ payout[e].status # "none"
    BY <1>2, <2>1, AtCommit
  <2>3. \A e \in Payouts : /\ payout'[e].status = IF e \in r.rows THEN status ELSE payout[e].status
                           /\ e \notin r.rows => payout'[e] = payout[e]
    <3>1. PICK w, rows : w = r.worker /\ rows = r.rows
      OBVIOUS
    <3>2. SetStatus(rows, status)
      BY <1>2, <3>1
    <3>3. /\ w \in Owners /\ rows \in SUBSET Payouts
          /\ \A e \in rows : payout[e].owner = w /\ payout[e].status # "none"
      BY <2>2, <3>1
    <3>4. \A e \in Payouts : /\ payout'[e].status = IF e \in rows THEN status ELSE payout[e].status
                             /\ e \notin rows => payout'[e] = payout[e]
      BY <1>2, <3>2, <3>3, StatusSet
    <3>5. QED BY <3>1, <3>4
  <2>4. CASE d \in r.rows
    <3>1. r.worker \notin clashed
      BY <1>2, <2>2, <2>4 DEF NoteClash
    <3>2. \A e \in r.rows : payout[e].status \in Needs(r.kind)
      BY <1>2, <2>1, <3>1, FreshAtCommit
    <3>3. QED BY <2>3, <2>4, <3>2
  <2>5. QED BY <2>3, <2>4
<1>3. ASSUME NEW s \in Desks, CommitHold(s) PROVE payout'[d] = payout[d]
  <2>1. PICK e, row : e = (CHOOSE x \in Unused : TRUE) /\ payout' = [payout EXCEPT ![e] = row]
    BY <1>3 DEF CommitHold
  <2>2. CASE Unused = {}
    <3>1. desk[s].kind = "holding" /\ s \in Withdrawing
      BY <1>3 DEF CommitHold, Withdrawing
    <3>2. IsFiniteSet(Withdrawing)
      BY DesksFinite DEF Withdrawing
    <3>3. Cardinality(Withdrawing) \in Nat /\ Cardinality(Withdrawing) # 0
      BY <3>1, <3>2, FS_CardinalityType, FS_EmptySet
    <3>4. Cardinality(Unused) = 0
      BY <2>2, FS_EmptySet
    <3>5. QED BY <3>3, <3>4 DEF WInv, RoomLeft
  <2>3. CASE Unused # {}
    <3>1. e \in Unused
      BY <2>1, <2>3
    <3>2. e # d
      BY <1>1, <3>1 DEF Unused
    <3>3. payout \in [Payouts -> PayoutRow]
      BY DEF WInv, RowTypes
    <3>4. QED BY <2>1, <3>2, <3>3
  <2>4. QED BY <2>2, <2>3
<1>4. ASSUME NEW s \in Desks, CommitDecision(s)
      PROVE  \/ payout'[d] = payout[d]
             \/ payout[d].status = "pending" /\ payout'[d].status = "approved"
             \/ payout[d].status = "approved" /\ payout'[d].status = "paid"
  <2>1. PICK r : r = desk[s]
    OBVIOUS
  <2>2. PICK status : \/ r.kind = "approving" /\ status = "approved" /\ SetStatus(r.rows, status)
                      \/ r.kind = "paying" /\ status = "paid" /\ SetStatus(r.rows, status)
    BY <1>4, <2>1 DEF CommitDecision
  <2>3. NoteClash(s, r.worker, FALSE, r.rows) /\ r.kind \in Decisions \cup {"banning"}
    BY <1>4, <2>1, <2>2 DEF CommitDecision, Decisions
  <2>4. status \in Statuses \ {"none"}
    BY <2>2, StatusesNamed
  <2>5. \/ payout'[d] = payout[d]
        \/ payout[d].status \in Needs(r.kind) /\ payout'[d].status = status
    BY <1>2, <2>1, <2>2, <2>3, <2>4
  <2>6. QED BY <2>2, <2>5 DEF Needs
<1>5. ASSUME NEW s \in Desks, CommitRefund(s) \/ CommitBanned(s)
      PROVE  \/ payout'[d] = payout[d]
             \/ payout[d].status = "pending" /\ payout'[d].status \in {"rejected", "cancelled"}
  <2>1. PICK r : r = desk[s]
    OBVIOUS
  <2>2. /\ r.kind \in {"rejecting", "cancelling", "banning"}
        /\ NoteClash(s, r.worker, TRUE, r.rows)
    BY <1>5, <2>1 DEF CommitRefund, CommitBanned
  <2>3. PICK status \in {"rejected", "cancelled"} : SetStatus(r.rows, status)
    BY <1>5, <2>1 DEF CommitRefund, CommitBanned
  <2>4. status \in Statuses \ {"none"} /\ r.kind \in Decisions \cup {"banning"}
    BY <2>2, StatusesNamed DEF Decisions
  <2>5. \/ payout'[d] = payout[d]
        \/ payout[d].status \in Needs(r.kind) /\ payout'[d].status = status
    BY <1>2, <2>1, <2>2, <2>3, <2>4
  <2>6. QED BY <2>2, <2>5 DEF Needs
<1>6. CASE payout' = payout
  BY <1>6
<1>7. CASE UNCHANGED walletVars
  BY <1>7 DEF walletVars
<1>8. CASE WalletNext
  <2>1. \/ payout' = payout
        \/ \E s \in Desks : CommitHold(s) \/ CommitDecision(s) \/ CommitRefund(s) \/ CommitBanned(s)
    BY <1>8 DEF WalletNext, ReadReward, ReadBanned, ReadWithdraw, ReadPayout, CheckFunds, ReadOwner,
                ListPending, CommitReward, AutoBan, Unban
  <2>2. QED BY <1>3, <1>4, <1>5, <1>6, <2>1
<1>9. QED BY <1>7, <1>8

\* Until two requests about a worker overlap on a row, no decision about a withdrawal is taken
\* back, so what was refunded is never paid (approve, mark_paid, reject and cancel_withdrawal,
\* ban_worker): for any number of workers, withdrawals and requests.
THEOREM NoDecisionIsTakenBack == WalletSpec => DecisionsAreFinal
<1>1. WInv /\ [WalletNext]_walletVars =>
        [\A d \in Payouts :
           payout[d].owner \in Owners \ clashed' =>
             \/ payout'[d] = payout[d]
             \/ payout[d].status = "pending" /\ payout'[d].status \in {"approved", "rejected", "cancelled"}
             \/ payout[d].status = "approved" /\ payout'[d].status = "paid"]_walletVars
  BY DecisionsFinalStep
<1>2. QED BY <1>1, AlwaysWInv, PTL DEF WalletSpec, DecisionsAreFinal
=============================================================================
