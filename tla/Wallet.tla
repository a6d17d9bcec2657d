------------------------------- MODULE Wallet -------------------------------
(***************************************************************************)
(* The money side of the server: rewards, withdrawal requests and their    *)
(* settlement (server/routers/wallet.py), and what a ban does to them      *)
(* (server/routers/admin_panel.py).  Requests overlap as in TaskSessions:  *)
(* a handler reads the withdrawal row, then the worker row, and commits    *)
(* later; the commit sets the balance to the value computed from what was  *)
(* read, and the status by id, whatever either has become.  ban_worker     *)
(* writes is_banned before it lists the withdrawals, so it holds the lock  *)
(* on the worker row from there to its commit.                             *)
(*                                                                         *)
(* Abstractions.  Amounts are small numbers.  The ledger (transactions) is *)
(* kept as its sum per worker.  settings.min_withdrawal, which config.py   *)
(* does not define, is taken to be at most every amount requested: as the  *)
(* repository stands POST /wallet/withdraw stops at that line, and the     *)
(* module says how the handlers behave once it is configured.  A reward is *)
(* the part of validate_task that pays (TaskSessions has the rest); the    *)
(* part of ban_worker that releases tasks is in TaskPipeline.              *)
(***************************************************************************)
EXTENDS Integers, FiniteSets, FiniteSetsExt

CONSTANTS
  Owners,         \* workers with a wallet
  Payouts,        \* bound: ids of withdrawal requests
  Amounts,        \* bound: amounts requested
  Reward,         \* what one rewarded task pays
  MaxEarned,      \* bound: a worker is paid no further task beyond that sum
  Desks,          \* bound: wallet requests open at the same time
  NoRow           \* a row that was not read

ASSUME WalletAssumption ==
  /\ Amounts \subseteq Nat \ {0}
  /\ Reward \in Nat \ {0}
  /\ MaxEarned \in Nat
  /\ IsFiniteSet(Payouts) /\ IsFiniteSet(Desks)
  /\ NoRow \notin Owners \cup [balance : Int, banned : BOOLEAN]

VARIABLES
  purse,          \* Worker row: balance, is_banned
  payout,         \* WithdrawalRequest rows
  booked,         \* sum of the worker's transactions
  desk,           \* the open request of each slot
  earned,         \* history: rewards credited by their transactions
  unbooked,       \* history: balance changes that wrote no transaction
  clashed         \* history: workers with a commit over a row another open request had read

walletVars == <<purse, payout, booked, desk, earned, unbooked, clashed>>

NoRequest == [kind |-> "none", worker |-> NoRow, seen |-> NoRow, rows |-> {}, amount |-> 0]

Unused == {d \in Payouts : payout[d].status = "none"}

PendingOf(w) == {d \in Payouts : payout[d].owner = w /\ payout[d].status = "pending"}

SumOf(rows) == MapThenSumSet(LAMBDA d : payout[d].amount, rows)

\* balance - pending_total: a hold has left the balance already and is subtracted again.
Available(w, row) == row.balance - SumOf(PendingOf(w))

Serve(s, request) == desk' = [desk EXCEPT ![s] = request]

Finish(s) == desk' = [desk EXCEPT ![s] = NoRequest]

Vacant(s) == desk[s] = NoRequest

\* No ban holds the lock on the row of worker w.
PurseUnlocked(w) == \A s \in Desks : desk[s].kind = "banning" => desk[s].worker # w

\* An open request of another slot read the row of worker w or one of these withdrawals.
Overrun(s, w, wrotePurse, rows) ==
  \E o \in Desks \ {s} :
    /\ desk[o].worker = w
    /\ (wrotePurse /\ desk[o].seen # NoRow) \/ desk[o].rows \cap rows # {}

NoteClash(s, w, wrotePurse, rows) ==
  clashed' = IF Overrun(s, w, wrotePurse, rows) THEN clashed \cup {w} ELSE clashed

\* create_transaction: the balance becomes what was read plus the amount.
Book(w, row, amount) ==
  /\ booked' = [booked EXCEPT ![w] = @ + amount]
  /\ purse' = [purse EXCEPT ![w].balance = row.balance + amount]

SetStatus(rows, status) ==
  payout' = [d \in Payouts |->
               IF d \in rows THEN [payout[d] EXCEPT !.status = status] ELSE payout[d]]

-----------------------------------------------------------------------------
(* Rewards *)

ReadReward(s, w) ==
  /\ Vacant(s)
  /\ earned[w] + Reward * (1 + Cardinality({o \in Desks : desk[o].kind = "rewarding"})) <= MaxEarned
  /\ Serve(s, [kind |-> "rewarding", worker |-> w, seen |-> purse[w], rows |-> {}, amount |-> Reward])
  /\ UNCHANGED <<purse, payout, booked, earned, unbooked, clashed>>

CommitReward(s) ==
  LET r == desk[s] IN
  /\ r.kind = "rewarding"
  /\ PurseUnlocked(r.worker)
  /\ Book(r.worker, r.seen, r.amount)
  /\ earned' = [earned EXCEPT ![r.worker] = @ + r.amount]
  /\ NoteClash(s, r.worker, TRUE, {})
  /\ Finish(s)
  /\ UNCHANGED <<payout, unbooked>>

-----------------------------------------------------------------------------
(* request_withdrawal *)

\* session.get(Worker) and the check of is_banned.
ReadWithdraw(s, w, amount) ==
  /\ Vacant(s)
  /\ Cardinality(Unused) > Cardinality({o \in Desks : desk[o].kind \in {"asking", "holding"}})
  /\ ~purse[w].banned
  /\ Serve(s, [kind |-> "asking", worker |-> w, seen |-> purse[w], rows |-> {}, amount |-> amount])
  /\ UNCHANGED <<purse, payout, booked, earned, unbooked, clashed>>

\* Mutant: the amount is compared with the balance only when nothing is pending.
CheckFundsOnce(s) ==
  LET r == desk[s] IN
  /\ r.kind = "asking"
  /\ \/ PendingOf(r.worker) # {} \/ r.amount <= r.seen.balance
     /\ Serve(s, [r EXCEPT !.kind = "holding"])
  /\ UNCHANGED <<purse, payout, booked, earned, unbooked, clashed>>

\* The sum of the pending withdrawals, and the answer 400 when they leave too little.
CheckFunds(s) ==
  LET r == desk[s] IN
  /\ r.kind = "asking"
  /\ \/ /\ r.amount <= Available(r.worker, r.seen)
        /\ Serve(s, [r EXCEPT !.kind = "holding"])
     \/ /\ r.amount > Available(r.worker, r.seen)
        /\ Finish(s)
  /\ UNCHANGED <<purse, payout, booked, earned, unbooked, clashed>>

CommitHold(s) ==
  LET r == desk[s]
      d == CHOOSE d \in Unused : TRUE
  IN
  /\ r.kind = "holding"
  /\ PurseUnlocked(r.worker)
  /\ payout' = [payout EXCEPT ![d] = [owner |-> r.worker, amount |-> r.amount, status |-> "pending"]]
  /\ Book(r.worker, r.seen, -r.amount)
  /\ NoteClash(s, r.worker, TRUE, {})
  /\ Finish(s)
  /\ UNCHANGED <<earned, unbooked>>

-----------------------------------------------------------------------------
(* approve_withdrawal, mark_paid, reject_withdrawal, cancel_withdrawal *)

\* Mutant: paid marks a withdrawal that was never approved.
NeedsAnyStatus(kind) == IF kind = "paying" THEN {"pending", "approved"} ELSE {"pending"}

\* Statuses in which the handler of that kind takes a withdrawal.
Needs(kind) == IF kind = "paying" THEN {"approved"} ELSE {"pending"}

\* session.get(WithdrawalRequest) and the checks of status and, for cancel, owner.
ReadPayout(s, d, kind) ==
  /\ Vacant(s)
  /\ kind \in {"approving", "paying", "rejecting", "cancelling"}
  /\ payout[d].status \in Needs(kind)
  /\ Serve(s, [kind |-> kind, worker |-> payout[d].owner, seen |-> NoRow, rows |-> {d},
               amount |-> payout[d].amount])
  /\ UNCHANGED <<purse, payout, booked, earned, unbooked, clashed>>

CommitDecision(s) ==
  LET r == desk[s] IN
  /\ \/ r.kind = "approving" /\ SetStatus(r.rows, "approved")
     \/ r.kind = "paying" /\ SetStatus(r.rows, "paid")
  /\ NoteClash(s, r.worker, FALSE, r.rows)
  /\ Finish(s)
  /\ UNCHANGED <<purse, booked, earned, unbooked>>

\* reject and cancel read the worker row only now.
ReadOwner(s) ==
  LET r == desk[s] IN
  /\ r.kind \in {"rejecting", "cancelling"}
  /\ r.seen = NoRow
  /\ Serve(s, [r EXCEPT !.seen = purse[r.worker]])
  /\ UNCHANGED <<purse, payout, booked, earned, unbooked, clashed>>

CommitRefund(s) ==
  LET r == desk[s] IN
  /\ r.kind \in {"rejecting", "cancelling"}
  /\ r.seen # NoRow
  /\ PurseUnlocked(r.worker)
  /\ Book(r.worker, r.seen, r.amount)
  /\ \/ r.kind = "rejecting" /\ SetStatus(r.rows, "rejected")
     \/ r.kind = "cancelling" /\ SetStatus(r.rows, "cancelled")
  /\ NoteClash(s, r.worker, TRUE, r.rows)
  /\ Finish(s)
  /\ UNCHANGED <<earned, unbooked>>

-----------------------------------------------------------------------------
(* Bans *)

ReadBanned(s, w) ==
  /\ Vacant(s)
  /\ ~purse[w].banned
  /\ Serve(s, [kind |-> "closing", worker |-> w, seen |-> purse[w], rows |-> {}, amount |-> 0])
  /\ UNCHANGED <<purse, payout, booked, earned, unbooked, clashed>>

\* is_banned is flushed, the pending withdrawals are listed.
ListPending(s) ==
  LET r == desk[s] IN
  /\ r.kind = "closing"
  /\ PurseUnlocked(r.worker)
  /\ Serve(s, [r EXCEPT !.kind = "banning", !.rows = PendingOf(r.worker),
                        !.amount = SumOf(PendingOf(r.worker))])
  /\ UNCHANGED <<purse, payout, booked, earned, unbooked, clashed>>

\* Mutant: the withdrawals are cancelled and the balance is not given back.
CommitBanWithoutRefund(s) ==
  LET r == desk[s] IN
  /\ r.kind = "banning"
  /\ purse' = [purse EXCEPT ![r.worker].banned = TRUE]
  /\ SetStatus(r.rows, "cancelled")
  /\ NoteClash(s, r.worker, TRUE, r.rows)
  /\ Finish(s)
  /\ UNCHANGED <<booked, earned, unbooked>>

\* The refunds of a ban go to the balance without a transaction.
CommitBanned(s) ==
  LET r == desk[s] IN
  /\ r.kind = "banning"
  /\ purse' = [purse EXCEPT ![r.worker] =
                 [banned |-> TRUE,
                  balance |-> IF r.amount = 0 THEN @.balance ELSE r.seen.balance + r.amount]]
  /\ SetStatus(r.rows, "cancelled")
  /\ unbooked' = [unbooked EXCEPT ![r.worker] = @ + r.amount]
  /\ NoteClash(s, r.worker, TRUE, r.rows)
  /\ Finish(s)
  /\ UNCHANGED <<booked, earned>>

\* auto_ban_colluders: withdrawals stay pending.
AutoBan(w) ==
  /\ ~purse[w].banned
  /\ PurseUnlocked(w)
  /\ purse' = [purse EXCEPT ![w].banned = TRUE]
  /\ UNCHANGED <<payout, booked, desk, earned, unbooked, clashed>>

Unban(w) ==
  /\ purse[w].banned
  /\ PurseUnlocked(w)
  /\ purse' = [purse EXCEPT ![w].banned = FALSE]
  /\ UNCHANGED <<payout, booked, desk, earned, unbooked, clashed>>

-----------------------------------------------------------------------------

WalletInit ==
  /\ purse = [w \in Owners |-> [balance |-> 0, banned |-> FALSE]]
  /\ payout = [d \in Payouts |-> [owner |-> NoRow, amount |-> 0, status |-> "none"]]
  /\ booked = [w \in Owners |-> 0]
  /\ desk = [s \in Desks |-> NoRequest]
  /\ earned = [w \in Owners |-> 0]
  /\ unbooked = [w \in Owners |-> 0]
  /\ clashed = {}

WalletNext ==
  \/ \E s \in Desks :
       \/ \E w \in Owners : ReadReward(s, w) \/ ReadBanned(s, w)
       \/ \E w \in Owners, amount \in Amounts : ReadWithdraw(s, w, amount)
       \/ \E d \in Payouts, kind \in {"approving", "paying", "rejecting", "cancelling"} :
            ReadPayout(s, d, kind)
       \/ CheckFunds(s) \/ ReadOwner(s) \/ ListPending(s)
       \/ CommitReward(s) \/ CommitHold(s) \/ CommitDecision(s)
       \/ CommitRefund(s) \/ CommitBanned(s)
  \/ \E w \in Owners : AutoBan(w) \/ Unban(w)

WalletSpec == WalletInit /\ [][WalletNext]_walletVars

-----------------------------------------------------------------------------
(* What must hold *)

WalletTypeOK ==
  /\ purse \in [Owners -> [balance : Int, banned : BOOLEAN]]
  /\ payout \in [Payouts -> [owner : Owners \cup {NoRow}, amount : Amounts \cup {0},
                   status : {"none", "pending", "approved", "rejected", "paid", "cancelled"}]]
  /\ booked \in [Owners -> Int]
  /\ earned \in [Owners -> 0 .. MaxEarned]
  /\ unbooked \in [Owners -> Nat]
  /\ clashed \subseteq Owners

Claims(w) ==
  {d \in Payouts : payout[d].owner = w /\ payout[d].status \in {"pending", "approved", "paid"}}

\* Until two requests about a worker overlap on a row, everything the worker earned is in the
\* balance or in withdrawals that are pending, approved or paid, and the ledger explains the
\* balance up to the refunds of bans, which write no transaction.
MoneyConserved ==
  \A w \in Owners \ clashed :
    /\ earned[w] = purse[w].balance + SumOf(Claims(w))
    /\ purse[w].balance = booked[w] + unbooked[w]

\* Rows have their types, and no money is made or lost.
WalletInv == WalletTypeOK /\ MoneyConserved

\* However requests overlap, no balance is negative: the check of the funds and the hold use the
\* same reading of the balance, and whatever is written later was computed from one that was not
\* negative.  (A worker may still withdraw more than it earned: two cancellations of the same
\* withdrawal that overlap, the second after the first wrote the balance, refund it twice.)
NeverOverdrawn == \A w \in Owners : purse[w].balance >= 0

\* Until two requests about a worker overlap on a row, a withdrawal only moves from pending to
\* approved, rejected or cancelled and from approved to paid: what was refunded is not paid.
DecisionsAreFinal ==
  [][\A d \in Payouts :
       payout[d].owner \in Owners \ clashed' =>
         \/ payout'[d] = payout[d]
         \/ payout[d].status = "pending" /\ payout'[d].status \in {"approved", "rejected", "cancelled"}
         \/ payout[d].status = "approved" /\ payout'[d].status = "paid"]_walletVars

=============================================================================
