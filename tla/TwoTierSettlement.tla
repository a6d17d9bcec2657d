-------------------------- MODULE TwoTierSettlement --------------------------
(***************************************************************************)
(* What the two-tier pipeline promises to its users, without queues,       *)
(* leases or statuses: a task is open until a single step settles it; that *)
(* step names an executor and a different validator, gives a verdict, and  *)
(* credits exactly what the verdict says.  Nothing else moves money.       *)
(* TaskRefinement shows that TaskPipeline implements this specification.   *)
(***************************************************************************)
EXTENDS Integers, Sequences

CONSTANTS Workers, TaskIds, BaseRewards

VARIABLES
  settled,      \* what is known of each task: open, or its verdict and parties
  payments,     \* the payments made for each task
  funds         \* the balance of each worker

settlementVars == <<settled, payments, funds>>

Open == [verdict |-> "open"]

Settlement(verdict, a, b) == [verdict |-> verdict, executor |-> a, validator |-> b]

\* Two fifths of the executor's reward go to the validator.
ValidatorShare(reward) == (reward * 4) \div 10

CaughtMismatchBonus == 10

\* A done task pays both tiers.
Accept(t, a, b, reward) ==
  /\ settled' = [settled EXCEPT ![t] = Settlement("done", a, b)]
  /\ payments' = [payments EXCEPT ![t] =
       << [worker |-> a, kind |-> "reward", amount |-> reward],
          [worker |-> b, kind |-> "reward", amount |-> ValidatorShare(reward)] >>]
  /\ funds' = [funds EXCEPT ![a] = @ + reward, ![b] = @ + ValidatorShare(reward)]

\* A disagreement pays the validator a bonus.
RejectMismatch(t, a, b) ==
  /\ settled' = [settled EXCEPT ![t] = Settlement("rejected", a, b)]
  /\ payments' = [payments EXCEPT ![t] =
       << [worker |-> b, kind |-> "bonus", amount |-> CaughtMismatchBonus] >>]
  /\ funds' = [funds EXCEPT ![b] = @ + CaughtMismatchBonus]

\* A missed golden answer pays nobody.
RejectGolden(t, a, b) ==
  /\ settled' = [settled EXCEPT ![t] = Settlement("rejected", a, b)]
  /\ UNCHANGED <<payments, funds>>

Settle(t, a, b) ==
  /\ settled[t] = Open
  /\ a # b
  /\ \/ \E reward \in BaseRewards : Accept(t, a, b, reward)
     \/ RejectMismatch(t, a, b)
     \/ RejectGolden(t, a, b)

SettlementInit ==
  /\ settled = [t \in TaskIds |-> Open]
  /\ payments = [t \in TaskIds |-> << >>]
  /\ funds = [w \in Workers |-> 0]

SettlementNext == \E t \in TaskIds, a, b \in Workers : Settle(t, a, b)

SettlementSpec == SettlementInit /\ [][SettlementNext]_settlementVars
=============================================================================
