-------------------------- MODULE ReputationDecay --------------------------
(***************************************************************************)
(* The decay of inactive workers' reputation (server/reputation_decay.py), *)
(* run by hand through POST /admin/reputation-decay/run, with the other    *)
(* writers of the same columns: verdicts (tasks.update_reputation) and     *)
(* POST /admin/reset-reputation.  Every one of them reads worker rows,     *)
(* computes, and commits later; an UPDATE sets only the columns whose      *)
(* value differs from what was read, and a trigger of the database sets    *)
(* the level with every reputation.                                        *)
(*                                                                         *)
(* Abstractions.  Reputation is in thousandths.  Time passes in whole      *)
(* days; a worker who never had a task counts from its creation, so one    *)
(* counter serves both.  Histories and audit rows are left out.            *)
(* apply_reactivation_bonus is called by nothing and left out.             *)
(***************************************************************************)
EXTENDS Integers, FiniteSets

CONSTANTS
  Members,        \* workers whose reputation is followed
  Clerks,         \* bound: requests that write reputation open at the same time
  Changes,        \* changes of reputation by a verdict
  Ratings,        \* bound: reputations an administrator sets
  Spans,          \* bound: numbers of days that pass at once
  MaxIdle,        \* bound: days of inactivity are not counted further
  MaxRevisions    \* bound: verdicts, resets and runs

ASSUME DecayAssumption ==
  /\ Changes \subseteq Int
  /\ Ratings \subseteq 0 .. 10000
  /\ Spans \subseteq Nat \ {0}
  /\ MaxIdle \in Nat /\ MaxRevisions \in Nat

VARIABLES
  standing,       \* Worker row: reputation, reputation_level, is_banned
  idle,           \* days since last_task_at, or since created_at when it is NULL
  clerk,          \* the open request of each slot
  revisions,      \* verdicts, resets and runs so far (bound)
  spell,          \* history: runs, points lost and levels held since the last task
  mixed           \* history: workers with a commit of a request that had read an older row

decayVars == <<standing, idle, clerk, revisions, spell, mixed>>

GracePeriodDays == 7
MinReputation == 500
MaxDecayPerRun == 500

Levels == {"bronze", "silver", "gold", "platinum", "diamond"}

LevelOf(reputation) ==
  CASE reputation >= 5000 -> "diamond"
    [] reputation \in 3000 .. 4999 -> "platinum"
    [] reputation \in 2000 .. 2999 -> "gold"
    [] reputation \in 1500 .. 1999 -> "silver"
    [] OTHER -> "bronze"

DecayRates == [bronze |-> 20, silver |-> 15, gold |-> 10, platinum |-> 5, diamond |-> 2]

Least(a, b) == IF a <= b THEN a ELSE b
Most(a, b) == IF a >= b THEN a ELSE b

\* Mutant: the days of grace are charged as well.
CalculateDecayFromDayOne(row, days) ==
  IF days <= GracePeriodDays \/ row.reputation <= MinReputation THEN 0
  ELSE Least(Least(DecayRates[row.level] * days, MaxDecayPerRun), row.reputation - MinReputation)

\* calculate_decay
CalculateDecay(row, days) ==
  IF days <= GracePeriodDays \/ row.reputation <= MinReputation THEN 0
  ELSE Least(Least(DecayRates[row.level] * (days - GracePeriodDays), MaxDecayPerRun),
             row.reputation - MinReputation)

\* The query of run_decay_job; a worker in its grace period decays by nothing anyway.
Eligible(w) ==
  /\ ~standing[w].banned
  /\ standing[w].reputation > MinReputation
  /\ idle[w] >= GracePeriodDays

\* The row with another reputation and the level that goes with it.
Rated(row, reputation) == [row EXCEPT !.reputation = reputation, !.level = LevelOf(reputation)]

\* apply_decay
AfterDecay(row, days) ==
  LET decay == CalculateDecay(row, days) IN
  IF decay = 0 THEN row ELSE Rated(row, Most(MinReputation, row.reputation - decay))

NotServing == [kind |-> "none", rows |-> <<>>, change |-> 0, days |-> <<>>]

AtLeisure(c) == clerk[c] = NotServing

Take(c, request) == clerk' = [clerk EXCEPT ![c] = request]

Release(c) == clerk' = [clerk EXCEPT ![c] = NotServing]

\* The row in the table after a handler that read old and computed new has committed.
Merged(current, old, new) ==
  [column \in DOMAIN current |-> IF new[column] = old[column] THEN current[column] ELSE new[column]]

\* trigger_update_reputation_level: an UPDATE of the reputation sets the level, too.
Stored(current, old, new) ==
  LET row == Merged(current, old, new) IN
  IF new.reputation = old.reputation THEN row ELSE Rated(row, row.reputation)

\* The rows after a commit, and the workers whose row had moved on since it was read.
WriteStandings(old, new) ==
  /\ standing' = [w \in Members |->
                    IF w \in DOMAIN old THEN Stored(standing[w], old[w], new[w]) ELSE standing[w]]
  /\ mixed' = mixed \cup {w \in DOMAIN old : new[w] # old[w] /\ standing[w] # old[w]}

-----------------------------------------------------------------------------
(* run_decay_job *)

ReadRun(c) ==
  LET rows == {w \in Members : Eligible(w)} IN
  /\ AtLeisure(c)
  /\ revisions < MaxRevisions
  /\ revisions' = revisions + 1
  /\ rows # {}
  /\ Take(c, [kind |-> "decaying", rows |-> [w \in rows |-> standing[w]], change |-> 0,
              days |-> [w \in rows |-> idle[w]]])
  /\ UNCHANGED <<standing, idle, spell, mixed>>

\* dry_run = TRUE: the results are returned and nothing is written.
FinishDryRun(c) ==
  /\ clerk[c].kind = "decaying"
  /\ Release(c)
  /\ UNCHANGED <<standing, idle, revisions, spell, mixed>>

CommitRun(c) ==
  LET r     == clerk[c]
      new   == [w \in DOMAIN r.rows |-> AfterDecay(r.rows[w], r.days[w])]
      hit   == {w \in DOMAIN r.rows : new[w] # r.rows[w]}
      moved == {w \in hit : idle[w] < r.days[w]}
  IN
  /\ r.kind = "decaying"
  /\ standing' = [w \in Members |->
                    IF w \in hit THEN Stored(standing[w], r.rows[w], new[w]) ELSE standing[w]]
  /\ mixed' = mixed \cup moved \cup {w \in hit : standing[w] # r.rows[w]}
  /\ spell' = [w \in Members |->
                 IF w \in hit
                 THEN [spell[w] EXCEPT !.runs = @ + 1,
                                       !.lost = @ + r.rows[w].reputation - new[w].reputation,
                                       !.levels = @ \cup {new[w].level}]
                 ELSE spell[w]]
  /\ Release(c)
  /\ UNCHANGED <<idle, revisions>>

-----------------------------------------------------------------------------
(* update_reputation and reset_reputation *)

ReadRevision(c, w, kind, change) ==
  /\ AtLeisure(c)
  /\ revisions < MaxRevisions
  /\ Take(c, [kind |-> kind, rows |-> [m \in {w} |-> standing[m]], change |-> change, days |-> <<>>])
  /\ revisions' = revisions + 1
  /\ UNCHANGED <<standing, idle, spell, mixed>>

\* The reputation after a verdict is clamped to 0 .. 10.
RevisedBy(r, w) ==
  IF r.kind = "resetting" THEN r.change
  ELSE Most(0, Least(10000, r.rows[w].reputation + r.change))

CommitRevision(c) ==
  LET r   == clerk[c]
      new == [w \in DOMAIN r.rows |-> Rated(r.rows[w], RevisedBy(r, w))]
  IN
  /\ r.kind \in {"judging", "resetting"}
  /\ WriteStandings(r.rows, new)
  /\ spell' = [w \in Members |->
                 IF w \in DOMAIN r.rows THEN [spell[w] EXCEPT !.levels = @ \cup {new[w].level}]
                 ELSE spell[w]]
  /\ Release(c)
  /\ UNCHANGED <<idle, revisions>>

-----------------------------------------------------------------------------
(* Requests that write other columns, and time *)

\* get_next_task in work mode; validations leave last_task_at alone.
TakesTask(w) ==
  /\ ~standing[w].banned
  /\ idle[w] > 0
  /\ idle' = [idle EXCEPT ![w] = 0]
  /\ spell' = [spell EXCEPT ![w] = [runs |-> 0, lost |-> 0, levels |-> {standing[w].level}]]
  /\ UNCHANGED <<standing, clerk, revisions, mixed>>

Exclude(w) ==
  /\ standing' = [standing EXCEPT ![w].banned = ~@]
  /\ UNCHANGED <<idle, clerk, revisions, spell, mixed>>

DaysPass(days) ==
  /\ \A w \in Members : idle[w] + days <= MaxIdle
  /\ idle' = [w \in Members |-> idle[w] + days]
  /\ UNCHANGED <<standing, clerk, revisions, spell, mixed>>

-----------------------------------------------------------------------------

DecayInit ==
  /\ standing = [w \in Members |-> [reputation |-> 1000, level |-> "bronze", banned |-> FALSE]]
  /\ idle = [w \in Members |-> 0]
  /\ clerk = [c \in Clerks |-> NotServing]
  /\ revisions = 0
  /\ spell = [w \in Members |-> [runs |-> 0, lost |-> 0, levels |-> {"bronze"}]]
  /\ mixed = {}

DecayNext ==
  \/ \E c \in Clerks :
       \/ ReadRun(c) \/ FinishDryRun(c) \/ CommitRun(c) \/ CommitRevision(c)
       \/ \E w \in Members :
            \/ \E change \in Changes : ReadRevision(c, w, "judging", change)
            \/ \E rating \in Ratings : ReadRevision(c, w, "resetting", rating)
  \/ \E w \in Members : TakesTask(w) \/ Exclude(w)
  \/ \E days \in Spans : DaysPass(days)

DecaySpec == DecayInit /\ [][DecayNext]_decayVars

-----------------------------------------------------------------------------
(* What must hold *)

DecayTypeOK ==
  /\ standing \in [Members -> [reputation : 0 .. 10000, level : Levels, banned : BOOLEAN]]
  /\ idle \in [Members -> 0 .. MaxIdle]
  /\ revisions \in 0 .. MaxRevisions
  /\ spell \in [Members -> [runs : Nat, lost : Nat, levels : SUBSET Levels]]
  /\ mixed \subseteq Members

\* The level is the one the documented thresholds give for the reputation, whichever of the
\* three writers commits last and whatever row it had read: the trigger sees to it, and a level
\* is never written without a reputation.
LevelFollowsReputation ==
  \A w \in Members : standing[w].level = LevelOf(standing[w].reputation)

\* A worker that one run has hit since its last task has lost at most the documented daily rate
\* of a level it held, for the days after the grace period.  (Every further run charges those
\* days again.)
OneRunChargesDailyRate ==
  \A w \in Members \ mixed :
    spell[w].runs <= 1 =>
      \E level \in spell[w].levels :
        spell[w].lost <= DecayRates[level] * Most(0, idle[w] - GracePeriodDays)

\* Reputations keep the documented rules, in whatever order verdicts, resets and runs commit.
DecayInv == DecayTypeOK /\ LevelFollowsReputation /\ OneRunChargesDailyRate

=============================================================================
