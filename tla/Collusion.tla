----------------------------- MODULE Collusion -----------------------------
(***************************************************************************)
(* Collusion detection (server/collusion.py) and the administration        *)
(* endpoints that run it: scores of single workers, the automatic ban that *)
(* follows from them, and the greedy search for rings of workers that      *)
(* validate each other.                                                    *)
(*                                                                         *)
(* The search walks a dictionary and sets, in an order that depends on     *)
(* hashing and on the order of the rows; it is modelled one vertex at a    *)
(* time, in any order.                                                     *)
(*                                                                         *)
(* Abstractions.  The validated tasks within the last days are counts per  *)
(* executor and validator.  Scores are thousandths rounded down, which     *)
(* leaves every comparison with a threshold as it is (a float may round    *)
(* otherwise).  The texts and details of evidence are left out.            *)
(***************************************************************************)
EXTENDS Integers, FiniteSets, FiniteSetsExt

CONSTANTS
  Suspects,       \* workers
  Logs,           \* bound: the histories considered: done, rejected by pair, and fast
  MinRingSize     \* parameter of GET /admin/collusion/rings

ASSUME CollusionAssumption ==
  /\ MinRingSize \in 2 .. 10
  /\ IsFiniteSet(Suspects)
  /\ Logs \subseteq [done : [Suspects \X Suspects -> Nat], rejected : [Suspects \X Suspects -> Nat],
                     fast : [Suspects -> Nat]]

VARIABLES
  verdicts,       \* done and rejected tasks by <<executor, validator>>, and fast validations
  barred,         \* is_banned
  scan,           \* reports of the last scan, none before it
  ring            \* the search: visited workers, clique at hand, neighbours to try, rings found

collusionVars == <<verdicts, barred, scan, ring>>

MinMutualValidations == 5
MutualValidationThreshold == 600
MinTasksForAnalysis == 10
PerfectApprovalThreshold == 980
SuspiciousTimingRatio == 500
CollusionScoreThreshold == 700
AutoBanThreshold == 900

Done(e, v) == verdicts.done[<<e, v>>]
Total(e, v) == verdicts.done[<<e, v>>] + verdicts.rejected[<<e, v>>]

\* Tasks of w that others validated, and validations by w.
ValidatedBy(w) == MapThenSumSet(LAMBDA v : Total(w, v), Suspects)
ValidatedOf(w) == MapThenSumSet(LAMBDA e : Total(e, w), Suspects)

AtLeastOne(n) == IF n = 0 THEN 1 ELSE n

Evidence(kind, score, partners) == [kind |-> kind, score |-> score, partners |-> partners]

-----------------------------------------------------------------------------
(* Scores *)

\* (my_ratio + their_ratio) / 2 for w and a partner.
MutualScore(w, p) ==
  LET mine   == AtLeastOne(ValidatedOf(w))
      theirs == AtLeastOne(ValidatedBy(w))
  IN (1000 * (Total(p, w) * theirs + Total(w, p) * mine)) \div (2 * mine * theirs)

\* Partners are looked for among the validators of the worker's own tasks.
AnalyzeMutualValidations(w) ==
  {Evidence("mutual_validation", MutualScore(w, p), {w, p}) :
     p \in {q \in Suspects :
              /\ Total(w, q) > 0
              /\ Total(w, q) + Total(q, w) >= MinMutualValidations
              /\ MutualScore(w, q) >= MutualValidationThreshold}}

ApprovalRate(e, v) == (1000 * Done(e, v)) \div Total(e, v)

Approving(e, v) ==
  /\ Total(e, v) >= MinTasksForAnalysis
  /\ ApprovalRate(e, v) >= PerfectApprovalThreshold

\* As executor with each validator, and as validator with each executor.
AnalyzeApprovalRates(w) ==
  {Evidence("high_approval_rate", ApprovalRate(w, v), {w, v}) :
     v \in {x \in Suspects : Approving(w, x)}}
  \cup
  {Evidence("always_approving", ApprovalRate(e, w), {w, e}) :
     e \in {x \in Suspects : Approving(x, w)}}

\* Mutant: the ratio is taken whatever the number of validations.
AnalyzeTimingOfAny(w) ==
  LET ratio == (1000 * verdicts.fast[w]) \div AtLeastOne(ValidatedOf(w)) IN
  IF ratio < SuspiciousTimingRatio THEN {} ELSE {Evidence("suspicious_timing", ratio, {w})}

AnalyzeTimingPatterns(w) ==
  LET ratio == (1000 * verdicts.fast[w]) \div AtLeastOne(ValidatedOf(w)) IN
  IF ValidatedOf(w) < MinTasksForAnalysis \/ ratio < SuspiciousTimingRatio THEN {}
  ELSE {Evidence("suspicious_timing", ratio, {w})}

\* analyze_worker: the score is the one of the strongest evidence.
AnalyzeWorker(w) ==
  LET evidence == AnalyzeMutualValidations(w) \cup AnalyzeApprovalRates(w)
                    \cup AnalyzeTimingPatterns(w)
      score    == IF evidence = {} THEN 0 ELSE Max({e.score : e \in evidence})
  IN [score |-> score, evidence |-> evidence,
      recommendation |-> CASE score >= AutoBanThreshold -> "AUTO_BAN"
                           [] score \in CollusionScoreThreshold .. AutoBanThreshold - 1 -> "REVIEW"
                           [] OTHER -> "OK"]

\* Workers a scan looks at: not banned and with a task completed.
Active == {w \in Suspects : w \notin barred /\ \E v \in Suspects : Done(w, v) > 0}

NoScan == [w \in {} |-> 0]

\* run_full_scan: the reports of the suspicious ones.
RunFullScan ==
  /\ scan = NoScan
  /\ scan' = [w \in {x \in Active : AnalyzeWorker(x).score >= CollusionScoreThreshold}
                |-> AnalyzeWorker(w)]
  /\ UNCHANGED <<verdicts, barred, ring>>

\* auto_ban_colluders; a dry run changes nothing.
AutoBanColluders ==
  /\ scan # NoScan
  /\ barred' = barred \cup {w \in DOMAIN scan : scan[w].recommendation = "AUTO_BAN"}
  /\ scan' = NoScan
  /\ UNCHANGED <<verdicts, ring>>

DryRun ==
  /\ scan # NoScan
  /\ scan' = NoScan
  /\ UNCHANGED <<verdicts, barred, ring>>

-----------------------------------------------------------------------------
(* Rings *)

\* Three tasks of one validated by the other, in either direction.
Edge(a, b) == a # b /\ (Total(a, b) >= 3 \/ Total(b, a) >= 3)

Neighbours(w) == {x \in Suspects : Edge(w, x)}

Vertices == {w \in Suspects : Neighbours(w) # {}}

NoSearch == [visited |-> {}, clique |-> {}, candidates |-> {}, found |-> {}]

StartClique(w) ==
  /\ ring.clique = {}
  /\ w \in Vertices \ ring.visited
  /\ ring' = [ring EXCEPT !.clique = {w}, !.candidates = Neighbours(w)]
  /\ UNCHANGED <<verdicts, barred, scan>>

\* Mutant: a candidate is compared with some member of the clique.
ConsiderOne(c) ==
  /\ c \in ring.candidates
  /\ ring' = [ring EXCEPT !.candidates = @ \ {c},
                          !.clique = IF \E m \in @ : Edge(m, c) THEN @ \cup {c} ELSE @]
  /\ UNCHANGED <<verdicts, barred, scan>>

\* One neighbour of the start, in the order of the set.
Consider(c) ==
  /\ c \in ring.candidates
  /\ ring' = [ring EXCEPT !.candidates = @ \ {c},
                          !.clique = IF \A m \in @ : Edge(m, c) THEN @ \cup {c} ELSE @]
  /\ UNCHANGED <<verdicts, barred, scan>>

\* Members are not started from again, whether or not they make a ring.
EndClique ==
  /\ ring.clique # {} /\ ring.candidates = {}
  /\ ring' = [ring EXCEPT !.clique = {}, !.visited = @ \cup ring.clique,
                          !.found = IF Cardinality(ring.clique) >= MinRingSize
                                    THEN @ \cup {ring.clique} ELSE @]
  /\ UNCHANGED <<verdicts, barred, scan>>

-----------------------------------------------------------------------------

CollusionInit ==
  /\ verdicts \in Logs
  /\ barred = {}
  /\ scan = NoScan
  /\ ring = NoSearch

CollusionNext ==
  \/ RunFullScan \/ AutoBanColluders \/ DryRun
  \/ \E w \in Suspects : StartClique(w) \/ Consider(w)
  \/ EndClique

CollusionSpec == CollusionInit /\ [][CollusionNext]_collusionVars

-----------------------------------------------------------------------------
(* What must hold *)

CollusionTypeOK ==
  /\ barred \subseteq Suspects
  /\ DOMAIN scan \subseteq Suspects
  /\ ring.visited \cup ring.clique \cup ring.candidates \subseteq Suspects
  /\ \A group \in ring.found : group \subseteq Suspects

SearchOver == ring.clique = {} /\ Vertices \subseteq ring.visited

\* In whatever order the search goes, what it reports are complete groups that no worker could
\* be added to, and it misses no group "of workers who only validate each other": a complete
\* group without an edge to anyone else.
RingsAreCliques ==
  /\ \A group \in ring.found :
       \A w \in Suspects : w \in group <=> \A m \in group \ {w} : Edge(m, w)
  /\ SearchOver =>
       \A w \in Vertices :
         LET group == {w} \cup Neighbours(w) IN
         (Cardinality(group) >= MinRingSize /\ \A m \in group : {m} \cup Neighbours(m) = group)
            => group \in ring.found

\* Whoever a scan reports has validated for, or was validated by, some worker at least five
\* times or has ten validations to judge the speed by; and evidence of mutual validation means
\* that both have validated the other.
ReportsHaveGround ==
  \A w \in DOMAIN scan :
    /\ \/ \E p \in Suspects : Total(w, p) + Total(p, w) >= MinMutualValidations
       \/ ValidatedOf(w) >= MinTasksForAnalysis
    /\ \A e \in scan[w].evidence :
         e.kind = "mutual_validation" =>
           \A a, b \in e.partners : a # b => Total(a, b) > 0

\* Rings and reports both rest on what the workers did.
CollusionInv == CollusionTypeOK /\ RingsAreCliques /\ ReportsHaveGround

=============================================================================
