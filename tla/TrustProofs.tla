---------------------------- MODULE TrustProofs -----------------------------
(***************************************************************************)
(* What decides whether a worker is trusted: the decay of its reputation   *)
(* (ReputationDecay) and the score of its pairs (Collusion).               *)
(*                                                                         *)
(* DecayInv holds for any number of workers and of open requests, any      *)
(* changes and ratings, and any numbers of days. What must be added to it: *)
(* every row, in the table or in the hands of an open request, has the     *)
(* level of its reputation, a worker whose row was never written from an   *)
(* older reading has its level among those of its spell, and a spell       *)
(* without a run has lost nothing.                                         *)
(*                                                                         *)
(* CollusionInv holds for any finite set of suspects and any logs of their *)
(* validations. For the search, what must be added says where it is: the   *)
(* clique in hand is complete, everyone who could still join it is among   *)
(* the candidates, and a clique that was left is reported if it is large   *)
(* enough. For the reports the scores themselves are bounded: a mutual     *)
(* score above its threshold takes validations in both directions, and     *)
(* every score that makes a worker suspicious takes some validations.      *)
(***************************************************************************)
EXTENDS ReputationDecay, Collusion, FiniteSums

-----------------------------------------------------------------------------
(* The decay of a reputation *)

Reputations == 0 .. 10000

Standings == [reputation : Reputations, level : Levels, banned : BOOLEAN]

Spells == [runs : Nat, lost : Nat, levels : SUBSET Levels]

\* Rows with the level of their reputation.
Graded == {row \in Standings : row.level = LevelOf(row.reputation)}

\* What an open request has read are rows, and what it is to write is a reputation.
ClerksOK ==
  /\ DOMAIN clerk = Clerks
  /\ \A c \in Clerks :
       /\ DOMAIN clerk[c].rows \subseteq Members
       /\ \A w \in DOMAIN clerk[c].rows : clerk[c].rows[w] \in Graded
       /\ clerk[c].kind = "decaying" =>
            \A w \in DOMAIN clerk[c].rows : clerk[c].days[w] \in 0 .. MaxIdle
       /\ clerk[c].kind = "judging" => clerk[c].change \in Int
       /\ clerk[c].kind = "resetting" => clerk[c].change \in Reputations

\* What may be said of a worker whose row was never written from an older reading: besides
\* the two rules, its level belongs to its spell, and points are lost in runs only.
Sound(row, days, s) ==
  /\ row.level = LevelOf(row.reputation)
  /\ s.runs <= 1 => \E level \in s.levels : s.lost <= DecayRates[level] * Most(0, days - GracePeriodDays)
  /\ row.level \in s.levels
  /\ s.runs = 0 => s.lost = 0

IInv ==
  /\ DecayTypeOK /\ ClerksOK
  /\ \A w \in Members : standing[w] \in Graded
  /\ \A w \in Members \ mixed : Sound(standing[w], idle[w], spell[w])

-----------------------------------------------------------------------------
(* The operators *)

\* Reputations can be calculated with.
LEMMA ReputationsAreInt == \A points \in Reputations : points \in Int
  BY DEF Reputations

\* Every reputation has a level.
LEMMA LevelOfIsLevel ==
  ASSUME NEW points \in Reputations
  PROVE  LevelOf(points) \in Levels
  BY DEF LevelOf, Levels, Reputations

\* A row with another reputation is a row, and its level is the documented one.
LEMMA RatedIsStanding ==
  ASSUME NEW row \in Standings, NEW points \in Reputations
  PROVE  /\ Rated(row, points) \in Standings
         /\ Rated(row, points).reputation = points
         /\ Rated(row, points).level = LevelOf(points)
  <1>1. PICK rank \in Levels : rank = LevelOf(points)
    BY LevelOfIsLevel
  <1>2. Rated(row, points) = [row EXCEPT !.reputation = points, !.level = rank]
    BY <1>1 DEF Rated
  <1>3. /\ [row EXCEPT !.reputation = points, !.level = rank] \in Standings
        /\ [row EXCEPT !.reputation = points, !.level = rank].reputation = points
        /\ [row EXCEPT !.reputation = points, !.level = rank].level = rank
    BY DEF Standings
  <1> QED
    <2>1. Rated(row, points) \in Standings
      BY <1>2, <1>3
    <2>2. Rated(row, points).reputation = points
      BY <1>2, <1>3
    <2>3. Rated(row, points).level = rank
      BY <1>2, <1>3
    <2> QED
      BY <1>1, <2>1, <2>2, <2>3

\* What a run may charge a row for so many days.
Owed(row, days) == DecayRates[row.level] * Most(0, days - GracePeriodDays)

\* A daily rate is a natural number.
LEMMA OwedIsNat ==
  ASSUME NEW row \in Standings, NEW days \in 0 .. MaxIdle
  PROVE  /\ Owed(row, days) \in Nat
         /\ days > GracePeriodDays => Owed(row, days) = DecayRates[row.level] * (days - GracePeriodDays)
  <1>1. row.level \in {"bronze", "silver", "gold", "platinum", "diamond"}
    BY DEF Standings, Levels
  <1>2. DecayRates[row.level] \in Nat
    BY <1>1 DEF DecayRates
  <1>3. PICK rate \in Nat : rate = DecayRates[row.level]
    BY <1>2
  <1>4. days \in Nat
    BY DecayAssumption
  <1>5. PICK late \in Nat : late = Most(0, days - GracePeriodDays)
    BY <1>4 DEF Most, GracePeriodDays
  <1>6. days > GracePeriodDays => late = days - GracePeriodDays
    BY <1>4, <1>5 DEF Most, GracePeriodDays
  <1>7. Owed(row, days) = rate * late
    BY <1>3, <1>5 DEF Owed
  <1>8. rate * late \in Nat
    OBVIOUS
  <1> QED
    BY <1>3, <1>6, <1>7, <1>8

\* The decay is no more than the daily rate, and leaves a reputation.
LEMMA DecayBounds ==
  ASSUME NEW row \in Standings, NEW days \in 0 .. MaxIdle
  PROVE  /\ CalculateDecay(row, days) \in Reputations
         /\ CalculateDecay(row, days) <= Owed(row, days)
         /\ \/ CalculateDecay(row, days) = 0
            \/ row.reputation - CalculateDecay(row, days) >= MinReputation
  <1>1. PICK points \in Reputations : points = row.reputation
    BY DEF Standings
  <1>2. days \in Nat
    BY DecayAssumption
  <1>3. PICK owed \in Nat : owed = Owed(row, days)
    BY OwedIsNat
  <1>4. CASE days <= GracePeriodDays \/ row.reputation <= MinReputation
    <2>1. CalculateDecay(row, days) = 0
      BY <1>4 DEF CalculateDecay
    <2> QED
      BY <1>3, <2>1 DEF Reputations
  <1>5. CASE ~(days <= GracePeriodDays \/ row.reputation <= MinReputation)
    <2>1. days > GracePeriodDays /\ points > 500
      BY <1>1, <1>2, <1>5 DEF GracePeriodDays, MinReputation, Reputations
    <2>2. owed = DecayRates[row.level] * (days - GracePeriodDays)
      BY <1>3, <2>1, OwedIsNat
    <2>3. CalculateDecay(row, days) = Least(Least(owed, MaxDecayPerRun), points - MinReputation)
      BY <1>1, <1>5, <2>2 DEF CalculateDecay
    <2>4. PICK capped \in 0 .. 500 : capped = Least(owed, MaxDecayPerRun) /\ capped <= owed
      <3>1. CASE owed <= 500
        BY <3>1 DEF Least, MaxDecayPerRun
      <3>2. CASE owed > 500
        BY <3>2 DEF Least, MaxDecayPerRun
      <3> QED
        BY <3>1, <3>2
    <2>5. points - MinReputation \in Reputations /\ points \in Int
      BY <2>1 DEF MinReputation, Reputations
    <2>6. /\ Least(capped, points - MinReputation) \in Reputations
          /\ Least(capped, points - MinReputation) <= owed
          /\ points - Least(capped, points - MinReputation) >= MinReputation
      <3>1. CASE capped <= points - MinReputation
        <4>1. Least(capped, points - MinReputation) = capped
          BY <3>1 DEF Least
        <4>2. capped \in Reputations /\ points - capped >= MinReputation
          BY <2>5, <3>1 DEF MinReputation, Reputations
        <4> QED
          BY <2>4, <4>1, <4>2
      <3>2. CASE ~(capped <= points - MinReputation)
        <4>1. Least(capped, points - MinReputation) = points - MinReputation
          BY <3>2 DEF Least
        <4>2. points - MinReputation <= owed /\ points - (points - MinReputation) >= MinReputation
          BY <2>4, <2>5, <3>2 DEF MinReputation
        <4> QED
          BY <2>5, <4>1, <4>2
      <3> QED
        BY <2>4, <2>5, <3>1, <3>2
    <2>7. PICK decay \in Reputations :
            /\ decay = CalculateDecay(row, days)
            /\ decay <= owed /\ points - decay >= MinReputation
      BY <2>3, <2>4, <2>6
    <2>8. points \in Int /\ decay \in Int /\ MinReputation \in Int
      BY DEF Reputations, MinReputation
    <2>9. row.reputation - CalculateDecay(row, days) >= MinReputation
      BY <1>1, <2>7, <2>8
    <2> QED
      BY <1>3, <2>7, <2>9
  <1> QED
    BY <1>4, <1>5

\* A run leaves a row as it is, or gives it the reputation its decay leaves.
LEMMA AfterDecayIsStanding ==
  ASSUME NEW row \in Standings, NEW days \in 0 .. MaxIdle
  PROVE  /\ AfterDecay(row, days) \in Standings
         /\ \/ AfterDecay(row, days) = row
            \/ /\ AfterDecay(row, days).level = LevelOf(AfterDecay(row, days).reputation)
               /\ row.reputation - AfterDecay(row, days).reputation \in Nat
               /\ row.reputation - AfterDecay(row, days).reputation <= Owed(row, days)
  <1>1. PICK decay \in Reputations :
          /\ decay = CalculateDecay(row, days)
          /\ decay <= Owed(row, days)
          /\ decay = 0 \/ row.reputation - decay >= MinReputation
    BY DecayBounds
  <1>2. PICK points \in Reputations : points = row.reputation
    BY DEF Standings
  <1>3. points \in Int /\ decay \in Nat
    BY DEF Reputations
  <1>4. CASE decay = 0
    BY <1>1, <1>4 DEF AfterDecay
  <1>5. CASE decay # 0
    <2>1. points - decay >= MinReputation
      BY <1>1, <1>2, <1>5
    <2>2. points - decay \in Reputations /\ points - (points - decay) = decay
      BY <1>3, <2>1 DEF MinReputation, Reputations
    <2>3. Most(MinReputation, points - decay) = points - decay
      BY <1>3, <2>1 DEF Most, MinReputation
    <2>4. PICK left \in Reputations : left = points - decay /\ points - left = decay
      BY <2>2
    <2>5. AfterDecay(row, days) = Rated(row, left)
      BY <1>1, <1>2, <1>5, <2>3, <2>4 DEF AfterDecay
    <2>6. /\ Rated(row, left) \in Standings
          /\ Rated(row, left).reputation = left
          /\ Rated(row, left).level = LevelOf(left)
      BY RatedIsStanding
    <2>7. row.reputation - AfterDecay(row, days).reputation = decay
      BY <1>2, <2>4, <2>5, <2>6
    <2> QED
      BY <1>1, <1>3, <2>5, <2>6, <2>7
  <1> QED
    BY <1>4, <1>5

\* A commit over the row it had read writes what it computed; over any row, it writes a row;
\* and if it computed nothing new it writes nothing.
LEMMA MergedIsStanding ==
  ASSUME NEW current \in Standings, NEW old \in Standings, NEW new \in Standings
  PROVE  /\ Merged(current, old, new) \in Standings
         /\ current = old => Merged(current, old, new) = new
         /\ new = old => Merged(current, old, new) = current
  <1>1. Merged(current, old, new) =
          [reputation |-> IF new.reputation = old.reputation THEN current.reputation ELSE new.reputation,
           level |-> IF new.level = old.level THEN current.level ELSE new.level,
           banned |-> IF new.banned = old.banned THEN current.banned ELSE new.banned]
    <2>1. DOMAIN current = {"reputation", "level", "banned"}
      BY DEF Standings
    <2> QED
      BY <2>1 DEF Merged
  <1> QED
    BY <1>1 DEF Standings

\* The trigger keeps the level of the row with its reputation; otherwise it is Merged.
LEMMA StoredIsGraded ==
  ASSUME NEW current \in Graded, NEW old \in Graded, NEW new \in Graded
  PROVE  /\ Stored(current, old, new) \in Graded
         /\ current = old => Stored(current, old, new) = new
         /\ new = old => Stored(current, old, new) = current
  <1>1. /\ current \in Standings /\ current.level = LevelOf(current.reputation)
        /\ old \in Standings /\ old.level = LevelOf(old.reputation)
        /\ new \in Standings /\ new.level = LevelOf(new.reputation)
    BY DEF Graded
  <1>2. PICK row : row = Merged(current, old, new)
    OBVIOUS
  <1>3. /\ row \in Standings
        /\ current = old => row = new
        /\ new = old => row = current
    BY <1>1, <1>2, MergedIsStanding
  <1>4. /\ row.reputation = IF new.reputation = old.reputation THEN current.reputation ELSE new.reputation
        /\ row.level = IF new.level = old.level THEN current.level ELSE new.level
    BY <1>1, <1>2 DEF Merged, Standings
  <1>5. CASE new.reputation = old.reputation
    <2>1. Stored(current, old, new) = row
      BY <1>2, <1>5 DEF Stored
    <2>2. row.level = LevelOf(row.reputation)
      BY <1>1, <1>4, <1>5
    <2> QED
      BY <1>3, <2>1, <2>2 DEF Graded
  <1>6. CASE new.reputation # old.reputation
    <2>1. Stored(current, old, new) = Rated(row, new.reputation)
      BY <1>2, <1>4, <1>6 DEF Stored
    <2>2. new.reputation \in Reputations
      BY <1>1 DEF Standings
    <2>3. /\ Rated(row, new.reputation) \in Standings
          /\ Rated(row, new.reputation).reputation = new.reputation
          /\ Rated(row, new.reputation).level = LevelOf(new.reputation)
      BY <1>3, <2>2, RatedIsStanding
    <2>4. Rated(row, new.reputation) \in Graded
      BY <2>3 DEF Graded
    <2>5. ASSUME current = old
          PROVE  Rated(row, new.reputation) = new
      <3>1. Rated(new, new.reputation) = new
        BY <1>1 DEF Rated, Standings
      <3> QED
        BY <1>3, <2>5, <3>1
    <2> QED
      BY <1>6, <2>1, <2>4, <2>5
  <1> QED
    BY <1>5, <1>6

-----------------------------------------------------------------------------
(* What a change does to a worker that was sound *)

\* Daily rates are natural numbers.
LEMMA RateIsNat ==
  ASSUME NEW level \in Levels
  PROVE  DecayRates[level] \in Nat
  <1>1. level \in {"bronze", "silver", "gold", "platinum", "diamond"}
    BY DEF Levels
  <1> QED
    BY <1>1 DEF DecayRates

\* More days allow for more points.
LEMMA MoreDaysMorePoints ==
  ASSUME NEW level \in Levels, NEW days \in Nat, NEW later \in Nat, days <= later
  PROVE  /\ DecayRates[level] * Most(0, days - GracePeriodDays) \in Nat
         /\ DecayRates[level] * Most(0, later - GracePeriodDays) \in Nat
         /\ DecayRates[level] * Most(0, days - GracePeriodDays)
              <= DecayRates[level] * Most(0, later - GracePeriodDays)
  <1>1. PICK rate \in Nat : rate = DecayRates[level]
    BY RateIsNat
  <1>2. PICK few \in Nat, many \in Nat :
          /\ few = Most(0, days - GracePeriodDays) /\ many = Most(0, later - GracePeriodDays)
          /\ few <= many
    <2>1. /\ Most(0, days - GracePeriodDays) \in Nat
          /\ Most(0, later - GracePeriodDays) \in Nat
          /\ Most(0, days - GracePeriodDays) <= Most(0, later - GracePeriodDays)
      BY DEF Most, GracePeriodDays
    <2> QED
      BY <2>1
  <1>3. rate * few \in Nat /\ rate * many \in Nat
    OBVIOUS
  <1>4. PICK gap \in Nat : many = few + gap
    <2>1. many - few \in Nat /\ many = few + (many - few)
      BY <1>2
    <2> QED
      BY <2>1
  <1>5. rate * many = rate * few + rate * gap /\ rate * gap \in Nat
    BY <1>4
  <1>6. rate * few <= rate * many
    BY <1>3, <1>5
  <1> QED
    BY <1>1, <1>2, <1>3, <1>6

\* Days that pass, and further levels, leave a worker sound.
LEMMA SoundLater ==
  ASSUME NEW row, NEW days \in Nat, NEW later \in Nat, days <= later,
         NEW s \in Spells, NEW more \in Spells,
         more.runs = s.runs, more.lost = s.lost, s.levels \subseteq more.levels,
         Sound(row, days, s)
  PROVE  Sound(row, later, more)
  <1>1. s.levels \subseteq Levels /\ s.lost \in Nat
    BY DEF Spells
  <1>2. ASSUME s.runs <= 1
        PROVE  \E level \in more.levels :
                 more.lost <= DecayRates[level] * Most(0, later - GracePeriodDays)
    <2>1. PICK level \in s.levels : s.lost <= DecayRates[level] * Most(0, days - GracePeriodDays)
      BY <1>2 DEF Sound
    <2>2. /\ DecayRates[level] * Most(0, days - GracePeriodDays) \in Nat
          /\ DecayRates[level] * Most(0, later - GracePeriodDays) \in Nat
          /\ DecayRates[level] * Most(0, days - GracePeriodDays)
               <= DecayRates[level] * Most(0, later - GracePeriodDays)
      BY <1>1, MoreDaysMorePoints
    <2>3. s.lost <= DecayRates[level] * Most(0, later - GracePeriodDays)
      BY <1>1, <2>1, <2>2
    <2> QED
      BY <2>3
  <1> QED
    BY <1>2 DEF Sound

\* A worker that has just taken a task is sound.
LEMMA SoundAnew ==
  ASSUME NEW row \in Standings, row.level = LevelOf(row.reputation)
  PROVE  Sound(row, 0, [runs |-> 0, lost |-> 0, levels |-> {row.level}])
  <1>1. row.level \in Levels
    BY DEF Standings
  <1>2. DecayRates[row.level] * Most(0, 0 - GracePeriodDays) \in Nat
    BY <1>1, MoreDaysMorePoints
  <1>3. 0 <= DecayRates[row.level] * Most(0, 0 - GracePeriodDays)
    BY <1>2
  <1> QED
    BY <1>3 DEF Sound

\* One run charges a sound worker no more than its level owes for the days the run has read.
LEMMA SoundAfterRun ==
  ASSUME NEW row \in Standings, NEW days \in 0 .. MaxIdle, NEW later \in 0 .. MaxIdle, days <= later,
         NEW s \in Spells, NEW more \in Spells, Sound(row, later, s),
         NEW new, new = AfterDecay(row, days), new # row,
         more.runs = s.runs + 1, more.lost = s.lost + row.reputation - new.reputation,
         more.levels = s.levels \cup {new.level}
  PROVE  Sound(new, later, more)
  <1>1. days \in Nat /\ later \in Nat
    BY DecayAssumption
  <1>2. row.level \in Levels /\ row.reputation \in Int /\ s.lost \in Nat /\ s.runs \in Nat
    <2>1. row.level \in Levels /\ row.reputation \in Reputations
      BY DEF Standings
    <2>2. s.lost \in Nat /\ s.runs \in Nat
      BY DEF Spells
    <2> QED
      BY <2>1, <2>2, ReputationsAreInt
  <1>3. /\ new \in Standings
        /\ new.level = LevelOf(new.reputation)
        /\ row.reputation - new.reputation <= Owed(row, days)
    BY AfterDecayIsStanding
  <1>4. new.reputation \in Int
    <2>1. new.reputation \in Reputations
      BY <1>3 DEF Standings
    <2> QED
      BY <2>1, ReputationsAreInt
  <1>5. ASSUME more.runs <= 1
        PROVE  \E level \in more.levels :
                 more.lost <= DecayRates[level] * Most(0, later - GracePeriodDays)
    <2>1. s.runs = 0
      BY <1>2, <1>5
    <2>2. s.lost = 0
      BY <2>1 DEF Sound
    <2>3. more.lost = row.reputation - new.reputation
      BY <1>2, <1>4, <2>2
    <2>4. /\ Owed(row, days) \in Nat
          /\ DecayRates[row.level] * Most(0, later - GracePeriodDays) \in Nat
          /\ Owed(row, days) <= DecayRates[row.level] * Most(0, later - GracePeriodDays)
      BY <1>1, <1>2, MoreDaysMorePoints DEF Owed
    <2>5. more.lost \in Int /\ more.lost <= Owed(row, days)
      BY <1>2, <1>3, <1>4, <2>3
    <2>6. more.lost <= DecayRates[row.level] * Most(0, later - GracePeriodDays)
      BY <2>4, <2>5
    <2> QED
      BY <2>6 DEF Sound
  <1>6. more.runs # 0
    BY <1>2
  <1> QED
    BY <1>3, <1>5, <1>6 DEF Sound

\* A verdict or a reset gives a sound worker a reputation and its level.
LEMMA SoundAfterRevision ==
  ASSUME NEW row \in Standings, NEW days \in Nat, NEW points \in Reputations,
         NEW s \in Spells, NEW more \in Spells, Sound(row, days, s),
         more.runs = s.runs, more.lost = s.lost,
         more.levels = s.levels \cup {Rated(row, points).level}
  PROVE  Sound(Rated(row, points), days, more)
  <1>1. Sound(row, days, more)
    BY SoundLater
  <1>2. /\ Rated(row, points).reputation = points
        /\ Rated(row, points).level = LevelOf(points)
    BY RatedIsStanding
  <1> QED
    BY <1>1, <1>2 DEF Sound

-----------------------------------------------------------------------------
(* Every step preserves the invariant *)

\* What the type invariant says, in the words of these proofs.
LEMMA Types ==
  ASSUME DecayTypeOK
  PROVE  /\ standing \in [Members -> Standings]
         /\ idle \in [Members -> 0 .. MaxIdle]
         /\ spell \in [Members -> Spells]
         /\ revisions \in 0 .. MaxRevisions
         /\ mixed \subseteq Members
  BY DEF DecayTypeOK, Standings, Spells, Reputations

\* And conversely after a step.
LEMMA TypesNext ==
  ASSUME standing' \in [Members -> Standings],
         idle' \in [Members -> 0 .. MaxIdle],
         spell' \in [Members -> Spells],
         revisions' \in 0 .. MaxRevisions,
         mixed' \subseteq Members
  PROVE  DecayTypeOK'
  BY DEF DecayTypeOK, Standings, Spells, Reputations

\* Opening and ending a request disturbs nothing else.
LEMMA TakeKeeps ==
  ASSUME IInv, NEW c \in Clerks, NEW request, Take(c, request),
         revisions' \in 0 .. MaxRevisions,
         UNCHANGED <<standing, idle, spell, mixed>>,
         DOMAIN request.rows \subseteq Members,
         \A w \in DOMAIN request.rows : request.rows[w] \in Graded,
         request.kind = "decaying" => \A w \in DOMAIN request.rows : request.days[w] \in 0 .. MaxIdle,
         request.kind = "judging" => request.change \in Int,
         request.kind = "resetting" => request.change \in Reputations
  PROVE  IInv'
  <1>1. DecayTypeOK'
    BY Types, TypesNext DEF IInv
  <1>2. ClerksOK'
    <2>1. DOMAIN clerk' = Clerks /\ \A d \in Clerks : clerk'[d] = IF d = c THEN request ELSE clerk[d]
      BY DEF IInv, ClerksOK, Take
    <2> QED
      BY <2>1 DEF IInv, ClerksOK
  <1>3. /\ \A w \in Members \ mixed' : Sound(standing'[w], idle'[w], spell'[w])
        /\ \A w \in Members : standing'[w] \in Graded
    BY DEF IInv
  <1> QED
    BY <1>1, <1>2, <1>3 DEF IInv

\* Ending a request leaves the other requests as they were.
LEMMA ReleaseKeepsClerks ==
  ASSUME ClerksOK, NEW c \in Clerks, Release(c)
  PROVE  ClerksOK'
  <1>1. DOMAIN clerk' = Clerks /\ \A d \in Clerks : clerk'[d] = IF d = c THEN NotServing ELSE clerk[d]
    BY DEF ClerksOK, Release
  <1>2. DOMAIN NotServing.rows = {} /\ NotServing.kind = "none"
    BY DEF NotServing
  <1> QED
    BY <1>1, <1>2 DEF ClerksOK

\* run_decay_job reads the eligible workers.
LEMMA ReadRunKeeps ==
  ASSUME IInv, NEW c \in Clerks, ReadRun(c)
  PROVE  IInv'
  <1> DEFINE rows == {w \in Members : Eligible(w)}
             request == [kind |-> "decaying", rows |-> [w \in rows |-> standing[w]], change |-> 0,
                         days |-> [w \in rows |-> idle[w]]]
  <1>1. Take(c, request) /\ UNCHANGED <<standing, idle, spell, mixed>>
    BY DEF ReadRun
  <1>2. revisions' \in 0 .. MaxRevisions
    <2>1. revisions \in 0 .. MaxRevisions
      BY Types DEF IInv
    <2>2. revisions < MaxRevisions /\ revisions' = revisions + 1
      BY DEF ReadRun
    <2> QED
      BY <2>1, <2>2, DecayAssumption
  <1>3. /\ DOMAIN request.rows \subseteq Members
        /\ \A w \in DOMAIN request.rows : request.rows[w] \in Graded /\ request.days[w] \in 0 .. MaxIdle
    BY Types DEF IInv
  <1>4. request.kind = "decaying"
    OBVIOUS
  <1> HIDE DEF request
  <1> QED
    BY <1>1, <1>2, <1>3, <1>4, TakeKeeps

\* update_reputation and reset_reputation read the row of one worker.
LEMMA ReadRevisionKeeps ==
  ASSUME IInv, NEW c \in Clerks, NEW w \in Members, NEW kind, NEW change,
         \/ kind = "judging" /\ change \in Int
         \/ kind = "resetting" /\ change \in Reputations,
         ReadRevision(c, w, kind, change)
  PROVE  IInv'
  <1> DEFINE request == [kind |-> kind, rows |-> [m \in {w} |-> standing[m]], change |-> change, days |-> <<>>]
  <1>1. Take(c, request) /\ UNCHANGED <<standing, idle, spell, mixed>>
    BY DEF ReadRevision
  <1>2. revisions' \in 0 .. MaxRevisions
    <2>1. revisions \in 0 .. MaxRevisions
      BY Types DEF IInv
    <2>2. revisions < MaxRevisions /\ revisions' = revisions + 1
      BY DEF ReadRevision
    <2> QED
      BY <2>1, <2>2, DecayAssumption
  <1>3. /\ DOMAIN request.rows \subseteq Members
        /\ \A m \in DOMAIN request.rows : request.rows[m] \in Graded
    BY Types DEF IInv
  <1>4. request.kind = kind /\ request.change = change
    OBVIOUS
  <1> HIDE DEF request
  <1> QED
    BY <1>1, <1>2, <1>3, <1>4, TakeKeeps

\* A dry run writes nothing.
LEMMA FinishDryRunKeeps ==
  ASSUME IInv, NEW c \in Clerks, FinishDryRun(c)
  PROVE  IInv'
  <1>1. DecayTypeOK'
    BY Types, TypesNext DEF IInv, FinishDryRun
  <1>2. ClerksOK'
    BY ReleaseKeepsClerks DEF IInv, FinishDryRun
  <1> QED
    BY <1>1, <1>2 DEF IInv, FinishDryRun

\* A run writes the rows it has computed something new for.
LEMMA CommitRunKeeps ==
  ASSUME IInv, NEW c \in Clerks, CommitRun(c)
  PROVE  IInv'
  <1> DEFINE r     == clerk[c]
             new   == [w \in DOMAIN r.rows |-> AfterDecay(r.rows[w], r.days[w])]
             hit   == {w \in DOMAIN r.rows : new[w] # r.rows[w]}
             moved == {w \in hit : idle[w] < r.days[w]}
             longer(w) == [spell[w] EXCEPT !.runs = @ + 1,
                                           !.lost = @ + r.rows[w].reputation - new[w].reputation,
                                           !.levels = @ \cup {new[w].level}]
  <1>1. /\ \A w \in Members : standing'[w] = IF w \in hit THEN Stored(standing[w], r.rows[w], new[w]) ELSE standing[w]
        /\ \A w \in Members : spell'[w] = IF w \in hit THEN longer(w) ELSE spell[w]
        /\ mixed' = mixed \cup moved \cup {w \in hit : standing[w] # r.rows[w]}
        /\ standing' = [w \in Members |-> standing'[w]]
        /\ spell' = [w \in Members |-> spell'[w]]
        /\ idle' = idle /\ revisions' = revisions
        /\ r.kind = "decaying"
        /\ Release(c)
    BY DEF CommitRun
  <1>2. /\ DOMAIN r.rows \subseteq Members /\ hit \subseteq Members
        /\ \A w \in DOMAIN r.rows : /\ r.rows[w] \in Graded /\ r.rows[w] \in Standings
                                    /\ r.days[w] \in 0 .. MaxIdle
    BY <1>1 DEF IInv, ClerksOK, Graded
  <1>3. \A w \in hit :
          /\ new[w] = AfterDecay(r.rows[w], r.days[w])
          /\ new[w] \in Graded /\ new[w] \in Standings /\ r.rows[w] \in Standings
          /\ r.rows[w].reputation - new[w].reputation \in Nat
    BY <1>2, AfterDecayIsStanding DEF Graded
  <1>4. \A w \in Members : /\ standing[w] \in Graded /\ standing[w] \in Standings
                            /\ spell[w] \in Spells /\ idle[w] \in 0 .. MaxIdle
    BY Types DEF IInv
  <1>5. \A w \in hit : longer(w) \in Spells
    <2> TAKE w \in hit
    <2>1. PICK runs \in Nat : runs = spell[w].runs + 1
      BY <1>2, <1>4 DEF Spells
    <2>2. PICK lost \in Nat : lost = spell[w].lost + r.rows[w].reputation - new[w].reputation
      <3>1. spell[w].lost \in Nat
        BY <1>2, <1>4 DEF Spells
      <3>2. r.rows[w].reputation \in Reputations /\ new[w].reputation \in Reputations
        BY <1>2, <1>3 DEF Standings
      <3>3. r.rows[w].reputation - new[w].reputation \in Nat
        BY <1>3
      <3>4. spell[w].lost + r.rows[w].reputation - new[w].reputation \in Nat
        BY <3>1, <3>2, <3>3, ReputationsAreInt
      <3> QED
        BY <3>4
    <2>3. PICK levels \in SUBSET Levels : levels = spell[w].levels \cup {new[w].level}
      BY <1>2, <1>3, <1>4 DEF Spells, Standings
    <2>4. longer(w) = [spell[w] EXCEPT !.runs = runs, !.lost = lost, !.levels = levels]
      BY <2>1, <2>2, <2>3
    <2>5. [spell[w] EXCEPT !.runs = runs, !.lost = lost, !.levels = levels] \in Spells
      BY <1>2, <1>4 DEF Spells
    <2> QED
      BY <2>4, <2>5
  <1>6. \A w \in hit : /\ longer(w).runs = spell[w].runs + 1
                      /\ longer(w).lost = spell[w].lost + r.rows[w].reputation - new[w].reputation
                      /\ longer(w).levels = spell[w].levels \cup {new[w].level}
    BY <1>2, <1>4 DEF Spells
  <1>7. \A w \in Members \ mixed' :
          /\ w \in Members \ mixed
          /\ w \in hit => standing[w] = r.rows[w] /\ ~(idle[w] < r.days[w]) /\ new[w] # r.rows[w]
    BY <1>1
  <1> HIDE DEF new, hit, moved, r, longer
  <1>10. ASSUME NEW w \in Members
         PROVE  standing'[w] \in Graded
    <2>1. CASE w \in hit
      <3>1. w \in DOMAIN r.rows
        BY <2>1 DEF hit
      <3>2. Stored(standing[w], r.rows[w], new[w]) \in Graded
        BY <1>2, <1>3, <1>4, <2>1, <3>1, StoredIsGraded
      <3> QED
        BY <1>1, <2>1, <3>2
    <2>2. CASE w \notin hit
      BY <1>1, <1>4, <2>2
    <2> QED
      BY <2>1, <2>2
  <1>8. DecayTypeOK'
    <2>1. \A w \in Members : standing'[w] \in Standings
      BY <1>10 DEF Graded
    <2>2. \A w \in Members : spell'[w] \in Spells
      BY <1>1, <1>4, <1>5
    <2>3. standing' \in [Members -> Standings] /\ spell' \in [Members -> Spells]
      BY <1>1, <2>1, <2>2
    <2>4. mixed' \subseteq Members
      BY <1>1, <1>2, Types DEF IInv, moved
    <2> QED
      BY <1>1, <2>3, <2>4, Types, TypesNext DEF IInv
  <1>9. ASSUME NEW w \in Members \ mixed'
        PROVE  Sound(standing'[w], idle'[w], spell'[w])
    <2>1. w \in Members \ mixed /\ Sound(standing[w], idle[w], spell[w])
      BY <1>7 DEF IInv
    <2>2. CASE w \notin hit
      BY <1>1, <2>1, <2>2
    <2>3. CASE w \in hit
      <3>1. standing'[w] = new[w] /\ standing[w] = r.rows[w]
        <4>1. standing[w] = r.rows[w]
          BY <1>7, <2>3
        <4>2. Stored(standing[w], r.rows[w], new[w]) = new[w]
          BY <1>3, <1>4, <2>1, <2>3, <4>1, StoredIsGraded
        <4> QED
          BY <1>1, <2>1, <2>3, <4>1, <4>2
      <3>2. spell'[w] = longer(w) /\ idle'[w] = idle[w]
        BY <1>1, <2>1, <2>3
      <3>3. r.days[w] \in 0 .. MaxIdle /\ idle[w] \in 0 .. MaxIdle /\ r.days[w] <= idle[w]
        <4>1. w \in DOMAIN r.rows
          BY <2>3 DEF hit
        <4>2. r.days[w] \in 0 .. MaxIdle /\ idle[w] \in 0 .. MaxIdle /\ ~(idle[w] < r.days[w])
          BY <1>2, <1>4, <1>7, <2>1, <2>3, <4>1
        <4>3. \A early, late \in 0 .. MaxIdle : ~(late < early) => early <= late
          BY DecayAssumption
        <4> QED
          BY <4>2, <4>3
      <3>4. /\ new[w] = AfterDecay(r.rows[w], r.days[w]) /\ new[w] # r.rows[w]
            /\ r.rows[w] \in Standings /\ longer(w) \in Spells /\ spell[w] \in Spells
        BY <1>3, <1>4, <1>5, <1>7, <2>1, <2>3, <3>1
      <3>5. Sound(r.rows[w], idle[w], spell[w])
        BY <2>1, <3>1
      <3>6. /\ longer(w).runs = spell[w].runs + 1
            /\ longer(w).lost = spell[w].lost + r.rows[w].reputation - new[w].reputation
            /\ longer(w).levels = spell[w].levels \cup {new[w].level}
        BY <1>6, <2>3
      <3>7. Sound(new[w], idle[w], longer(w))
        BY <3>3, <3>4, <3>5, <3>6, SoundAfterRun
      <3> QED
        BY <3>1, <3>2, <3>7
    <2> QED
      BY <2>2, <2>3
  <1> QED
    BY <1>1, <1>8, <1>9, <1>10, ReleaseKeepsClerks DEF IInv

\* A verdict clamps the reputation, and a reset sets it to one.
LEMMA RevisedByIsReputation ==
  ASSUME NEW r, NEW w, r.rows[w] \in Standings,
         r.kind = "resetting" => r.change \in Reputations,
         r.kind # "resetting" => r.change \in Int
  PROVE  RevisedBy(r, w) \in Reputations
  <1>1. r.rows[w].reputation \in Int
    <2>1. r.rows[w].reputation \in Reputations
      BY DEF Standings
    <2> QED
      BY <2>1, ReputationsAreInt
  <1>2. CASE r.kind = "resetting"
    BY <1>2 DEF RevisedBy
  <1>3. CASE r.kind # "resetting"
    <2>1. PICK sum \in Int : sum = r.rows[w].reputation + r.change
      <3>1. r.rows[w].reputation + r.change \in Int
        BY <1>1, <1>3
      <3> QED
        BY <3>1
    <2>2. Most(0, Least(10000, sum)) \in Reputations
      BY DEF Most, Least, Reputations
    <2> QED
      BY <1>3, <2>1, <2>2 DEF RevisedBy
  <1> QED
    BY <1>2, <1>3

\* A verdict or a reset writes the row of its worker.
LEMMA CommitRevisionKeeps ==
  ASSUME IInv, NEW c \in Clerks, CommitRevision(c)
  PROVE  IInv'
  <1> DEFINE r    == clerk[c]
             over == DOMAIN r.rows
             new  == [w \in over |-> Rated(r.rows[w], RevisedBy(r, w))]
             longer(w) == [spell[w] EXCEPT !.levels = @ \cup {new[w].level}]
  <1>1. /\ \A w \in Members : standing'[w] = IF w \in over THEN Stored(standing[w], r.rows[w], new[w]) ELSE standing[w]
        /\ \A w \in Members : spell'[w] = IF w \in over THEN longer(w) ELSE spell[w]
        /\ mixed' = mixed \cup {w \in over : new[w] # r.rows[w] /\ standing[w] # r.rows[w]}
        /\ standing' = [w \in Members |-> standing'[w]]
        /\ spell' = [w \in Members |-> spell'[w]]
        /\ idle' = idle /\ revisions' = revisions
        /\ r.kind \in {"judging", "resetting"}
        /\ Release(c)
    BY DEF CommitRevision, WriteStandings
  <1>2. /\ over \subseteq Members
        /\ \A w \in over : r.rows[w] \in Graded /\ r.rows[w] \in Standings
        /\ r.kind = "judging" => r.change \in Int
        /\ r.kind = "resetting" => r.change \in Reputations
    BY DEF IInv, ClerksOK, Graded
  <1>3. \A w \in over :
          /\ new[w] = Rated(r.rows[w], RevisedBy(r, w))
          /\ RevisedBy(r, w) \in Reputations
          /\ new[w] \in Graded /\ new[w] \in Standings
    <2> TAKE w \in over
    <2>1. RevisedBy(r, w) \in Reputations
      BY <1>1, <1>2, RevisedByIsReputation
    <2>2. Rated(r.rows[w], RevisedBy(r, w)) \in Graded
      BY <1>2, <2>1, RatedIsStanding DEF Graded
    <2> QED
      BY <2>1, <2>2 DEF Graded
  <1>4. \A w \in Members : /\ standing[w] \in Graded /\ standing[w] \in Standings
                            /\ spell[w] \in Spells /\ idle[w] \in 0 .. MaxIdle
    BY Types DEF IInv
  <1>5. \A w \in over : /\ longer(w) \in Spells
                       /\ longer(w).runs = spell[w].runs
                       /\ longer(w).lost = spell[w].lost
                       /\ longer(w).levels = spell[w].levels \cup {new[w].level}
    <2> TAKE w \in over
    <2>1. PICK rank \in Levels : rank = new[w].level
      BY <1>3 DEF Standings
    <2>2. longer(w) = [spell[w] EXCEPT !.levels = @ \cup {rank}]
      BY <2>1
    <2>3. spell[w] \in Spells
      BY <1>2, <1>4
    <2> HIDE DEF new, over, r
    <2> QED
      BY <2>1, <2>2, <2>3 DEF Spells
  <1>6. \A w \in Members \ mixed' :
          /\ w \in Members \ mixed
          /\ w \in over => standing[w] = r.rows[w] \/ new[w] = r.rows[w]
    BY <1>1
  <1> HIDE DEF new, over, r, longer
  <1>9. ASSUME NEW w \in Members
        PROVE  standing'[w] \in Graded
    <2>1. CASE w \in over
      <3>1. Stored(standing[w], r.rows[w], new[w]) \in Graded
        BY <1>2, <1>3, <1>4, <2>1, StoredIsGraded
      <3> QED
        BY <1>1, <2>1, <3>1
    <2>2. CASE w \notin over
      BY <1>1, <1>4, <2>2
    <2> QED
      BY <2>1, <2>2
  <1>7. DecayTypeOK'
    <2>1. \A w \in Members : standing'[w] \in Standings
      BY <1>9 DEF Graded
    <2>2. \A w \in Members : spell'[w] \in Spells
      BY <1>1, <1>4, <1>5
    <2>3. standing' \in [Members -> Standings] /\ spell' \in [Members -> Spells]
      BY <1>1, <2>1, <2>2
    <2>4. mixed' \subseteq Members
      BY <1>1, <1>2, Types DEF IInv
    <2> QED
      BY <1>1, <2>3, <2>4, Types, TypesNext DEF IInv
  <1>8. ASSUME NEW w \in Members \ mixed'
        PROVE  Sound(standing'[w], idle'[w], spell'[w])
    <2>1. w \in Members \ mixed /\ Sound(standing[w], idle[w], spell[w])
      BY <1>6 DEF IInv
    <2>2. idle[w] \in Nat /\ idle'[w] = idle[w]
      BY <1>1, <1>4, DecayAssumption
    <2>3. CASE w \notin over
      BY <1>1, <2>1, <2>3
    <2>4. CASE w \in over /\ new[w] = r.rows[w]
      <3>1. standing'[w] = standing[w]
        BY <1>1, <1>2, <1>3, <1>4, <2>1, <2>4, StoredIsGraded
      <3>2. Sound(standing[w], idle[w], longer(w))
        BY <1>4, <1>5, <2>1, <2>2, <2>4, SoundLater
      <3> QED
        BY <1>1, <2>1, <2>2, <2>4, <3>1, <3>2
    <2>5. CASE w \in over /\ standing[w] = r.rows[w]
      <3>1. standing'[w] = new[w]
        BY <1>1, <1>2, <1>3, <1>4, <2>1, <2>5, StoredIsGraded
      <3>2. Sound(r.rows[w], idle[w], spell[w]) /\ r.rows[w] \in Standings
        BY <1>2, <2>1, <2>5
      <3>3. Sound(new[w], idle[w], longer(w))
        BY <1>3, <1>4, <1>5, <2>1, <2>2, <2>5, <3>2, SoundAfterRevision
      <3> QED
        BY <1>1, <2>1, <2>2, <2>5, <3>1, <3>3
    <2> QED
      BY <1>6, <2>3, <2>4, <2>5
  <1> QED
    BY <1>1, <1>7, <1>8, <1>9, ReleaseKeepsClerks DEF IInv

\* A task ends a spell.
LEMMA TakesTaskKeeps ==
  ASSUME IInv, NEW w \in Members, TakesTask(w)
  PROVE  IInv'
  <1> DEFINE anew == [runs |-> 0, lost |-> 0, levels |-> {standing[w].level}]
  <1>1. \A v \in Members : standing[v] \in Standings
    BY Types DEF IInv
  <1>2. standing[w].level \in Levels
    BY <1>1 DEF Standings
  <1>3. /\ spell' \in [Members -> Spells] /\ idle' \in [Members -> 0 .. MaxIdle]
        /\ \A v \in Members : spell'[v] = IF v = w THEN anew ELSE spell[v]
        /\ \A v \in Members : idle'[v] = IF v = w THEN 0 ELSE idle[v]
    <2>1. anew \in Spells
      BY <1>2 DEF Spells
    <2>2. 0 \in 0 .. MaxIdle
      BY DecayAssumption
    <2> HIDE DEF anew
    <2>3. spell' = [spell EXCEPT ![w] = anew] /\ idle' = [idle EXCEPT ![w] = 0]
      BY DEF TakesTask, anew
    <2> QED
      BY <2>1, <2>2, <2>3, Types DEF IInv
  <1>4. standing' = standing /\ clerk' = clerk /\ revisions' = revisions /\ mixed' = mixed
    BY DEF TakesTask
  <1>5. DecayTypeOK'
    BY <1>3, <1>4, Types, TypesNext DEF IInv
  <1>6. Sound(standing[w], 0, anew)
    <2>1. standing[w].level = LevelOf(standing[w].reputation)
      BY DEF IInv, Graded
    <2> QED
      BY <1>1, <2>1, SoundAnew
  <1> HIDE DEF anew
  <1>7. \A v \in Members \ mixed' : Sound(standing'[v], idle'[v], spell'[v])
    BY <1>3, <1>4, <1>6 DEF IInv
  <1>8. ClerksOK'
    BY <1>4 DEF IInv, ClerksOK
  <1> QED
    BY <1>4, <1>5, <1>7, <1>8 DEF IInv

\* A ban or its end touches neither reputation nor level.
LEMMA ExcludeKeeps ==
  ASSUME IInv, NEW w \in Members, Exclude(w)
  PROVE  IInv'
  <1>1. UNCHANGED <<idle, clerk, revisions, spell, mixed>>
    BY DEF Exclude
  <1>2. standing \in [Members -> Standings]
    BY Types DEF IInv
  <1>3. [standing[w] EXCEPT !.banned = ~@] \in Standings
    BY <1>2 DEF Standings
  <1>4. standing' = [standing EXCEPT ![w] = [standing[w] EXCEPT !.banned = ~@]]
    BY <1>2 DEF Exclude
  <1>5. /\ standing' \in [Members -> Standings]
        /\ \A v \in Members : v # w => standing'[v] = standing[v]
        /\ standing'[w] = [standing[w] EXCEPT !.banned = ~@]
    BY <1>2, <1>3, <1>4
  <1>6. standing'[w].level = standing[w].level /\ standing'[w].reputation = standing[w].reputation
    BY <1>2, <1>5 DEF Standings
  <1>7. DecayTypeOK'
    BY <1>1, <1>5, Types, TypesNext DEF IInv
  <1>8. /\ \A v \in Members \ mixed' : Sound(standing'[v], idle'[v], spell'[v])
        /\ \A v \in Members : standing'[v] \in Graded
    BY <1>1, <1>5, <1>6 DEF IInv, Sound, Graded
  <1>9. ClerksOK'
    BY <1>1 DEF IInv, ClerksOK
  <1> QED
    BY <1>7, <1>8, <1>9 DEF IInv

\* Days that pass allow for more decay.
LEMMA DaysPassKeeps ==
  ASSUME IInv, NEW days \in Spans, DaysPass(days)
  PROVE  IInv'
  <1>1. UNCHANGED <<standing, clerk, revisions, spell, mixed>>
    BY DEF DaysPass
  <1>2. idle \in [Members -> 0 .. MaxIdle] /\ spell \in [Members -> Spells]
    BY Types DEF IInv
  <1>3. days \in Nat /\ MaxIdle \in Nat
    BY DecayAssumption
  <1>4. ASSUME NEW w \in Members
        PROVE  /\ idle'[w] \in 0 .. MaxIdle
               /\ idle[w] \in Nat /\ idle'[w] \in Nat /\ idle[w] <= idle'[w]
    <2>1. idle[w] \in 0 .. MaxIdle /\ idle'[w] = idle[w] + days /\ idle[w] + days <= MaxIdle
      BY <1>2 DEF DaysPass
    <2> QED
      BY <1>3, <2>1
  <1>5. idle' \in [Members -> 0 .. MaxIdle]
    <2>1. idle' = [w \in Members |-> idle'[w]]
      BY DEF DaysPass
    <2> QED
      BY <1>4, <2>1
  <1>6. DecayTypeOK'
    BY <1>1, <1>5, Types, TypesNext DEF IInv
  <1>7. ASSUME NEW w \in Members \ mixed'
        PROVE  Sound(standing'[w], idle'[w], spell'[w])
    <2>1. Sound(standing[w], idle[w], spell[w]) /\ spell[w] \in Spells
      BY <1>1, <1>2 DEF IInv
    <2> QED
      BY <1>1, <1>4, <2>1, SoundLater
  <1>8. ClerksOK'
    BY <1>1 DEF IInv, ClerksOK
  <1> QED
    BY <1>1, <1>6, <1>7, <1>8 DEF IInv

-----------------------------------------------------------------------------
(* The theorem *)

\* New workers have 1.0 and are bronze.
LEMMA InitHolds == DecayInit => IInv
  <1> SUFFICES ASSUME DecayInit PROVE IInv
    OBVIOUS
  <1>1. DecayTypeOK
    BY DecayAssumption DEF DecayInit, DecayTypeOK, Levels
  <1>2. ClerksOK
    <2>1. DOMAIN NotServing.rows = {} /\ NotServing.kind = "none"
      BY DEF NotServing
    <2> QED
      BY <2>1 DEF DecayInit, ClerksOK
  <1>3. ASSUME NEW w \in Members
        PROVE  Sound(standing[w], idle[w], spell[w])
    <2>1. standing[w] \in Standings
      BY <1>1, Types
    <2>2. standing[w].level = LevelOf(standing[w].reputation)
      <3>1. LevelOf(1000) = "bronze"
        BY DEF LevelOf
      <3>2. standing[w].level = "bronze" /\ standing[w].reputation = 1000
        BY DEF DecayInit
      <3> QED
        BY <3>1, <3>2
    <2>3. idle[w] = 0 /\ spell[w] = [runs |-> 0, lost |-> 0, levels |-> {standing[w].level}]
      BY DEF DecayInit
    <2> QED
      BY <2>1, <2>2, <2>3, SoundAnew
  <1> QED
    BY <1>1, <1>2, <1>3, Types DEF IInv, Graded, Sound

\* Every request and every day preserves it.
LEMMA StepKeeps == IInv /\ [DecayNext]_decayVars => IInv'
  <1> SUFFICES ASSUME IInv, [DecayNext]_decayVars PROVE IInv'
    OBVIOUS
  <1>1. ASSUME NEW c \in Clerks, ReadRun(c) PROVE IInv'
    BY <1>1, ReadRunKeeps
  <1>2. ASSUME NEW c \in Clerks, FinishDryRun(c) PROVE IInv'
    BY <1>2, FinishDryRunKeeps
  <1>3. ASSUME NEW c \in Clerks, CommitRun(c) PROVE IInv'
    BY <1>3, CommitRunKeeps
  <1>4. ASSUME NEW c \in Clerks, CommitRevision(c) PROVE IInv'
    BY <1>4, CommitRevisionKeeps
  <1>5. ASSUME NEW c \in Clerks, NEW w \in Members, NEW change \in Changes,
               ReadRevision(c, w, "judging", change)
        PROVE  IInv'
    BY <1>5, ReadRevisionKeeps, DecayAssumption
  <1>6. ASSUME NEW c \in Clerks, NEW w \in Members, NEW rating \in Ratings,
               ReadRevision(c, w, "resetting", rating)
        PROVE  IInv'
    <2>1. rating \in Reputations
      BY DecayAssumption DEF Reputations
    <2> QED
      BY <1>6, <2>1, ReadRevisionKeeps
  <1>7. ASSUME NEW w \in Members, TakesTask(w) PROVE IInv'
    BY <1>7, TakesTaskKeeps
  <1>8. ASSUME NEW w \in Members, Exclude(w) PROVE IInv'
    BY <1>8, ExcludeKeeps
  <1>9. ASSUME NEW days \in Spans, DaysPass(days) PROVE IInv'
    BY <1>9, DaysPassKeeps
  <1>10. CASE UNCHANGED decayVars
    BY <1>10 DEF IInv, DecayTypeOK, ClerksOK, decayVars
  <1> QED
    BY <1>1, <1>2, <1>3, <1>4, <1>5, <1>6, <1>7, <1>8, <1>9, <1>10 DEF DecayNext

\* In whatever order runs, verdicts, resets, bans, tasks and days come, the level of every worker
\* is the documented one for its reputation; and one run has charged a worker, whose row was never
\* written from an older reading, no more than the daily rate of a level it held.
THEOREM DecayFollowsRules == DecaySpec => []DecayInv
  <1>1. IInv => DecayInv
    BY DEF IInv, DecayInv, LevelFollowsReputation, OneRunChargesDailyRate, Sound, Graded
  <1> QED
    BY <1>1, InitHolds, StepKeeps, PTL DEF DecaySpec

-----------------------------------------------------------------------------
(* Collusion scores *)
(* Counts of validated tasks *)

LEMMA TotalsAreNat ==
  ASSUME verdicts \in Logs, NEW a \in Suspects, NEW b \in Suspects
  PROVE  Total(a, b) \in Nat
<1>1. <<a, b>> \in Suspects \X Suspects
  OBVIOUS
<1>2. verdicts \in [done : [Suspects \X Suspects -> Nat], rejected : [Suspects \X Suspects -> Nat],
                    fast : [Suspects -> Nat]]
  BY CollusionAssumption
<1>3. verdicts.done[<<a, b>>] \in Nat /\ verdicts.rejected[<<a, b>>] \in Nat
  BY <1>1, <1>2
<1>4. QED BY <1>3 DEF Total

LEMMA EdgesGoBothWays == ASSUME NEW a, NEW b, Edge(a, b) PROVE Edge(b, a)
  BY DEF Edge

\* The tasks of w that others validated are a sum over the workers.
LEMMA ValidatedByIsSum ==
  ASSUME NEW w \in Suspects
  PROVE  ValidatedBy(w) = SumOver([v \in Suspects |-> Total(w, v)], Suspects)
<1>1. PICK f : f = [v \in Suspects |-> Total(w, v)]
  OBVIOUS
<1>2. PICK g : IsSumTable(g, f, Suspects) /\ SumOver(f, Suspects) = g[Suspects]
  BY CollusionAssumption, SumTableUnfold
<1>3. PICK h : IsSumTable(h, f, Suspects) /\ ValidatedBy(w) = h[Suspects]
  <2>1. \A v \in Suspects : f[v] = Total(w, v)
    BY <1>1
  <2>2. \A s \in SUBSET Suspects : s # {} => Chosen(s) \in Suspects
    BY DEF Chosen
  <2>3. \A k : IsSumTable(k, f, Suspects) <=>
          k = [s \in SUBSET Suspects |->
                 IF s = {} THEN 0 ELSE Total(w, Chosen(s)) + k[s \ {Chosen(s)}]]
    BY <2>1, <2>2 DEF IsSumTable
  <2>4. QED
    BY <1>2, <2>3 DEF ValidatedBy, MapThenSumSet, MapThenFoldSet, Chosen
<1>4. g[Suspects] = h[Suspects]
  BY <1>2, <1>3, CollusionAssumption, SumTableAgrees
<1>5. QED BY <1>1, <1>2, <1>3, <1>4

LEMMA ValidatedOfIsSum ==
  ASSUME NEW w \in Suspects
  PROVE  ValidatedOf(w) = SumOver([v \in Suspects |-> Total(v, w)], Suspects)
<1>1. PICK f : f = [v \in Suspects |-> Total(v, w)]
  OBVIOUS
<1>2. PICK g : IsSumTable(g, f, Suspects) /\ SumOver(f, Suspects) = g[Suspects]
  BY CollusionAssumption, SumTableUnfold
<1>3. PICK h : IsSumTable(h, f, Suspects) /\ ValidatedOf(w) = h[Suspects]
  <2>1. \A v \in Suspects : f[v] = Total(v, w)
    BY <1>1
  <2>2. \A s \in SUBSET Suspects : s # {} => Chosen(s) \in Suspects
    BY DEF Chosen
  <2>3. \A k : IsSumTable(k, f, Suspects) <=>
          k = [s \in SUBSET Suspects |->
                 IF s = {} THEN 0 ELSE Total(Chosen(s), w) + k[s \ {Chosen(s)}]]
    BY <2>1, <2>2 DEF IsSumTable
  <2>4. QED
    BY <1>2, <2>3 DEF ValidatedOf, MapThenSumSet, MapThenFoldSet, Chosen
<1>4. g[Suspects] = h[Suspects]
  BY <1>2, <1>3, CollusionAssumption, SumTableAgrees
<1>5. QED BY <1>1, <1>2, <1>3, <1>4

\* A worker's validated tasks include those of any one validator, and its validations are a number.
LEMMA ValidationsCount ==
  ASSUME verdicts \in Logs, NEW w \in Suspects, NEW p \in Suspects
  PROVE  /\ ValidatedBy(w) \in Nat /\ ValidatedOf(w) \in Nat
         /\ Total(w, p) <= ValidatedBy(w)
<1>1. PICK f, g : f = [v \in Suspects |-> Total(w, v)] /\ g = [v \in Suspects |-> Total(v, w)]
  OBVIOUS
<1>2. IsFiniteSet(Suspects) /\ IsFiniteSet(Suspects \ {p})
  BY CollusionAssumption, FS_Subset
<1>3. \A v \in Suspects : f[v] \in Nat /\ g[v] \in Nat
  BY <1>1, TotalsAreNat
<1>4. \A v \in Suspects : f[v] \in Int
  BY <1>3
<1>5. SumOver(f, Suspects) = f[p] + SumOver(f, Suspects \ {p})
  BY <1>2, <1>4, SumWithout
<1>6. SumOver(f, Suspects \ {p}) \in Nat
  BY <1>2, <1>3, SumNatural
<1>7. SumOver(f, Suspects) \in Nat /\ SumOver(g, Suspects) \in Nat
  BY <1>2, <1>3, SumNatural
<1>8. PICK k, n, m : k = f[p] /\ n = SumOver(f, Suspects) /\ m = SumOver(f, Suspects \ {p})
  OBVIOUS
<1>9. k <= n
  BY <1>3, <1>5, <1>6, <1>8
<1>10. QED BY <1>1, <1>7, <1>8, <1>9, ValidatedByIsSum, ValidatedOfIsSum

-----------------------------------------------------------------------------
(* Scores *)

LEMMA ProductsGrow ==
  ASSUME NEW m \in Nat, NEW n \in Nat, m <= n, NEW k \in Nat
  PROVE  m * k \in Nat /\ n * k \in Nat /\ m * k <= n * k
<1>1. PICK d \in Nat : n = m + d
  <2>1. n - m \in Nat /\ n = m + (n - m)
    OBVIOUS
  <2>2. QED BY <2>1
<1>2. m * k \in Nat /\ n * k \in Nat /\ d * k \in Nat
  OBVIOUS
<1>3. n * k = m * k + d * k
  BY <1>1
<1>4. QED BY <1>2, <1>3

LEMMA QuotientsFit ==
  ASSUME NEW x \in Nat, NEW y \in Nat \ {0}, x <= 500 * y
  PROVE  ~(x \div y >= 600)
<1>1. PICK k : k = x \div y
  OBVIOUS
<1>2. k \in Int /\ y * k <= x
  BY <1>1
<1>3. ASSUME k >= 600 PROVE FALSE
  <2>1. k \in Nat /\ 600 \in Nat /\ 600 <= k
    BY <1>2, <1>3
  <2>2. 600 * y <= k * y
    BY <2>1, ProductsGrow
  <2>3. k * y = y * k
    BY <2>1
  <2>4. PICK z : z = y * k
    OBVIOUS
  <2>5. z \in Nat /\ 600 * y <= z /\ z <= x
    BY <1>2, <2>1, <2>2, <2>3, <2>4
  <2>6. QED BY <2>5
<1>4. QED BY <1>1, <1>3

\* A mutual score above the threshold takes tasks in both directions: with none in one of them
\* the mean of the two ratios is at most a half.
LEMMA MutualMeansBoth ==
  ASSUME verdicts \in Logs, NEW w \in Suspects, NEW p \in Suspects,
         MutualScore(w, p) >= MutualValidationThreshold
  PROVE  Total(p, w) > 0
<1>1. PICK mine, theirs, t, u : /\ mine = AtLeastOne(ValidatedOf(w))
                                /\ theirs = AtLeastOne(ValidatedBy(w))
                                /\ t = Total(w, p) /\ u = Total(p, w)
  OBVIOUS
<1>2. /\ mine \in Nat \ {0} /\ theirs \in Nat \ {0} /\ t \in Nat /\ u \in Nat /\ t <= theirs
  <2>1. ValidatedBy(w) \in Nat /\ ValidatedOf(w) \in Nat /\ Total(w, p) <= ValidatedBy(w)
    BY ValidationsCount
  <2>2. Total(w, p) \in Nat /\ Total(p, w) \in Nat
    BY TotalsAreNat
  <2>3. QED BY <1>1, <2>1, <2>2 DEF AtLeastOne
<1>3. (1000 * (u * theirs + t * mine)) \div (2 * mine * theirs) >= 600
  BY <1>1 DEF MutualScore, MutualValidationThreshold
<1>4. ASSUME u = 0 PROVE FALSE
  <2>1. PICK part, whole : part = t * mine /\ whole = theirs * mine
    OBVIOUS
  <2>2. part \in Nat /\ whole \in Nat /\ part <= whole
    BY <1>2, <2>1, ProductsGrow
  <2>3. whole # 0
    BY <1>2, <2>1
  <2>4. 2 * mine * theirs = 2 * whole
    BY <1>2, <2>1
  <2>5. u * theirs + t * mine = part
    BY <1>2, <1>4, <2>1, <2>2
  <2>6. (1000 * part) \div (2 * whole) >= 600
    BY <1>3, <2>4, <2>5
  <2>7. PICK x, y : x = 1000 * part /\ y = 2 * whole
    OBVIOUS
  <2>8. x \in Nat /\ y \in Nat \ {0} /\ x <= 500 * y
    BY <2>2, <2>3, <2>7
  <2>9. ~(x \div y >= 600)
    BY <2>8, QuotientsFit
  <2>10. QED BY <2>6, <2>7, <2>9
<1>5. u > 0
  BY <1>2, <1>4
<1>6. QED BY <1>1, <1>5

-----------------------------------------------------------------------------
(* Reports *)

\* What ReportsHaveGround asks of the report about w.
Grounded(w, report) ==
  /\ \/ \E p \in Suspects : Total(w, p) + Total(p, w) >= MinMutualValidations
     \/ ValidatedOf(w) >= MinTasksForAnalysis
  /\ \A e \in report.evidence :
       e.kind = "mutual_validation" => \A a, b \in e.partners : a # b => Total(a, b) > 0

LEMMA ApprovingPairs ==
  ASSUME verdicts \in Logs, NEW a \in Suspects, NEW b \in Suspects, Approving(a, b)
  PROVE  Total(a, b) + Total(b, a) >= MinMutualValidations
<1>1. Total(a, b) \in Nat /\ Total(b, a) \in Nat
  BY TotalsAreNat
<1>2. Total(a, b) >= 10
  BY DEF Approving, MinTasksForAnalysis
<1>3. QED BY <1>1, <1>2 DEF MinMutualValidations

\* A score that makes a worker suspicious rests on evidence, and every kind of evidence has its
\* ground.
LEMMA SuspicionHasGround ==
  ASSUME verdicts \in Logs, NEW w \in Suspects, AnalyzeWorker(w).score >= CollusionScoreThreshold
  PROVE  Grounded(w, AnalyzeWorker(w))
<1>1. PICK evidence : evidence = AnalyzeMutualValidations(w) \cup AnalyzeApprovalRates(w)
                                   \cup AnalyzeTimingPatterns(w)
  OBVIOUS
<1>2. AnalyzeWorker(w).evidence = evidence
  BY <1>1 DEF AnalyzeWorker
<1>3. AnalyzeWorker(w).score = IF evidence = {} THEN 0 ELSE Max({e.score : e \in evidence})
  BY <1>1 DEF AnalyzeWorker
<1>4. evidence # {}
  BY <1>3 DEF CollusionScoreThreshold
<1>5. PICK e : e \in evidence
  BY <1>4
<1>6. \/ \E p \in Suspects : Total(w, p) + Total(p, w) >= MinMutualValidations
      \/ ValidatedOf(w) >= MinTasksForAnalysis
  <2>1. CASE e \in AnalyzeMutualValidations(w)
    <3>1. PICK p \in Suspects : Total(w, p) + Total(p, w) >= MinMutualValidations
      BY <2>1 DEF AnalyzeMutualValidations
    <3>2. QED BY <3>1
  <2>2. CASE e \in AnalyzeApprovalRates(w)
    <3>1. PICK p \in Suspects : Approving(w, p) \/ Approving(p, w)
      BY <2>2 DEF AnalyzeApprovalRates
    <3>2. Total(w, p) + Total(p, w) >= MinMutualValidations
                \/ Total(p, w) + Total(w, p) >= MinMutualValidations
      BY <3>1, ApprovingPairs
    <3>3. Total(w, p) \in Nat /\ Total(p, w) \in Nat
      BY TotalsAreNat
    <3>4. Total(w, p) + Total(p, w) >= MinMutualValidations
      BY <3>2, <3>3 DEF MinMutualValidations
    <3>5. QED BY <3>4
  <2>3. CASE e \in AnalyzeTimingPatterns(w)
    <3>1. ~(ValidatedOf(w) < MinTasksForAnalysis)
      BY <2>3 DEF AnalyzeTimingPatterns
    <3>2. ValidatedOf(w) \in Nat
      BY ValidationsCount
    <3>3. ValidatedOf(w) >= MinTasksForAnalysis
      BY <3>1, <3>2 DEF MinTasksForAnalysis
    <3>4. QED BY <3>3
  <2>4. QED BY <1>1, <1>5, <2>1, <2>2, <2>3
<1>7. ASSUME NEW x \in evidence, x.kind = "mutual_validation", NEW a \in x.partners,
             NEW b \in x.partners, a # b
      PROVE  Total(a, b) > 0
  <2>1. x \notin AnalyzeApprovalRates(w) /\ x \notin AnalyzeTimingPatterns(w)
    <3>1. x \notin AnalyzeApprovalRates(w)
      BY <1>7 DEF AnalyzeApprovalRates, Evidence
    <3>2. x \notin AnalyzeTimingPatterns(w)
      BY <1>7 DEF AnalyzeTimingPatterns, Evidence
    <3>3. QED BY <3>1, <3>2
  <2>2. PICK p \in Suspects : /\ x = Evidence("mutual_validation", MutualScore(w, p), {w, p})
                              /\ Total(w, p) > 0
                              /\ MutualScore(w, p) >= MutualValidationThreshold
    BY <1>1, <1>7, <2>1 DEF AnalyzeMutualValidations
  <2>3. Total(p, w) > 0
    BY <2>2, MutualMeansBoth
  <2>4. x.partners = {w, p}
    BY <2>2 DEF Evidence
  <2>5. QED BY <1>7, <2>2, <2>3, <2>4
<1>8. QED BY <1>2, <1>6, <1>7 DEF Grounded

\* The history does not change, so neither does the ground.
LEMMA GroundStays ==
  ASSUME verdicts' = verdicts, NEW w, NEW report, Grounded(w, report)
  PROVE  Grounded(w, report)'
<1>1. \A a, b : Total(a, b)' = Total(a, b)
  BY DEF Total
<1>2. ValidatedOf(w)' = ValidatedOf(w)
  BY DEF ValidatedOf, Total, MapThenSumSet, MapThenFoldSet
<1>3. QED BY <1>1, <1>2 DEF Grounded

-----------------------------------------------------------------------------
(* The inductive invariant *)

Complete(group) == \A a, b \in group : a # b => Edge(a, b)

\* Every worker with an edge to all of a group is one of these.
Extends(group, others) ==
  \A x \in Suspects : (\A m \in group : Edge(m, x)) => x \in others

ReportsOK == \A w \in DOMAIN scan : w \in Suspects /\ Grounded(w, scan[w])

SearchType ==
  ring \in [visited : SUBSET Suspects, clique : SUBSET Suspects, candidates : SUBSET Suspects,
            found : SUBSET SUBSET Suspects]

\* The clique at hand can only grow by the candidates; what was visited was a clique that could
\* not grow, and is reported when it is large enough.
SearchOK ==
  /\ ring.clique = {} => ring.candidates = {}
  /\ Complete(ring.clique)
  /\ ring.clique # {} => Extends(ring.clique, ring.candidates \cup ring.clique)
  /\ \A group \in ring.found : group # {} /\ Complete(group) /\ Extends(group, group)
  /\ \A w \in ring.visited :
       \E group \in SUBSET Suspects :
         /\ w \in group /\ Complete(group) /\ Extends(group, group)
         /\ Cardinality(group) >= MinRingSize => group \in ring.found

CInv ==
  /\ verdicts \in Logs
  /\ barred \subseteq Suspects
  /\ ReportsOK
  /\ SearchType
  /\ SearchOK

-----------------------------------------------------------------------------
(* The search *)

LEMMA EdgesStay ==
  ASSUME verdicts' = verdicts
  PROVE  /\ \A a, b : Edge(a, b)' <=> Edge(a, b)
         /\ \A group : Complete(group)' <=> Complete(group)
         /\ \A group, others : Extends(group, others)' <=> Extends(group, others)
<1>1. \A a, b : Edge(a, b)' <=> Edge(a, b)
  BY DEF Edge, Total
<1>2. \A group : Complete(group)' <=> Complete(group)
  BY <1>1 DEF Complete
<1>3. \A group, others : Extends(group, others)' <=> Extends(group, others)
  BY <1>1 DEF Extends
<1>4. QED BY <1>1, <1>2, <1>3

LEMMA ScanKeepsSearch ==
  ASSUME CInv, verdicts' = verdicts, ring' = ring
  PROVE  SearchType' /\ SearchOK'
<1>1. SearchType'
  BY DEF CInv, SearchType
<1>2. SearchOK'
  BY EdgesStay DEF CInv, SearchOK
<1>3. QED BY <1>1, <1>2

LEMMA SearchKeepsScan ==
  ASSUME CInv, UNCHANGED <<verdicts, barred, scan>>
  PROVE  verdicts' \in Logs /\ barred' \subseteq Suspects /\ ReportsOK'
<1>1. \A w \in DOMAIN scan' : w \in Suspects /\ Grounded(w, scan[w])'
  BY GroundStays DEF CInv, ReportsOK
<1>2. QED BY <1>1 DEF CInv, ReportsOK

LEMMA StartKeeps ==
  ASSUME CInv, NEW w \in Suspects, StartClique(w)
  PROVE  CInv'
<1>1. /\ ring \in [visited : SUBSET Suspects, clique : SUBSET Suspects,
                   candidates : SUBSET Suspects, found : SUBSET SUBSET Suspects]
      /\ UNCHANGED <<verdicts, barred, scan>>
  BY DEF CInv, SearchType, StartClique
<1>2. PICK near : near = Neighbours(w) /\ near \subseteq Suspects
  BY DEF Neighbours
<1>3. /\ ring'.clique = {w} /\ ring'.candidates = near
      /\ ring'.visited = ring.visited /\ ring'.found = ring.found
      /\ SearchType'
  BY <1>1, <1>2 DEF StartClique, SearchType
<1>4. Complete({w})
  BY DEF Complete
<1>5. Extends({w}, near \cup {w})
  BY <1>2 DEF Extends, Neighbours
<1>6. SearchOK'
  BY <1>1, <1>3, <1>4, <1>5, EdgesStay DEF CInv, SearchOK
<1>7. QED BY <1>1, <1>3, <1>6, SearchKeepsScan DEF CInv

LEMMA ConsiderKeeps ==
  ASSUME CInv, NEW c \in Suspects, Consider(c)
  PROVE  CInv'
<1>1. /\ ring \in [visited : SUBSET Suspects, clique : SUBSET Suspects,
                   candidates : SUBSET Suspects, found : SUBSET SUBSET Suspects]
      /\ UNCHANGED <<verdicts, barred, scan>>
  BY DEF CInv, SearchType, Consider
<1>2. PICK clique, left : clique = ring.clique /\ left = ring.candidates \ {c}
  OBVIOUS
<1>3. /\ c \in ring.candidates /\ clique # {} /\ Complete(clique)
      /\ Extends(clique, ring.candidates \cup clique)
  BY <1>2 DEF CInv, SearchOK, Consider
<1>4. PICK now : now = IF \A m \in clique : Edge(m, c) THEN clique \cup {c} ELSE clique
  OBVIOUS
<1>5. /\ ring'.clique = now /\ ring'.candidates = left
      /\ ring'.visited = ring.visited /\ ring'.found = ring.found
      /\ SearchType'
  <2>1. now \in SUBSET Suspects /\ left \in SUBSET Suspects
    BY <1>1, <1>2, <1>4
  <2>2. ring' = [ring EXCEPT !.candidates = left, !.clique = now]
    BY <1>2, <1>4 DEF Consider
  <2>3. QED BY <1>1, <2>1, <2>2 DEF SearchType
<1>6. now # {}
  BY <1>3, <1>4
<1>7. Complete(now)
  BY <1>3, <1>4, EdgesGoBothWays DEF Complete
<1>8. Extends(now, left \cup now)
  <2>1. ASSUME NEW x \in Suspects, \A m \in now : Edge(m, x) PROVE x \in left \cup now
    <3>1. clique \subseteq now
      BY <1>4
    <3>2. x \in ring.candidates \cup clique
      BY <1>3, <2>1, <3>1 DEF Extends
    <3>3. CASE x = c
      <4>1. \A m \in clique : Edge(m, c)
        BY <2>1, <3>1, <3>3
      <4>2. QED BY <1>4, <3>3, <4>1
    <3>4. CASE x # c
      BY <1>2, <3>1, <3>2, <3>4
    <3>5. QED BY <3>3, <3>4
  <2>2. QED BY <2>1 DEF Extends
<1>9. SearchOK'
  BY <1>1, <1>5, <1>6, <1>7, <1>8, EdgesStay DEF CInv, SearchOK
<1>10. QED BY <1>1, <1>5, <1>9, SearchKeepsScan DEF CInv

LEMMA EndKeeps ==
  ASSUME CInv, EndClique
  PROVE  CInv'
<1>1. /\ ring \in [visited : SUBSET Suspects, clique : SUBSET Suspects,
                   candidates : SUBSET Suspects, found : SUBSET SUBSET Suspects]
      /\ UNCHANGED <<verdicts, barred, scan>>
  BY DEF CInv, SearchType, EndClique
<1>2. PICK clique : clique = ring.clique
  OBVIOUS
<1>3. clique # {} /\ ring.candidates = {} /\ Complete(clique) /\ Extends(clique, clique)
  BY <1>2 DEF CInv, SearchOK, EndClique
<1>4. PICK found : found = IF Cardinality(clique) >= MinRingSize THEN ring.found \cup {clique}
                           ELSE ring.found
  OBVIOUS
<1>5. /\ ring'.clique = {} /\ ring'.candidates = {}
      /\ ring'.visited = ring.visited \cup clique /\ ring'.found = found
      /\ SearchType'
  <2>1. found \in SUBSET SUBSET Suspects /\ clique \in SUBSET Suspects
    BY <1>1, <1>2, <1>4
  <2>2. ring' = [ring EXCEPT !.clique = {}, !.visited = ring.visited \cup clique, !.found = found]
    BY <1>2, <1>4 DEF EndClique
  <2>3. QED BY <1>1, <1>3, <2>1, <2>2 DEF SearchType
<1>6. \A group \in found : group # {} /\ Complete(group) /\ Extends(group, group)
  BY <1>3, <1>4 DEF CInv, SearchOK
<1>7. Complete({})
  BY DEF Complete
<1>8. ASSUME NEW w \in ring.visited \cup clique
      PROVE  \E group \in SUBSET Suspects :
               /\ w \in group /\ Complete(group) /\ Extends(group, group)
               /\ Cardinality(group) >= MinRingSize => group \in found
  <2>1. CASE w \in clique
    BY <1>1, <1>2, <1>3, <1>4, <2>1
  <2>2. CASE w \in ring.visited
    BY <1>4, <2>2 DEF CInv, SearchOK
  <2>3. QED BY <1>8, <2>1, <2>2
<1>9. SearchOK'
  BY <1>1, <1>5, <1>6, <1>7, <1>8, EdgesStay DEF SearchOK
<1>10. QED BY <1>1, <1>5, <1>9, SearchKeepsScan DEF CInv

LEMMA ScanKeeps ==
  ASSUME CInv, RunFullScan \/ AutoBanColluders \/ DryRun
  PROVE  CInv'
<1>1. verdicts' = verdicts /\ ring' = ring /\ verdicts \in Logs
  BY DEF CInv, RunFullScan, AutoBanColluders, DryRun
<1>2. barred' \subseteq Suspects
  BY DEF CInv, ReportsOK, RunFullScan, AutoBanColluders, DryRun
<1>3. ReportsOK'
  <2>1. CASE scan' = NoScan
    BY <2>1 DEF ReportsOK, NoScan
  <2>2. CASE RunFullScan
    <3>1. ASSUME NEW w \in DOMAIN scan' PROVE w \in Suspects /\ Grounded(w, scan[w])'
      <4>1. PICK chosen : chosen = {x \in Active : AnalyzeWorker(x).score >= CollusionScoreThreshold}
        OBVIOUS
      <4>2. scan' = [x \in chosen |-> AnalyzeWorker(x)]
        BY <2>2, <4>1 DEF RunFullScan
      <4>3. w \in chosen /\ scan'[w] = AnalyzeWorker(w)
        BY <3>1, <4>2
      <4>4. w \in Suspects /\ AnalyzeWorker(w).score >= CollusionScoreThreshold
        BY <4>1, <4>3 DEF Active
      <4>5. PICK report : report = AnalyzeWorker(w)
        OBVIOUS
      <4>6. Grounded(w, report)
        BY <1>1, <4>4, <4>5, SuspicionHasGround
      <4>7. Grounded(w, report)'
        BY <1>1, <4>6, GroundStays
      <4>8. scan'[w] = report
        BY <4>3, <4>5
      <4>9. QED BY <4>4, <4>7, <4>8 DEF Grounded
    <3>2. QED BY <3>1 DEF ReportsOK
  <2>3. QED BY <2>1, <2>2 DEF AutoBanColluders, DryRun
<1>4. SearchType' /\ SearchOK'
  BY <1>1, ScanKeepsSearch
<1>5. QED BY <1>1, <1>2, <1>3, <1>4 DEF CInv

LEMMA CInvAtInit == CollusionInit => CInv
<1> SUFFICES ASSUME CollusionInit PROVE CInv
  OBVIOUS
<1>1. ReportsOK
  BY DEF CollusionInit, NoScan, ReportsOK
<1>2. SearchType
  BY DEF CollusionInit, NoSearch, SearchType
<1>3. SearchOK
  BY DEF CollusionInit, NoSearch, SearchOK, Complete
<1>4. QED BY <1>1, <1>2, <1>3 DEF CInv, CollusionInit

LEMMA CInvKept == CInv /\ [CollusionNext]_collusionVars => CInv'
<1> SUFFICES ASSUME CInv, [CollusionNext]_collusionVars PROVE CInv'
  OBVIOUS
<1>1. CASE UNCHANGED collusionVars
  <2>1. verdicts' = verdicts /\ ring' = ring /\ UNCHANGED <<verdicts, barred, scan>>
    BY <1>1 DEF collusionVars
  <2>2. QED BY <2>1, SearchKeepsScan, ScanKeepsSearch DEF CInv
<1>2. CASE CollusionNext
  BY <1>2, ScanKeeps, StartKeeps, ConsiderKeeps, EndKeeps DEF CollusionNext
<1>3. QED BY <1>1, <1>2

-----------------------------------------------------------------------------
(* What the invariant says *)

LEMMA FoundAreCliques ==
  ASSUME CInv, NEW group \in ring.found, NEW w \in Suspects
  PROVE  w \in group <=> \A m \in group \ {w} : Edge(m, w)
<1>1. Complete(group) /\ Extends(group, group)
  BY DEF CInv, SearchOK
<1>2. w \in group => \A m \in group \ {w} : Edge(m, w)
  BY <1>1 DEF Complete
<1>3. ASSUME w \notin group, \A m \in group \ {w} : Edge(m, w) PROVE FALSE
  <2>1. \A m \in group : Edge(m, w)
    BY <1>3
  <2>2. QED BY <1>1, <1>3, <2>1 DEF Extends
<1>4. QED BY <1>2, <1>3

LEMMA ClosedGroupsAreFound ==
  ASSUME CInv, SearchOver, NEW w \in Vertices, NEW group, group = {w} \cup Neighbours(w),
         Cardinality(group) >= MinRingSize, \A m \in group : {m} \cup Neighbours(m) = group
  PROVE  group \in ring.found
<1>1. w \in ring.visited /\ w \in Suspects /\ group \subseteq Suspects
  BY DEF SearchOver, Vertices, Neighbours
<1>2. PICK clique \in SUBSET Suspects :
             /\ w \in clique /\ Complete(clique) /\ Extends(clique, clique)
             /\ Cardinality(clique) >= MinRingSize => clique \in ring.found
  BY <1>1 DEF CInv, SearchOK
<1>3. clique \subseteq group
  <2>1. ASSUME NEW x \in clique PROVE x \in group
    <3>1. x = w \/ Edge(w, x)
      BY <1>2 DEF Complete
    <3>2. QED BY <3>1 DEF Neighbours
  <2>2. QED BY <2>1
<1>4. group \subseteq clique
  <2>1. ASSUME NEW x \in group, x \notin clique PROVE FALSE
    <3>1. ASSUME NEW m \in clique PROVE Edge(m, x)
      <4>1. m \in group /\ m # x
        BY <1>3, <2>1, <3>1
      <4>2. x \in {m} \cup Neighbours(m)
        BY <2>1, <4>1
      <4>3. QED BY <4>1, <4>2 DEF Neighbours
    <3>2. QED BY <1>1, <1>2, <2>1, <3>1 DEF Extends
  <2>2. QED BY <2>1
<1>5. clique = group
  BY <1>3, <1>4
<1>6. QED BY <1>2, <1>5

LEMMA CInvImpliesCollusionInv == CInv => CollusionInv
<1> SUFFICES ASSUME CInv PROVE CollusionInv
  OBVIOUS
<1>1. CollusionTypeOK
  BY DEF CInv, ReportsOK, SearchType, CollusionTypeOK
<1>2. RingsAreCliques
  <2>1. ASSUME NEW group \in ring.found, NEW w \in Suspects
        PROVE  w \in group <=> \A m \in group \ {w} : Edge(m, w)
    BY FoundAreCliques
  <2>2. ASSUME SearchOver, NEW w \in Vertices,
               Cardinality({w} \cup Neighbours(w)) >= MinRingSize,
               \A m \in {w} \cup Neighbours(w) : {m} \cup Neighbours(m) = {w} \cup Neighbours(w)
        PROVE  {w} \cup Neighbours(w) \in ring.found
    <3>1. PICK group : group = {w} \cup Neighbours(w)
      OBVIOUS
    <3>2. Cardinality(group) >= MinRingSize /\ \A m \in group : {m} \cup Neighbours(m) = group
      BY <2>2, <3>1
    <3>3. group \in ring.found
      BY <2>2, <3>1, <3>2, ClosedGroupsAreFound
    <3>4. QED BY <3>1, <3>3
  <2>3. QED BY <2>1, <2>2 DEF RingsAreCliques
<1>3. ReportsHaveGround
  BY DEF CInv, ReportsOK, Grounded, ReportsHaveGround
<1>4. QED BY <1>1, <1>2, <1>3 DEF CollusionInv

\* In whatever order find_collusion_rings walks its sets, each ring it reports is a complete group
\* that nobody could be added to, no closed group is missed, and nobody is reported by
\* run_full_scan without validations to show for it: a high mutual score takes validations in
\* both directions.  For any number of workers and any histories.
THEOREM RingsAndReportsHold == CollusionSpec => []CollusionInv
  BY CInvAtInit, CInvKept, CInvImpliesCollusionInv, PTL DEF CollusionSpec

=============================================================================
