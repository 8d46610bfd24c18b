---------------------------- MODULE DomainProofs ----------------------------
(***************************************************************************)
(* Theorems about the domain crate.                                        *)
(*                                                                         *)
(* RoutingProfile::select, for every profile, context and estimate: the    *)
(* comparison of sort_by is a strict total order on the candidates,        *)
(* because no two share provider and model; so the places of the eligible  *)
(* candidates are all filled, each by one candidate.                       *)
(*                                                                         *)
(* ProtectedTextRestorer, for every text and every way to cut it: a marker *)
(* can begin nowhere inside the text that was emitted, neither by now nor  *)
(* when more has come; so emitting bit by bit is reading at once.          *)
(***************************************************************************)
EXTENDS Routing, Restorer, FiniteSetTheorems, WellFoundedInduction, TLAPS

LEMMA LeastNatural ==
  ASSUME NEW T \in SUBSET Nat, T # {}
  PROVE  \E x \in T : \A y \in T : ~(y < x)
<1> DEFINE R == {ss \in Nat \X Nat : ss[1] < ss[2]}
<1>1. OpToRel(<, Nat) = R
  BY Zenon DEF OpToRel
<1>2. IsWellFoundedOn(R, Nat)
  BY <1>1, NatLessThanWellFounded, Zenon
<1>3. PICK x \in T : \A y \in T : ~(<<y, x>> \in R)
  BY <1>2, WFMin, Zenon
<1>4. QED
  BY <1>3

-----------------------------------------------------------------------------
(* The comparison.                                                         *)

\* The order of two candidates by two scores each, then provider and model.
Precedes(s1, s2, p1, m1, t1, t2, p2, m2) ==
  \/ t1 < s1
  \/ t1 = s1 /\ (t2 < s2 \/ (t2 = s2 /\ (p1 < p2 \/ (p1 = p2 /\ m1 < m2))))

LEMMA LessOne ==
  ASSUME NEW a \in Int, NEW b \in Int
  PROVE  Less(<<a>>, <<b>>) <=> a < b
<1>1. 1..Len(<<a>>) = {1} /\ <<a>>[1] = a /\ <<b>>[1] = b
  OBVIOUS
<1>2. Less(<<a>>, <<b>>) <=> a < b /\ \A j \in 1..(1 - 1) : <<a>>[j] = <<b>>[j]
  BY <1>1 DEF Less
<1>3. 1..(1 - 1) = {}
  OBVIOUS
<1>4. QED
  BY <1>2, <1>3

LEMMA LessTwo ==
  ASSUME NEW a1 \in Int, NEW a2 \in Int, NEW b1 \in Int, NEW b2 \in Int
  PROVE  Less(<<a1, a2>>, <<b1, b2>>) <=> a1 < b1 \/ (a1 = b1 /\ a2 < b2)
<1>1. \A i \in 1..Len(<<a1, a2>>) : i = 1 \/ i = 2
  OBVIOUS
<1>2. Less(<<a1, a2>>, <<b1, b2>>) <=>
        \/ a1 < b1 /\ \A j \in 1..(1 - 1) : <<a1, a2>>[j] = <<b1, b2>>[j]
        \/ a2 < b2 /\ \A j \in 1..(2 - 1) : <<a1, a2>>[j] = <<b1, b2>>[j]
  BY <1>1 DEF Less
<1>3. QED
  BY <1>2

LEMMA EstimateType ==
  ASSUME NEW v \in Optional
  PROVE  Estimate(v) \in Int
  BY RoutingAssumption DEF RoutingAssumption, Estimate, Optional, Absent

LEMMA CandidateType ==
  ASSUME NEW c \in Candidates
  PROVE  /\ c.provider \in Nat /\ c.model \in Nat /\ c.quality \in Nat /\ c.capacity \in Nat
         /\ c.latency \in Optional /\ c.cost \in Optional
         /\ Flag(c.local) \in Int
<1>1. c \in [provider : Nat, model : Nat, local : BOOLEAN, streaming : BOOLEAN,
             document : BOOLEAN, capacity : Nat, quality : Nat, latency : Optional,
             cost : Optional, sources : SUBSET Nat, targets : SUBSET Nat]
  BY RoutingAssumption DEF RoutingAssumption
<1>2. QED
  BY <1>1 DEF Flag

\* The scores of a candidate, with a second score of zero where there is one.
LEMMA RanksAre ==
  ASSUME NEW p, p.constraints.preference \in Preferences
  PROVE  \E f, g \in [Candidates -> Int] : \A c, d \in Candidates :
           RanksBefore(p, c, d) <=>
             Precedes(f[c], g[c], c.provider, c.model, f[d], g[d], d.provider, d.model)
<1> DEFINE k == p.constraints.preference
           local == [c \in Candidates |-> Flag(c.local)]
           quality == [c \in Candidates |-> c.quality]
           latency == [c \in Candidates |-> Estimate(c.latency)]
           cost == [c \in Candidates |-> Estimate(c.cost)]
           zero == [c \in Candidates |-> 0]
<1>1. /\ local \in [Candidates -> Int] /\ quality \in [Candidates -> Int]
      /\ latency \in [Candidates -> Int] /\ cost \in [Candidates -> Int]
      /\ zero \in [Candidates -> Int]
  BY CandidateType, EstimateType
<1>2. ASSUME NEW c \in Candidates, NEW d \in Candidates
      PROVE  Less(Key(c), Key(d)) <=>
               c.provider < d.provider \/ (c.provider = d.provider /\ c.model < d.model)
  <2>1. c.provider \in Int /\ c.model \in Int /\ d.provider \in Int /\ d.model \in Int
    BY CandidateType
  <2>2. QED
    BY <2>1, LessTwo DEF Key
<1>3. ASSUME NEW f \in [Candidates -> Int], NEW g \in [Candidates -> Int],
             \A c \in Candidates : score_components(p, c) = <<f[c], g[c]>>
      PROVE  \A c, d \in Candidates : RanksBefore(p, c, d) <=>
               Precedes(f[c], g[c], c.provider, c.model, f[d], g[d], d.provider, d.model)
  <2> SUFFICES ASSUME NEW c \in Candidates, NEW d \in Candidates
               PROVE  RanksBefore(p, c, d) <=>
                 Precedes(f[c], g[c], c.provider, c.model, f[d], g[d], d.provider, d.model)
    OBVIOUS
  <2>1. Less(score_components(p, d), score_components(p, c)) <=>
          f[d] < f[c] \/ (f[d] = f[c] /\ g[d] < g[c])
    BY <1>3, LessTwo
  <2>2. score_components(p, c) = score_components(p, d) <=> f[c] = f[d] /\ g[c] = g[d]
    BY <1>3
  <2>3. QED
    BY <1>2, <2>1, <2>2 DEF RanksBefore, Precedes
<1> HIDE DEF local, quality, latency, cost, zero
<1>4. CASE k = "local"
  <2>1. \A c \in Candidates : score_components(p, c) = <<local[c], quality[c]>>
    BY <1>4 DEF score_components, local, quality, latency, cost
  <2>2. \A c, d \in Candidates : RanksBefore(p, c, d) <=>
          Precedes(local[c], quality[c], c.provider, c.model,
                   local[d], quality[d], d.provider, d.model)
    BY <1>1, <1>3, <2>1, Zenon
  <2>3. QED
    BY <1>1, <2>2, Zenon
<1>5. CASE k = "quality"
  <2>1. \A c \in Candidates : score_components(p, c) = <<quality[c], local[c]>>
    BY <1>5 DEF score_components, local, quality, latency, cost
  <2>2. \A c, d \in Candidates : RanksBefore(p, c, d) <=>
          Precedes(quality[c], local[c], c.provider, c.model,
                   quality[d], local[d], d.provider, d.model)
    BY <1>1, <1>3, <2>1, Zenon
  <2>3. QED
    BY <1>1, <2>2, Zenon
<1>6. CASE k = "latency"
  <2>1. \A c \in Candidates : score_components(p, c) = <<latency[c], local[c]>>
    BY <1>6 DEF score_components, local, quality, latency, cost
  <2>2. \A c, d \in Candidates : RanksBefore(p, c, d) <=>
          Precedes(latency[c], local[c], c.provider, c.model,
                   latency[d], local[d], d.provider, d.model)
    BY <1>1, <1>3, <2>1, Zenon
  <2>3. QED
    BY <1>1, <2>2, Zenon
<1>7. CASE k = "cost"
  <2>1. \A c \in Candidates : score_components(p, c) = <<cost[c], local[c]>>
    BY <1>7 DEF score_components, local, quality, latency, cost
  <2>2. \A c, d \in Candidates : RanksBefore(p, c, d) <=>
          Precedes(cost[c], local[c], c.provider, c.model,
                   cost[d], local[d], d.provider, d.model)
    BY <1>1, <1>3, <2>1, Zenon
  <2>3. QED
    BY <1>1, <2>2, Zenon
<1>8. CASE k = "none"
  <2>1. \A c \in Candidates : score_components(p, c) = <<local[c]>>
    BY <1>8 DEF score_components, local
  <2>2. ASSUME NEW c \in Candidates, NEW d \in Candidates
        PROVE  RanksBefore(p, c, d) <=>
          Precedes(local[c], zero[c], c.provider, c.model, local[d], zero[d], d.provider, d.model)
    <3>1. Less(score_components(p, d), score_components(p, c)) <=> local[d] < local[c]
      BY <1>1, <2>1, LessOne
    <3>2. score_components(p, c) = score_components(p, d) <=> local[c] = local[d]
      BY <2>1
    <3>3. zero[c] = 0 /\ zero[d] = 0 /\ local[c] \in Int /\ local[d] \in Int
      BY <1>1 DEF zero
    <3>4. QED
      BY <1>2, <3>1, <3>2, <3>3 DEF RanksBefore, Precedes
  <2>3. QED
    BY <1>1, <2>2, Zenon
<1>9. QED
  BY <1>4, <1>5, <1>6, <1>7, <1>8 DEF Preferences

\* The comparison is a strict total order on the candidates.
LEMMA RanksTotally ==
  ASSUME NEW p, p.constraints.preference \in Preferences
  PROVE  /\ \A c, d \in Candidates : c # d => RanksBefore(p, c, d) \/ RanksBefore(p, d, c)
         /\ \A c, d \in Candidates : ~(RanksBefore(p, c, d) /\ RanksBefore(p, d, c))
         /\ \A c, d, e \in Candidates :
              RanksBefore(p, c, d) /\ RanksBefore(p, d, e) => RanksBefore(p, c, e)
<1>1. PICK f, g \in [Candidates -> Int] : \A c, d \in Candidates :
        RanksBefore(p, c, d) <=>
          Precedes(f[c], g[c], c.provider, c.model, f[d], g[d], d.provider, d.model)
  BY RanksAre
<1>2. \A c \in Candidates :
        f[c] \in Int /\ g[c] \in Int /\ c.provider \in Int /\ c.model \in Int
  BY CandidateType
<1>3. ASSUME NEW c \in Candidates, NEW d \in Candidates, c # d
      PROVE  RanksBefore(p, c, d) \/ RanksBefore(p, d, c)
  <2>1. c.provider # d.provider \/ c.model # d.model
    BY <1>3, RoutingAssumption DEF RoutingAssumption
  <2>2. QED
    BY <1>1, <1>2, <2>1 DEF Precedes
<1>4. ASSUME NEW c \in Candidates, NEW d \in Candidates
      PROVE  ~(RanksBefore(p, c, d) /\ RanksBefore(p, d, c))
  BY <1>1, <1>2 DEF Precedes
<1>5. ASSUME NEW c \in Candidates, NEW d \in Candidates, NEW e \in Candidates,
             RanksBefore(p, c, d), RanksBefore(p, d, e)
      PROVE  RanksBefore(p, c, e)
  BY <1>1, <1>2, <1>5 DEF Precedes
<1>6. QED
  BY <1>3, <1>4, <1>5

-----------------------------------------------------------------------------
(* The places of the candidates kept.                                      *)

\* Before is a strict total order on the places S.
Orders(p, S) ==
  /\ \A i, j \in S : i # j => Before(p, i, j) \/ Before(p, j, i)
  /\ \A i, j \in S : ~(Before(p, i, j) /\ Before(p, j, i))
  /\ \A i, j, l \in S : Before(p, i, j) /\ Before(p, j, l) => Before(p, i, l)

Down(p, S, i) == {j \in S : j = i \/ Before(p, j, i)}

\* The place in the eligible list of the candidate at place i of the profile.
Place(p, S, i) == Cardinality(Down(p, S, i))

LEMMA DownGrows ==
  ASSUME NEW p, NEW S, IsFiniteSet(S), Orders(p, S)
  PROVE  /\ \A i \in S : Place(p, S, i) \in 1..Cardinality(S)
         /\ \A i, j \in S : Before(p, i, j) => Place(p, S, i) < Place(p, S, j)
<1>1. Cardinality(S) \in Nat
  BY FS_CardinalityType
<1>2. ASSUME NEW i \in S
      PROVE  /\ IsFiniteSet(Down(p, S, i)) /\ Place(p, S, i) \in Nat
             /\ Place(p, S, i) <= Cardinality(S) /\ Place(p, S, i) # 0
  <2>1. Down(p, S, i) \in SUBSET S /\ i \in Down(p, S, i)
    BY DEF Down
  <2>2. IsFiniteSet(Down(p, S, i)) /\ Cardinality(Down(p, S, i)) <= Cardinality(S)
    BY <2>1, FS_Subset, Zenon
  <2>3. Cardinality(Down(p, S, i)) \in Nat
    BY <2>2, FS_CardinalityType, Zenon
  <2>4. Cardinality(Down(p, S, i)) # 0
    BY <2>1, <2>2, FS_EmptySet, Zenon
  <2>5. QED
    BY <2>2, <2>3, <2>4 DEF Place
<1>3. ASSUME NEW i \in S, NEW j \in S, Before(p, i, j)
      PROVE  Place(p, S, i) < Place(p, S, j)
  <2>1. Down(p, S, i) \in SUBSET Down(p, S, j)
    BY <1>3, Zenon DEF Down, Orders
  <2>2. j \in Down(p, S, j) /\ j \notin Down(p, S, i)
    BY <1>3, Zenon DEF Down, Orders
  <2>3. Place(p, S, i) <= Place(p, S, j) /\ Place(p, S, i) # Place(p, S, j)
    BY <1>2, <2>1, <2>2, FS_Subset, Zenon DEF Place
  <2>4. QED
    BY <1>2, <2>3
<1>4. QED
  BY <1>1, <1>2, <1>3

\* Every place of the list is that of exactly one candidate.
LEMMA PlacesAreFilled ==
  ASSUME NEW p, NEW S, IsFiniteSet(S), Orders(p, S)
  PROVE  /\ \A i, j \in S : Place(p, S, i) = Place(p, S, j) => i = j
         /\ \A n \in 1..Cardinality(S) : \E i \in S : Place(p, S, i) = n
<1> DEFINE f == [i \in S |-> Place(p, S, i)]
           T == 1..Cardinality(S)
<1>1. Cardinality(S) \in Nat
  BY FS_CardinalityType
<1>2. IsFiniteSet(T) /\ Cardinality(T) = Cardinality(S)
  BY <1>1, FS_Interval
<1>3. ASSUME NEW i \in S, NEW j \in S, Place(p, S, i) = Place(p, S, j)
      PROVE  i = j
  <2>1. ~(Place(p, S, i) < Place(p, S, j)) /\ ~(Place(p, S, j) < Place(p, S, i))
    BY <1>1, <1>3, DownGrows
  <2>2. QED
    BY <2>1, DownGrows, Zenon DEF Orders
<1>4. f \in Injection(S, T)
  BY <1>3, DownGrows, Zenon DEF Injection, IsInjective
<1>5. f \in Surjection(S, T)
  BY <1>2, <1>4, FS_Injection, Zenon
<1>6. \A n \in T : \E i \in S : f[i] = n
  BY <1>5, Zenon DEF Surjection
<1>7. QED
  BY <1>3, <1>6, Zenon

LEMMA EligibleIs ==
  ASSUME NEW p, NEW S, IsFiniteSet(S), Orders(p, S)
  PROVE  /\ DOMAIN Eligible(p, S) = 1..Cardinality(S)
         /\ Len(Eligible(p, S)) = Cardinality(S)
         /\ \A i \in S : Eligible(p, S)[Place(p, S, i)] = p.candidates[i]
<1>1. Cardinality(S) \in Nat
  BY FS_CardinalityType
<1>2. ASSUME NEW i \in S
      PROVE  AtRank(p, S, Place(p, S, i)) = {i}
  <2>1. \A l \in S : Cardinality({j \in S : j = l \/ Before(p, j, l)}) = Place(p, S, l)
    BY Zenon DEF Place, Down
  <2>2. \A l \in S : l \in AtRank(p, S, Place(p, S, i)) <=> Place(p, S, l) = Place(p, S, i)
    BY <2>1, Zenon DEF AtRank
  <2>3. AtRank(p, S, Place(p, S, i)) \subseteq S
    BY Zenon DEF AtRank
  <2>4. \A l \in S : Place(p, S, l) = Place(p, S, i) => l = i
    BY PlacesAreFilled, Zenon
  <2>5. i \in AtRank(p, S, Place(p, S, i))
    BY <2>2, Zenon
  <2>6. \A l \in AtRank(p, S, Place(p, S, i)) : l = i
    BY <2>2, <2>3, <2>4, Zenon
  <2>7. QED
    BY <2>5, <2>6, Zenon
<1>3. ASSUME NEW i \in S
      PROVE  (CHOOSE l \in AtRank(p, S, Place(p, S, i)) : TRUE) = i
  <2>1. (CHOOSE l \in {i} : TRUE) = i
    OBVIOUS
  <2>2. QED
    BY <1>2, <2>1, Zenon
<1>4. ASSUME NEW i \in S
      PROVE  Eligible(p, S)[Place(p, S, i)] = p.candidates[i]
  <2>1. Place(p, S, i) \in 1..Cardinality(S)
    BY DownGrows, Zenon
  <2>2. Eligible(p, S)[Place(p, S, i)] =
          p.candidates[CHOOSE l \in AtRank(p, S, Place(p, S, i)) : TRUE]
    BY <2>1 DEF Eligible
  <2>3. QED
    BY <1>3, <2>2, Zenon
<1>5. Len(Eligible(p, S)) = Cardinality(S)
  BY <1>1 DEF Eligible
<1>6. QED
  BY <1>4, <1>5, Zenon DEF Eligible

-----------------------------------------------------------------------------
(* The order of the places of a profile.                                   *)

LEMMA FunctionIsSequence ==
  ASSUME NEW X, NEW n \in Nat, NEW f \in [1..n -> X]
  PROVE  f \in Seq(X) /\ Len(f) = n
  OBVIOUS

\* What validate leaves true of a profile.
LEMMA ProfileType ==
  ASSUME NEW p \in Profiles
  PROVE  /\ p.constraints \in Constraints /\ p.constraints.preference \in Preferences
         /\ p.candidates \in CandidateLists
         /\ Len(p.candidates) \in Nat /\ DOMAIN p.candidates = 1..Len(p.candidates)
         /\ \A i \in 1..Len(p.candidates) : p.candidates[i] \in Candidates
         /\ \A i, j \in 1..Len(p.candidates) : p.candidates[i] = p.candidates[j] => i = j
<1>1. p.constraints \in Constraints /\ p.candidates \in CandidateLists
  BY DEF Profiles
<1>2. p.constraints.preference \in Preferences
  BY <1>1, RoutingAssumption DEF RoutingAssumption
<1>3. PICK n \in 1..MaxLength : p.candidates \in [1..n -> Candidates]
  BY <1>1, Zenon DEF CandidateLists
<1>4. n \in Nat
  OBVIOUS
<1>5. p.candidates \in Seq(Candidates) /\ Len(p.candidates) = n
  BY <1>3, <1>4, FunctionIsSequence, Zenon
<1>6. \A i, j \in 1..Len(p.candidates) : p.candidates[i] = p.candidates[j] => i = j
  BY <1>1, Zenon DEF CandidateLists
<1>7. QED
  BY <1>1, <1>2, <1>3, <1>4, <1>5, <1>6

\* In automatic mode the order is that of the candidates, wherever they stand.
LEMMA AutomaticOrder ==
  ASSUME NEW p \in Profiles, p.mode = "automatic",
         NEW i \in 1..Len(p.candidates), NEW j \in 1..Len(p.candidates)
  PROVE  Before(p, i, j) <=> RanksBefore(p, p.candidates[i], p.candidates[j])
<1>1. /\ p.candidates[i] \in Candidates /\ p.candidates[j] \in Candidates
      /\ p.candidates[i] = p.candidates[j] => i = j
  BY ProfileType
<1>2. CASE i = j
  BY <1>1, <1>2, ProfileType, RanksTotally DEF Before
<1>3. CASE i # j
  <2>1. \/ RanksBefore(p, p.candidates[i], p.candidates[j])
        \/ RanksBefore(p, p.candidates[j], p.candidates[i])
    BY <1>1, <1>3, ProfileType, RanksTotally, Zenon
  <2>2. ~(/\ RanksBefore(p, p.candidates[i], p.candidates[j])
          /\ RanksBefore(p, p.candidates[j], p.candidates[i]))
    BY <1>1, ProfileType, RanksTotally, Zenon
  <2>3. QED
    BY <2>1, <2>2, Zenon DEF Before
<1>4. QED
  BY <1>2, <1>3

LEMMA PlacesAreOrdered ==
  ASSUME NEW p \in Profiles, NEW S \in SUBSET (1..Len(p.candidates))
  PROVE  Orders(p, S)
<1>1. CASE p.mode # "automatic"
  BY <1>1, ProfileType DEF Orders, Before
<1>2. CASE p.mode = "automatic"
  <2>1. \A i \in S : i \in 1..Len(p.candidates) /\ p.candidates[i] \in Candidates
    BY ProfileType
  <2>2. \A i, j \in S : i # j => p.candidates[i] # p.candidates[j]
    BY ProfileType
  <2>3. \A i, j \in S : Before(p, i, j) <=> RanksBefore(p, p.candidates[i], p.candidates[j])
    BY <1>2, <2>1, AutomaticOrder
  <2>4. ASSUME NEW i \in S, NEW j \in S, i # j
        PROVE  Before(p, i, j) \/ Before(p, j, i)
    <3>1. /\ p.candidates[i] \in Candidates /\ p.candidates[j] \in Candidates
          /\ p.candidates[i] # p.candidates[j]
      BY <2>1, <2>2, <2>4, Zenon
    <3>2. \/ RanksBefore(p, p.candidates[i], p.candidates[j])
          \/ RanksBefore(p, p.candidates[j], p.candidates[i])
      BY <3>1, ProfileType, RanksTotally, Zenon
    <3>3. QED
      BY <2>3, <3>2, Zenon
  <2>5. ASSUME NEW i \in S, NEW j \in S
        PROVE  ~(Before(p, i, j) /\ Before(p, j, i))
    <3>1. p.candidates[i] \in Candidates /\ p.candidates[j] \in Candidates
      BY <2>1, Zenon
    <3>2. ~(/\ RanksBefore(p, p.candidates[i], p.candidates[j])
            /\ RanksBefore(p, p.candidates[j], p.candidates[i]))
      BY <3>1, ProfileType, RanksTotally, Zenon
    <3>3. QED
      BY <2>3, <3>2, Zenon
  <2>6. ASSUME NEW i \in S, NEW j \in S, NEW l \in S, Before(p, i, j), Before(p, j, l)
        PROVE  Before(p, i, l)
    <3>1. /\ p.candidates[i] \in Candidates /\ p.candidates[j] \in Candidates
          /\ p.candidates[l] \in Candidates
      BY <2>1, Zenon
    <3>2. /\ RanksBefore(p, p.candidates[i], p.candidates[j])
          /\ RanksBefore(p, p.candidates[j], p.candidates[l])
      BY <2>3, <2>6, Zenon
    <3>3. \A c, d, e \in Candidates :
            RanksBefore(p, c, d) /\ RanksBefore(p, d, e) => RanksBefore(p, c, e)
      BY ProfileType, RanksTotally, Zenon
    <3>4. RanksBefore(p, p.candidates[i], p.candidates[l])
      BY <3>1, <3>2, <3>3, Zenon
    <3>5. QED
      BY <2>3, <3>4, Zenon
  <2>7. \A i, j \in S : i # j => Before(p, i, j) \/ Before(p, j, i)
    BY <2>4, Zenon
  <2>8. \A i, j \in S : ~(Before(p, i, j) /\ Before(p, j, i))
    BY <2>5, Zenon
  <2>9. QED
    BY <2>6, <2>7, <2>8 DEF Orders
<1>3. QED
  BY <1>1, <1>2

LEMMA KeptIsFinite ==
  ASSUME NEW p \in Profiles, NEW x
  PROVE  Kept(p, x) \in SUBSET (1..Len(p.candidates)) /\ IsFiniteSet(Kept(p, x))
<1>1. Kept(p, x) \in SUBSET (1..Len(p.candidates))
  BY DEF Kept
<1>2. IsFiniteSet(1..Len(p.candidates))
  BY ProfileType, FS_Interval
<1>3. QED
  BY <1>1, <1>2, FS_Subset, Zenon

\* The eligible list: one place for each candidate kept, in the order.
LEMMA EligibleList ==
  ASSUME NEW p \in Profiles, NEW x
  PROVE  LET S == Kept(p, x)
             e == Eligible(p, S)
         IN /\ Len(e) = Cardinality(S) /\ Cardinality(S) \in Nat /\ DOMAIN e = 1..Len(e)
            /\ \A i \in S : Place(p, S, i) \in 1..Len(e) /\ e[Place(p, S, i)] = p.candidates[i]
            /\ \A n \in 1..Len(e) : \E i \in S : Place(p, S, i) = n
            /\ \A i, j \in S : Before(p, i, j) => Place(p, S, i) < Place(p, S, j)
<1> DEFINE S == Kept(p, x)
<1>1. IsFiniteSet(S) /\ Orders(p, S)
  BY KeptIsFinite, PlacesAreOrdered, Zenon
<1>2. Cardinality(S) \in Nat
  BY <1>1, FS_CardinalityType, Zenon
<1>3. /\ DOMAIN Eligible(p, S) = 1..Cardinality(S)
      /\ Len(Eligible(p, S)) = Cardinality(S)
      /\ \A i \in S : Eligible(p, S)[Place(p, S, i)] = p.candidates[i]
  BY <1>1, EligibleIs, Zenon
<1>4. /\ \A i \in S : Place(p, S, i) \in 1..Cardinality(S)
      /\ \A i, j \in S : Before(p, i, j) => Place(p, S, i) < Place(p, S, j)
  BY <1>1, DownGrows, Zenon
<1>5. \A n \in 1..Cardinality(S) : \E i \in S : Place(p, S, i) = n
  BY <1>1, PlacesAreFilled, Zenon
<1>6. QED
  BY <1>2, <1>3, <1>4, <1>5, Zenon

-----------------------------------------------------------------------------
(* The checks of rejection_reason.                                         *)

LEMMA ReasonsAre ==
  /\ Len(Reasons) = 13
  /\ Reasons[1] = "provider_not_allowed" /\ Reasons[2] = "provider_denied"
  /\ Reasons[3] = "model_not_allowed" /\ Reasons[4] = "model_denied"
  /\ Reasons[5] = "remote_disallowed" /\ Reasons[6] = "privacy_remote_disallowed"
  /\ Reasons[7] = "streaming_unsupported" /\ Reasons[8] = "document_unsupported"
  /\ Reasons[9] = "context_too_small" /\ Reasons[10] = "request_too_large"
  /\ Reasons[11] = "quality_too_low" /\ Reasons[12] = "source_locale_unsupported"
  /\ Reasons[13] = "target_locale_unsupported"
  BY DEF Reasons

LEMMA ThirteenNumbers ==
  ASSUME NEW i \in 1..13
  PROVE  i \in {1, 2, 3, 4, 5, 6, 7, 8, 9, 10, 11, 12, 13}
  OBVIOUS

LEMMA ReasonIsAName ==
  ASSUME NEW i \in 1..Len(Reasons)
  PROVE  Reasons[i] # "none"
<1>1. i \in {1, 2, 3, 4, 5, 6, 7, 8, 9, 10, 11, 12, 13}
  BY ReasonsAre, ThirteenNumbers
<1>2. QED
  BY <1>1, ReasonsAre

\* A candidate is kept when no reason refuses it.
LEMMA NoneMeansNoReason ==
  ASSUME NEW p, NEW c, NEW x
  PROVE  rejection_reason(p, c, x) = "none" <=>
           \A i \in 1..Len(Reasons) : ~Refuses(Reasons[i], p.constraints, c, x)
<1> DEFINE at == {i \in 1..Len(Reasons) : Refuses(Reasons[i], p.constraints, c, x)}
<1>1. CASE at = {}
  BY <1>1, Zenon DEF rejection_reason
<1>2. CASE at # {}
  <2>1. at \in SUBSET Nat
    BY ReasonsAre
  <2>2. \E i \in at : \A j \in at : ~(j < i)
    BY <1>2, <2>1, LeastNatural, Zenon
  <2>3. \E i \in at : \A j \in at : i <= j
    BY <2>1, <2>2
  <2>4. (CHOOSE i \in at : \A j \in at : i <= j) \in at
    BY <2>3, Zenon
  <2>5. Reasons[CHOOSE i \in at : \A j \in at : i <= j] # "none"
    BY <2>4, ReasonIsAName, Zenon
  <2>6. rejection_reason(p, c, x) # "none"
    BY <1>2, <2>5, Zenon DEF rejection_reason
  <2>7. QED
    BY <1>2, <2>6, Zenon
<1>3. QED
  BY <1>1, <1>2

\* No reason refuses a candidate exactly when it is admissible.
LEMMA NoReasonMeansAdmissible ==
  ASSUME profile \in Profiles, context \in Contexts, NEW c \in Candidates
  PROVE  (\A i \in 1..Len(Reasons) : ~Refuses(Reasons[i], profile.constraints, c, context))
           <=> Admissible(c)
<1> DEFINE k == profile.constraints
           x == context
           R(reason) == Refuses(reason, k, c, x)
<1>1. (\A i \in 1..Len(Reasons) : ~R(Reasons[i])) <=>
        /\ ~R("provider_not_allowed") /\ ~R("provider_denied") /\ ~R("model_not_allowed")
        /\ ~R("model_denied") /\ ~R("remote_disallowed") /\ ~R("privacy_remote_disallowed")
        /\ ~R("streaming_unsupported") /\ ~R("document_unsupported")
        /\ ~R("context_too_small") /\ ~R("request_too_large") /\ ~R("quality_too_low")
        /\ ~R("source_locale_unsupported") /\ ~R("target_locale_unsupported")
  <2> HIDE DEF R
  <2>1. 1..Len(Reasons) = {1, 2, 3, 4, 5, 6, 7, 8, 9, 10, 11, 12, 13}
    BY ReasonsAre
  <2>2. QED
    BY <2>1, ReasonsAre
<1>2. /\ ~R("provider_not_allowed") <=>
           k.provider_allowlist = {} \/ c.provider \in k.provider_allowlist
      /\ ~R("provider_denied") <=> c.provider \notin k.provider_denylist
      /\ ~R("model_not_allowed") <=> k.model_allowlist = {} \/ c.model \in k.model_allowlist
      /\ ~R("model_denied") <=> c.model \notin k.model_denylist
  BY DEF Refuses
<1>3. ~R("remote_disallowed") /\ ~R("privacy_remote_disallowed") <=>
        c.local \/ (~k.local_only /\ k.allow_remote
                     /\ ~(k.privacy_sensitive /\ x.privacy_sensitive))
  BY DEF Refuses, Sensitive
<1>4. /\ ~R("streaming_unsupported") <=>
           c.streaming \/ (~k.require_streaming /\ ~x.require_streaming)
      /\ ~R("document_unsupported") <=>
           c.document \/ (~k.require_document /\ ~x.require_document)
  BY DEF Refuses
<1>5. /\ x.request_bytes \in Nat /\ c.capacity \in Nat /\ c.quality \in Nat
      /\ k.max_request_bytes \in Optional /\ k.minimum_quality_tier \in Optional
  BY ProfileType, CandidateType, RoutingAssumption DEF RoutingAssumption
<1>6. ~R("context_too_small") <=> x.request_bytes <= c.capacity
  BY <1>5 DEF Refuses
<1>7. ~R("request_too_large") <=>
        k.max_request_bytes \in {Absent} \/ x.request_bytes <= k.max_request_bytes
  BY <1>5 DEF Refuses, Optional, Absent
<1>8. ~R("quality_too_low") <=> k.minimum_quality_tier <= c.quality
  BY <1>5 DEF Refuses, Optional, Absent
<1>9. /\ ~R("source_locale_unsupported") <=>
           x.source_locale = Absent \/ c.sources = {} \/ x.source_locale \in c.sources
      /\ ~R("target_locale_unsupported") <=> c.targets = {} \/ x.target_locale \in c.targets
  BY DEF Refuses
<1> HIDE DEF R
<1>10. (\A i \in 1..Len(Reasons) : ~R(Reasons[i])) <=> Admissible(c)
  BY <1>1, <1>2, <1>3, <1>4, <1>6, <1>7, <1>8, <1>9 DEF Admissible
<1>11. QED
  BY <1>10 DEF R

-----------------------------------------------------------------------------
(* The specification.                                                      *)

SelectInv ==
  /\ profile \in Profiles /\ context \in Contexts
  /\ decision = [result |-> "none"] \/ decision = Selected(profile, context)

LEMMA SelectInvAlways == Spec => []SelectInv
<1>1. Init => SelectInv
  BY Zenon DEF Init, SelectInv
<1>2. SelectInv /\ [Next]_vars => SelectInv'
  <2> SUFFICES ASSUME SelectInv, [Next]_vars PROVE SelectInv'
    OBVIOUS
  <2>1. CASE select
    BY <2>1, Zenon DEF SelectInv, select
  <2>2. CASE UNCHANGED vars
    BY <2>2, Zenon DEF SelectInv, vars
  <2>3. QED
    BY <2>1, <2>2, Zenon DEF Next
<1>3. QED
  BY <1>1, <1>2, PTL DEF Spec

\* What a decision says.
LEMMA DecisionIs ==
  ASSUME NEW p, NEW x
  PROVE  LET S == Kept(p, x)
             d == Selected(p, x)
         IN /\ S = {} => d.result = "no_eligible_candidates"
            /\ S # {} => d.result = "selected" /\ d.eligible = Eligible(p, S)
  BY DEF Selected

LEMMA KeptAreAdmissible ==
  ASSUME profile \in Profiles, context \in Contexts
  PROVE  {c \in Elements(profile.candidates) : Admissible(c)} =
           {profile.candidates[i] : i \in Kept(profile, context)}
<1> DEFINE cs == profile.candidates
<1>1. \A i \in 1..Len(cs) : cs[i] \in Candidates
  BY ProfileType
<1>2. \A i \in 1..Len(cs) : i \in Kept(profile, context) <=> Admissible(cs[i])
  BY <1>1, NoneMeansNoReason, NoReasonMeansAdmissible, Zenon DEF Kept
<1>3. Kept(profile, context) \subseteq 1..Len(cs)
  BY Zenon DEF Kept
<1>4. QED
  BY <1>2, <1>3, Zenon DEF Elements

LEMMA EligibleElements ==
  ASSUME NEW p \in Profiles, NEW x
  PROVE  Elements(Eligible(p, Kept(p, x))) = {p.candidates[i] : i \in Kept(p, x)}
<1> DEFINE S == Kept(p, x)
           e == Eligible(p, S)
<1>1. \A i \in S : Place(p, S, i) \in 1..Len(e) /\ e[Place(p, S, i)] = p.candidates[i]
  BY EligibleList, ZenonT(40)
<1>2. \A n \in 1..Len(e) : \E i \in S : Place(p, S, i) = n
  BY EligibleList, ZenonT(40)
<1> HIDE DEF e
<1>3. ASSUME NEW c \in Elements(e)
      PROVE  c \in {p.candidates[i] : i \in S}
  <2>1. PICK n \in 1..Len(e) : c = e[n]
    BY Zenon DEF Elements
  <2>2. PICK i \in S : Place(p, S, i) = n
    BY <1>2, Zenon
  <2>3. c = p.candidates[i]
    BY <1>1, <2>1, <2>2, Zenon
  <2>4. QED
    BY <2>3, Zenon
<1>4. ASSUME NEW i \in S
      PROVE  p.candidates[i] \in Elements(e)
  BY <1>1, Zenon DEF Elements
<1>5. Elements(e) = {p.candidates[i] : i \in S}
  BY <1>3, <1>4, Zenon
<1>6. QED
  BY <1>5, Zenon DEF e

\* RoutingProfile::select fails closed: exactly the candidates that satisfy
\* every constraint are eligible, and an error means that there were none.
THEOREM FilterFailsClosed == Spec => []FailClosed
<1>1. ASSUME SelectInv
      PROVE  FailClosed
  <2>1. profile \in Profiles /\ context \in Contexts
    BY <1>1 DEF SelectInv
  <2>2. SUFFICES ASSUME decision = Selected(profile, context) PROVE FailClosed
    <3>1. decision = [result |-> "none"] => FailClosed
      BY DEF FailClosed
    <3>2. QED
      BY <1>1, <2>2, <3>1, Zenon DEF SelectInv
  <2>3. {c \in Elements(profile.candidates) : Admissible(c)} =
          {profile.candidates[i] : i \in Kept(profile, context)}
    BY <2>1, KeptAreAdmissible, Zenon
  <2>4. CASE Kept(profile, context) = {}
    <3>1. decision.result = "no_eligible_candidates"
      BY <2>2, <2>4, DecisionIs, Zenon
    <3>2. ~Decided
      BY <3>1 DEF Decided
    <3>3. {profile.candidates[i] : i \in Kept(profile, context)} = {}
      BY <2>4
    <3>4. QED
      BY <2>3, <3>2, <3>3, Zenon DEF FailClosed
  <2>5. CASE Kept(profile, context) # {}
    <3>1. Decided /\ decision.eligible = Eligible(profile, Kept(profile, context))
      BY <2>2, <2>5, DecisionIs, Zenon DEF Decided
    <3>2. Elements(decision.eligible) = {profile.candidates[i] : i \in Kept(profile, context)}
      BY <2>1, <3>1, EligibleElements, Zenon
    <3>3. QED
      BY <2>3, <3>1, <3>2, Zenon DEF FailClosed
  <2>6. QED
    BY <2>4, <2>5
<1>2. QED
  BY <1>1, SelectInvAlways, PTL

-----------------------------------------------------------------------------
(* The estimates.                                                          *)

LEMMA LowerScoresHigher ==
  ASSUME NEW v \in Optional, NEW w \in Optional,
         v # Absent, v < I64Max, w = Absent \/ w > v
  PROVE  Estimate(w) < Estimate(v)
  BY RoutingAssumption DEF RoutingAssumption, Estimate, Optional, Absent

\* With a preference on estimates, the lower one ranks before.
LEMMA LowerRanksBefore ==
  ASSUME NEW p, NEW c \in Candidates, NEW d \in Candidates,
         p.constraints.preference \in {"latency", "cost"},
         NEW v, NEW w,
         v = (IF p.constraints.preference = "latency" THEN c.latency ELSE c.cost),
         w = (IF p.constraints.preference = "latency" THEN d.latency ELSE d.cost),
         v # Absent, v < I64Max, w = Absent \/ w > v
  PROVE  RanksBefore(p, c, d)
<1>1. v \in Optional /\ w \in Optional
  BY CandidateType
<1>2. Estimate(w) < Estimate(v) /\ Estimate(v) \in Int /\ Estimate(w) \in Int
  BY <1>1, LowerScoresHigher, EstimateType
<1>3. /\ score_components(p, c) = <<Estimate(v), Flag(c.local)>>
      /\ score_components(p, d) = <<Estimate(w), Flag(d.local)>>
  BY DEF score_components
<1>4. Less(score_components(p, d), score_components(p, c))
  BY <1>2, <1>3, CandidateType, LessTwo
<1>5. QED
  BY <1>4 DEF RanksBefore

\* The sort by score_components puts a lower estimate before a higher or
\* unknown one, up to the value at which scores saturate.
THEOREM LowerEstimateIsFirst == Spec => []LowerEstimateFirst
<1>1. ASSUME SelectInv
      PROVE  LowerEstimateFirst
  <2> DEFINE p == profile
             S == Kept(profile, context)
             latency == p.constraints.preference = "latency"
             Value(c) == IF latency THEN c.latency ELSE c.cost
             e == decision.eligible
  <2>1. SUFFICES ASSUME Decided, p.mode = "automatic",
                        p.constraints.preference \in {"latency", "cost"},
                        NEW i \in 1..Len(e), NEW j \in 1..Len(e),
                        Value(e[i]) # Absent, Value(e[i]) < I64Max,
                        Value(e[j]) = Absent \/ Value(e[j]) > Value(e[i])
                 PROVE  i < j
    BY DEF LowerEstimateFirst
  <2>2. p \in Profiles
    BY <1>1 DEF SelectInv
  <2>3. decision = Selected(p, context)
    BY <1>1, <2>1 DEF SelectInv, Decided
  <2>4. e = Eligible(p, S)
    <3>1. S # {}
      BY <2>1, <2>3, DecisionIs DEF Decided
    <3>2. QED
      BY <2>3, <3>1, DecisionIs, Zenon
  <2> HIDE DEF e
  <2>5. PICK a \in S : Place(p, S, a) = i
    BY <2>2, <2>4, EligibleList, ZenonT(40)
  <2>6. PICK b \in S : Place(p, S, b) = j
    BY <2>2, <2>4, EligibleList, ZenonT(40)
  <2>7. e[i] = p.candidates[a] /\ e[j] = p.candidates[b]
    BY <2>2, <2>4, <2>5, <2>6, EligibleList, ZenonT(40)
  <2>8. a \in 1..Len(p.candidates) /\ b \in 1..Len(p.candidates)
    BY Zenon DEF Kept
  <2>9. p.candidates[a] \in Candidates /\ p.candidates[b] \in Candidates
    BY <2>2, <2>8, ProfileType, Zenon
  <2>10. RanksBefore(p, p.candidates[a], p.candidates[b])
    BY <2>1, <2>7, <2>9, LowerRanksBefore
  <2>11. Before(p, a, b)
    BY <2>1, <2>2, <2>8, <2>10, AutomaticOrder, Zenon
  <2>12. Place(p, S, a) < Place(p, S, b)
    BY <2>2, <2>11, EligibleList, ZenonT(40)
  <2>13. QED
    BY <2>5, <2>6, <2>12, Zenon
<1>2. QED
  BY <1>1, SelectInvAlways, PTL

-----------------------------------------------------------------------------
(* The order in which the profile lists its candidates.                    *)

\* Different places hold different candidates.
LEMMA CountByPlace ==
  ASSUME NEW p \in Profiles, NEW U \in SUBSET (1..Len(p.candidates))
  PROVE  Cardinality({p.candidates[l] : l \in U}) = Cardinality(U)
<1> DEFINE T == {p.candidates[l] : l \in U}
           f == [l \in U |-> p.candidates[l]]
<1>1. IsFiniteSet(U)
  <2>1. IsFiniteSet(1..Len(p.candidates))
    BY ProfileType, FS_Interval
  <2>2. QED
    BY <2>1, FS_Subset, Zenon
<1>2. \A a, b \in U : p.candidates[a] = p.candidates[b] => a = b
  BY ProfileType, Zenon
<1>3. f \in Injection(U, T)
  BY <1>2, Zenon DEF Injection, IsInjective
<1>4. f \in Surjection(U, T)
  BY Zenon DEF Surjection
<1>5. ExistsBijection(U, T)
  BY <1>3, <1>4, Zenon DEF ExistsBijection, Bijection
<1>6. QED
  BY <1>1, <1>5, FS_Bijection, Zenon

\* The candidates kept, and those of them that do not come after c.
KeptCandidates(p, x) == {c \in Elements(p.candidates) : rejection_reason(p, c, x) = "none"}

NotAfter(p, x, c) == {d \in KeptCandidates(p, x) : d = c \/ RanksBefore(p, d, c)}

LEMMA KeptByCandidate ==
  ASSUME NEW p \in Profiles, NEW x
  PROVE  {p.candidates[l] : l \in Kept(p, x)} = KeptCandidates(p, x)
  BY Zenon DEF KeptCandidates, Kept, Elements

LEMMA PlaceByCandidate ==
  ASSUME NEW p \in Profiles, p.mode = "automatic", NEW x, NEW i \in Kept(p, x)
  PROVE  Place(p, Kept(p, x), i) = Cardinality(NotAfter(p, x, p.candidates[i]))
<1> DEFINE S == Kept(p, x)
           U == Down(p, S, i)
<1>1. S \subseteq 1..Len(p.candidates) /\ U \in SUBSET S
  BY Zenon DEF Kept, Down
<1>2. \A l \in S : l \in U <=>
        \/ p.candidates[l] = p.candidates[i]
        \/ RanksBefore(p, p.candidates[l], p.candidates[i])
  <2>1. \A l \in S : p.candidates[l] = p.candidates[i] <=> l = i
    BY <1>1, ProfileType, Zenon
  <2>2. \A l \in S : Before(p, l, i) <=> RanksBefore(p, p.candidates[l], p.candidates[i])
    BY <1>1, AutomaticOrder, Zenon
  <2>3. QED
    BY <2>1, <2>2, Zenon DEF Down
<1>3. {p.candidates[l] : l \in U} = NotAfter(p, x, p.candidates[i])
  <2>1. KeptCandidates(p, x) = {p.candidates[l] : l \in S}
    BY KeptByCandidate, Zenon
  <2>2. ASSUME NEW l \in U
        PROVE  p.candidates[l] \in NotAfter(p, x, p.candidates[i])
    BY <1>1, <1>2, <2>1, Zenon DEF NotAfter
  <2>3. ASSUME NEW d \in NotAfter(p, x, p.candidates[i])
        PROVE  d \in {p.candidates[l] : l \in U}
    <3>1. PICK l \in S : d = p.candidates[l]
      BY <2>1, Zenon DEF NotAfter
    <3>2. l \in U
      BY <1>2, <3>1, Zenon DEF NotAfter
    <3>3. QED
      BY <3>1, <3>2, Zenon
  <2>4. QED
    BY <2>2, <2>3, Zenon
<1>4. U \in SUBSET (1..Len(p.candidates))
  BY <1>1, Zenon
<1>5. Cardinality({p.candidates[l] : l \in U}) = Cardinality(U)
  BY <1>4, CountByPlace, Zenon
<1>6. QED
  BY <1>3, <1>5, Zenon DEF Place

\* Two profiles that differ in the order of their candidates keep the same.
LEMMA SameCandidates ==
  ASSUME NEW p \in Profiles, NEW q \in Profiles, NEW x, p.constraints = q.constraints,
         Elements(p.candidates) = Elements(q.candidates)
  PROVE  /\ KeptCandidates(p, x) = KeptCandidates(q, x)
         /\ \A c : NotAfter(p, x, c) = NotAfter(q, x, c)
<1>1. \A c : rejection_reason(p, c, x) = rejection_reason(q, c, x)
  BY DEF rejection_reason
<1>2. \A c, d : RanksBefore(p, c, d) <=> RanksBefore(q, c, d)
  <2>1. \A c : score_components(p, c) = score_components(q, c)
    BY DEF score_components
  <2>2. ASSUME NEW c, NEW d
        PROVE  RanksBefore(p, c, d) <=> RanksBefore(q, c, d)
    <3>1. /\ score_components(p, c) = score_components(q, c)
          /\ score_components(p, d) = score_components(q, d)
      BY <2>1, Zenon
    <3>2. QED
      BY <3>1 DEF RanksBefore
  <2>3. QED
    BY <2>2, Zenon
<1>3. KeptCandidates(p, x) = KeptCandidates(q, x)
  BY <1>1, Zenon DEF KeptCandidates
<1>4. QED
  BY <1>2, <1>3, Zenon DEF NotAfter

LEMMA PlaceIsTaken ==
  ASSUME NEW p \in Profiles, NEW x, NEW n \in 1..Cardinality(Kept(p, x))
  PROVE  \E i \in Kept(p, x) : Place(p, Kept(p, x), i) = n
<1>1. IsFiniteSet(Kept(p, x)) /\ Orders(p, Kept(p, x))
  BY KeptIsFinite, PlacesAreOrdered, Zenon
<1>2. \A m \in 1..Cardinality(Kept(p, x)) : \E i \in Kept(p, x) : Place(p, Kept(p, x), i) = m
  BY <1>1, PlacesAreFilled, Zenon
<1>3. QED
  BY <1>2, Zenon

LEMMA SameEligible ==
  ASSUME NEW p \in Profiles, NEW q \in Profiles, NEW x, p.constraints = q.constraints,
         p.mode = "automatic", q.mode = "automatic",
         Elements(p.candidates) = Elements(q.candidates)
  PROVE  Eligible(p, Kept(p, x)) = Eligible(q, Kept(q, x))
<1> DEFINE S == Kept(p, x)
           T == Kept(q, x)
           e == Eligible(p, S)
           f == Eligible(q, T)
<1>1. /\ KeptCandidates(p, x) = KeptCandidates(q, x)
      /\ \A c : NotAfter(p, x, c) = NotAfter(q, x, c)
  BY SameCandidates
<1>2. {p.candidates[l] : l \in S} = {q.candidates[l] : l \in T}
  <2>1. {p.candidates[l] : l \in S} = KeptCandidates(p, x)
    BY KeptByCandidate, Zenon
  <2>2. {q.candidates[l] : l \in T} = KeptCandidates(q, x)
    BY KeptByCandidate, Zenon
  <2>3. QED
    BY <1>1, <2>1, <2>2, Zenon
<1>3. Cardinality(S) = Cardinality(T)
  <2>1. /\ Cardinality({p.candidates[l] : l \in S}) = Cardinality(S)
        /\ Cardinality({q.candidates[l] : l \in T}) = Cardinality(T)
    BY KeptIsFinite, CountByPlace, Zenon
  <2>2. QED
    BY <1>2, <2>1, Zenon
<1>4. ASSUME NEW n \in 1..Cardinality(S)
      PROVE  e[n] = f[n]
  <2>1. PICK i \in S : Place(p, S, i) = n
    BY PlaceIsTaken
  <2>2. e[n] = p.candidates[i]
    BY <2>1, EligibleList, Zenon
  <2>3. p.candidates[i] \in {q.candidates[l] : l \in T}
    BY <1>2, Zenon
  <2>4. PICK j \in T : p.candidates[i] = q.candidates[j]
    BY <2>3, Zenon
  <2>5. Place(q, T, j) = Cardinality(NotAfter(q, x, q.candidates[j]))
    BY PlaceByCandidate, Zenon
  <2>6. Place(p, S, i) = Cardinality(NotAfter(p, x, p.candidates[i]))
    BY PlaceByCandidate, Zenon
  <2>7. Place(q, T, j) = n
    BY <1>1, <2>1, <2>4, <2>5, <2>6, Zenon
  <2>8. f[n] = q.candidates[j]
    BY <2>7, EligibleList, Zenon
  <2>9. QED
    BY <2>2, <2>4, <2>8, Zenon
<1>5. e = [n \in 1..Cardinality(S) |-> e[n]] /\ f = [n \in 1..Cardinality(S) |-> f[n]]
  BY <1>3 DEF Eligible
<1>6. QED
  BY <1>4, <1>5

\* sort_by with its tie on the key: an automatic decision does not depend on
\* the order in which the profile lists its candidates.
THEOREM DecisionIgnoresTheOrder == Spec => []OrderIndependent
<1>1. ASSUME SelectInv
      PROVE  OrderIndependent
  <2>1. SUFFICES ASSUME Decided, profile.mode = "automatic", NEW s \in CandidateLists,
                        Elements(s) = Elements(profile.candidates)
                 PROVE  Selected([profile EXCEPT !.candidates = s], context).eligible
                          = decision.eligible
    BY Zenon DEF OrderIndependent
  <2> DEFINE q == [profile EXCEPT !.candidates = s]
             S == Kept(profile, context)
             T == Kept(q, context)
  <2>2. profile \in Profiles
    BY <1>1 DEF SelectInv
  <2>3. /\ q \in Profiles /\ q.mode = profile.mode /\ q.constraints = profile.constraints
        /\ q.candidates = s
    BY <2>2 DEF Profiles
  <2> HIDE DEF q
  <2>4. decision = Selected(profile, context)
    BY <1>1, <2>1 DEF SelectInv, Decided
  <2>5. S # {}
    BY <2>1, <2>4, DecisionIs DEF Decided
  <2>6. decision.eligible = Eligible(profile, S)
    BY <2>4, <2>5, DecisionIs, Zenon
  <2>7. T # {}
    <3>1. {profile.candidates[l] : l \in S} = {q.candidates[l] : l \in T}
      <4>1. KeptCandidates(profile, context) = KeptCandidates(q, context)
        BY <2>1, <2>2, <2>3, SameCandidates
      <4>2. {profile.candidates[l] : l \in S} = KeptCandidates(profile, context)
        BY <2>2, KeptByCandidate, Zenon
      <4>3. {q.candidates[l] : l \in T} = KeptCandidates(q, context)
        BY <2>3, KeptByCandidate, Zenon
      <4>4. QED
        BY <4>1, <4>2, <4>3, Zenon
    <3>2. QED
      BY <2>5, <3>1, Zenon
  <2>8. Selected(q, context).eligible = Eligible(q, T)
    BY <2>7, DecisionIs, Zenon
  <2>9. Eligible(profile, S) = Eligible(q, T)
    BY <2>1, <2>2, <2>3, SameEligible, Zenon
  <2>10. QED
    BY <2>6, <2>8, <2>9, Zenon DEF q
<1>2. QED
  BY <1>1, SelectInvAlways, PTL

-----------------------------------------------------------------------------
(***************************************************************************)
(* The restorer.  A marker can begin neither inside another one, so far as *)
(* it reaches behind the other's prefix, nor where another one begins.     *)
(***************************************************************************)

\* Of the symbols nothing is used but that they can be told apart.
Symbols == STRING

Text == Seq(Symbols)

SpanList == Seq([token : Text, source : Text, replacement : Text])

LEMMA ElementIsIn ==
  ASSUME NEW S, NEW s \in Seq(S), NEW k \in DOMAIN s
  PROVE  s[k] \in S /\ k \in 1..Len(s)
  OBVIOUS

LEMMA SpanType ==
  ASSUME NEW spans \in SpanList, NEW k \in DOMAIN spans
  PROVE  spans[k].token \in Text /\ spans[k].replacement \in Text
<1>1. spans[k] \in [token : Text, source : Text, replacement : Text]
  BY ElementIsIn DEF SpanList
<1>2. QED
  BY <1>1

LEMMA OccursSymbols ==
  ASSUME NEW S, NEW T, NEW part \in Seq(S), NEW text \in Seq(T), NEW i \in Nat, i > 0
  PROVE  OccursAt(part, text, i) <=>
           i + Len(part) - 1 <= Len(text) /\ \A n \in 1..Len(part) : text[i + n - 1] = part[n]
<1> DEFINE j == i + Len(part) - 1
<1>1. ASSUME j <= Len(text)
      PROVE  /\ SubSeq(text, i, j) \in Seq(T) /\ Len(SubSeq(text, i, j)) = Len(part)
             /\ \A n \in 1..Len(part) : SubSeq(text, i, j)[n] = text[i + n - 1]
  BY <1>1
<1>2. ASSUME NEW s \in Seq(T), Len(s) = Len(part)
      PROVE  s = part <=> \A n \in 1..Len(part) : s[n] = part[n]
  BY <1>2
<1>3. CASE j <= Len(text)
  <2>1. SubSeq(text, i, j) = part <=> \A n \in 1..Len(part) : SubSeq(text, i, j)[n] = part[n]
    BY <1>1, <1>2, <1>3
  <2>2. QED
    BY <1>1, <1>3, <2>1 DEF OccursAt
<1>4. CASE ~(j <= Len(text))
  BY <1>4 DEF OccursAt
<1>5. QED
  BY <1>3, <1>4

LEMMA TextOccurs ==
  ASSUME NEW part \in Text, NEW text \in Text, NEW i \in Nat, i > 0
  PROVE  OccursAt(part, text, i) <=>
           i + Len(part) - 1 <= Len(text) /\ \A n \in 1..Len(part) : text[i + n - 1] = part[n]
BY OccursSymbols DEF Text

LEMMA OccursFirst ==
  ASSUME NEW S, NEW T, NEW part \in Seq(S), NEW text \in Seq(T)
  PROVE  OccursAt(part, text, 1) <=>
           Len(part) <= Len(text) /\ \A n \in 1..Len(part) : text[n] = part[n]
<1>1. 1 \in Nat /\ 1 > 0
  OBVIOUS
<1>2. OccursAt(part, text, 1) <=>
        1 + Len(part) - 1 <= Len(text) /\ \A n \in 1..Len(part) : text[1 + n - 1] = part[n]
  BY <1>1, OccursSymbols
<1>3. QED
  BY <1>2

LEMMA TextBeginsWith ==
  ASSUME NEW part \in Text, NEW text \in Text
  PROVE  OccursAt(part, text, 1) <=>
           Len(part) <= Len(text) /\ \A n \in 1..Len(part) : text[n] = part[n]
<1>1. part \in Seq(Symbols) /\ text \in Seq(Symbols)
  BY DEF Text
<1>2. QED
  BY ONLY <1>1, OccursFirst

\* A token of the shape the markers have, for the underscore and the letter
\* that tell the prefix from what follows.
Shaped(t, u, p) ==
  /\ t \in Text /\ 5 <= Len(t)
  /\ t[1] = u /\ t[2] = u /\ t[3] = p /\ t[4] = u /\ t[5] # u
  /\ \A i \in 5..Len(t) : t[i] # p

LEMMA PrefixSymbols ==
  /\ PROTECTED_TOKEN_PREFIX \in Seq({"_", "P"}) /\ Len(PROTECTED_TOKEN_PREFIX) = 4
  /\ PROTECTED_TOKEN_PREFIX[1] = "_" /\ PROTECTED_TOKEN_PREFIX[2] = "_"
  /\ PROTECTED_TOKEN_PREFIX[3] = "P" /\ PROTECTED_TOKEN_PREFIX[4] = "_"
<1>1. ASSUME NEW u, NEW p
      PROVE  /\ <<u, u, p, u>> \in Seq({u, p}) /\ Len(<<u, u, p, u>>) = 4
             /\ <<u, u, p, u>>[1] = u /\ <<u, u, p, u>>[2] = u
             /\ <<u, u, p, u>>[3] = p /\ <<u, u, p, u>>[4] = u
  OBVIOUS
<1>2. QED
  BY <1>1 DEF PROTECTED_TOKEN_PREFIX

LEMMA FirstFour ==
  ASSUME NEW u, NEW p, NEW S, NEW prefix \in Seq(S), Len(prefix) = 4,
         prefix[1] = u, prefix[2] = u, prefix[3] = p, prefix[4] = u,
         NEW t \in Text, 4 < Len(t), t[5] # u, \A i \in 5..Len(t) : t[i] # p,
         OccursAt(prefix, t, 1)
  PROVE  Shaped(t, u, p)
<1>0. t \in Seq(Symbols) /\ prefix \in Seq(S)
  BY DEF Text
<1>1. \A n \in 1..4 : t[n] = prefix[n]
  <2>1. OccursAt(prefix, t, 1) <=>
          Len(prefix) <= Len(t) /\ \A n \in 1..Len(prefix) : t[n] = prefix[n]
    BY ONLY <1>0, OccursFirst
  <2>2. QED
    BY <2>1
<1>2. t[1] = prefix[1] /\ t[2] = prefix[2] /\ t[3] = prefix[3] /\ t[4] = prefix[4]
  BY <1>1
<1>3. Len(t) \in Nat
  BY DEF Text
<1>4. QED
  BY <1>2, <1>3 DEF Shaped

IsMarker(t) == Shaped(t, "_", "P")

\* Of the underscore and the letter no more is needed than that they differ.
LEMMA MarkerSymbols == \E x, y : x # y /\ \A t : IsMarker(t) <=> Shaped(t, x, y)
<1>1. "_" # "P"
  OBVIOUS
<1>2. QED
  BY <1>1, Zenon DEF IsMarker

LEMMA PrefixOfMarker ==
  ASSUME NEW t, IsMarker(t)
  PROVE  \A i \in 1..4 : t[i] = PROTECTED_TOKEN_PREFIX[i]
<1>1. ASSUME NEW a, NEW b, a[1] = b[1], a[2] = b[2], a[3] = b[3], a[4] = b[4]
      PROVE  \A i \in 1..4 : a[i] = b[i]
  <2>1. \A i \in 1..4 : i = 1 \/ i = 2 \/ i = 3 \/ i = 4
    BY ONLY TRUE
  <2>2. QED
    BY <1>1, <2>1, Zenon
<1>2. /\ t[1] = PROTECTED_TOKEN_PREFIX[1] /\ t[2] = PROTECTED_TOKEN_PREFIX[2]
      /\ t[3] = PROTECTED_TOKEN_PREFIX[3] /\ t[4] = PROTECTED_TOKEN_PREFIX[4]
  BY PrefixSymbols, Zenon DEF IsMarker, Shaped
<1>3. QED
  BY <1>1, <1>2, Zenon

\* The prefix is a text of some symbols.
LEMMA PrefixType == \E S : PROTECTED_TOKEN_PREFIX \in Seq(S) /\ Len(PROTECTED_TOKEN_PREFIX) = 4
BY PrefixSymbols, Zenon

LEMMA TokenShape ==
  ASSUME NEW spans \in SpanList, WellMarked(spans), NEW k \in DOMAIN spans
  PROVE  IsMarker(spans[k].token)
<1> DEFINE t == spans[k].token
           prefix == PROTECTED_TOKEN_PREFIX
<1>1. t \in Text
  BY SpanType
<1>2. /\ Len(prefix) < Len(t) /\ OccursAt(prefix, t, 1) /\ t[Len(prefix) + 1] # "_"
      /\ \A i \in (Len(prefix) + 1)..Len(t) : t[i] # "P"
  BY DEF WellMarked
<1>3. 4 + 1 = 5
  OBVIOUS
<1>4. 4 < Len(t) /\ t[5] # "_" /\ \A i \in 5..Len(t) : t[i] # "P"
  BY <1>2, <1>3, PrefixSymbols, Zenon
<1>5. QED
  BY <1>1, <1>2, <1>4, PrefixSymbols, FirstFour, Zenon DEF IsMarker

LEMMA NoShift ==
  ASSUME NEW x, NEW y, x # y, NEW t, Shaped(t, x, y), NEW u, Shaped(u, x, y),
         NEW d \in Nat, 0 < d, NEW m \in Nat,
         d + m <= Len(t), m <= Len(u), \A i \in 1..m : t[d + i] = u[i],
         d < 4 => 5 <= d + m, 4 <= d => 3 <= m
  PROVE  FALSE
<1> USE DEF Shaped
<1>0. Len(t) \in Nat /\ Len(u) \in Nat
  BY DEF Text
<1>1. CASE d = 1
  <2>1. t[d + 2] = u[2]
    BY <1>0, <1>1
  <2>2. QED
    BY <2>1, <1>1
<1>2. CASE d = 2
  <2>1. t[d + 1] = u[1]
    BY <1>0, <1>2
  <2>2. QED
    BY <2>1, <1>2
<1>3. CASE d = 3
  <2>1. t[d + 2] = u[2]
    BY <1>0, <1>3
  <2>2. QED
    BY <2>1, <1>3
<1>4. CASE 4 <= d
  <2>1. 3 \in 1..m /\ d + 3 \in 5..Len(t)
    BY ONLY <1>0, <1>4, d \in Nat, m \in Nat, d + m <= Len(t), 4 <= d => 3 <= m
  <2>2. t[d + 3] = u[3]
    BY <2>1, Zenon
  <2>3. u[3] = y /\ t[d + 3] # y
    BY <2>1
  <2>4. QED
    BY <2>2, <2>3
<1>5. QED
  BY <1>1, <1>2, <1>3, <1>4

\* Two markers at the same place are the same.
LEMMA OneMarkerAtAPlace ==
  ASSUME NEW spans \in SpanList, WellMarked(spans), NEW text \in Text, NEW i \in Nat, i > 0,
         NEW k \in MarkersAt(spans, text, i), NEW l \in MarkersAt(spans, text, i)
  PROVE  k = l
<1> DEFINE t == spans[k].token
           u == spans[l].token
<1> SUFFICES ASSUME k # l PROVE FALSE
  OBVIOUS
<1>1. k \in DOMAIN spans /\ l \in DOMAIN spans /\ OccursAt(t, text, i) /\ OccursAt(u, text, i)
  BY DEF MarkersAt
<1>2. t \in Text /\ u \in Text
  BY <1>1, SpanType
<1>3. ~OccursAt(t, u, 1) /\ ~OccursAt(u, t, 1)
  BY <1>1 DEF WellMarked
<1>4. /\ \A n \in 1..Len(t) : text[i + n - 1] = t[n]
      /\ \A n \in 1..Len(u) : text[i + n - 1] = u[n]
  BY ONLY <1>1, <1>2, text \in Text, i \in Nat, i > 0, TextOccurs
<1>5. Len(t) \in Nat /\ Len(u) \in Nat
  BY <1>2 DEF Text
<1>6. CASE Len(t) <= Len(u)
  <2>1. \A n \in 1..Len(t) : u[n] = t[n]
    BY ONLY <1>4, <1>5, <1>6
  <2>2. OccursAt(t, u, 1) <=> Len(t) <= Len(u) /\ \A n \in 1..Len(t) : u[n] = t[n]
    BY <1>2, TextBeginsWith
  <2>3. QED
    BY <1>3, <1>5, <1>6, <2>1, <2>2
<1>7. CASE Len(u) <= Len(t)
  <2>1. \A n \in 1..Len(u) : t[n] = u[n]
    BY ONLY <1>4, <1>5, <1>7
  <2>2. OccursAt(u, t, 1) <=> Len(u) <= Len(t) /\ \A n \in 1..Len(u) : t[n] = u[n]
    BY <1>2, TextBeginsWith
  <2>3. QED
    BY <1>3, <1>5, <1>7, <2>1, <2>2
<1>8. QED
  BY <1>5, <1>6, <1>7

-----------------------------------------------------------------------------
(***************************************************************************)
(* Where a marker can still begin.  Of a text that is to grow, no marker   *)
(* begins at a barred place now or later.                                  *)
(***************************************************************************)

LEMMA BarredIsFree ==
  ASSUME NEW spans \in SpanList, NEW text \in Text, NEW i \in Nat, i > 0, Barred(spans, text, i)
  PROVE  MarkersAt(spans, text, i) = {}
<1> SUFFICES ASSUME NEW k \in DOMAIN spans, OccursAt(spans[k].token, text, i) PROVE FALSE
  BY DEF MarkersAt
<1>1. spans[k].token \in Text
  BY SpanType
<1>2. OccursAt(spans[k].token, text, i) <=>
        /\ i + Len(spans[k].token) - 1 <= Len(text)
        /\ \A n \in 1..Len(spans[k].token) : text[i + n - 1] = spans[k].token[n]
  BY ONLY <1>1, text \in Text, i \in Nat, i > 0, OccursSymbols DEF Text
<1>3. QED
  BY <1>2 DEF Barred

\* A place that is not barred has the beginning of a marker.
LEMMA NotBarred ==
  ASSUME NEW spans \in SpanList, NEW text \in Text, NEW i \in 1..Len(text),
         MarkersAt(spans, text, i) = {}, ~Barred(spans, text, i)
  PROVE  \E k \in DOMAIN spans :
           /\ Len(text) - i + 1 < Len(spans[k].token)
           /\ \A n \in 1..(Len(text) - i + 1) : text[i + n - 1] = spans[k].token[n]
<1>1. PICK k \in DOMAIN spans :
        \A n \in 1..Len(spans[k].token) : i + n - 1 <= Len(text) => text[i + n - 1] = spans[k].token[n]
  BY DEF Barred
<1> DEFINE t == spans[k].token
<1>2. t \in Text /\ ~OccursAt(t, text, i) /\ i \in Nat /\ i > 0
  BY SpanType DEF MarkersAt, Text
<1>3. OccursAt(t, text, i) <=>
        i + Len(t) - 1 <= Len(text) /\ \A n \in 1..Len(t) : text[i + n - 1] = t[n]
  BY ONLY <1>2, text \in Text, OccursSymbols DEF Text
<1>4. Len(t) \in Nat /\ Len(text) \in Nat
  BY <1>2 DEF Text
<1>5. Len(text) - i + 1 < Len(t)
  BY <1>1, <1>2, <1>3, <1>4
<1>6. ASSUME NEW n \in 1..(Len(text) - i + 1) PROVE text[i + n - 1] = t[n]
  <2>1. n \in 1..Len(t) /\ i + n - 1 <= Len(text)
    BY ONLY i \in 1..Len(text), <1>4, <1>5
  <2>2. QED
    BY <1>1, <2>1, Zenon
<1>7. QED
  BY <1>5, <1>6

\* No marker begins before the first one and is still incomplete behind it.
LEMMA BarredBefore ==
  ASSUME NEW spans \in SpanList, WellMarked(spans), NEW text \in Text,
         NEW i \in 1..Len(text), NEW k \in DOMAIN spans, OccursAt(spans[k].token, text, i),
         NEW j \in 1..(i - 1), MarkersAt(spans, text, j) = {}
  PROVE  Barred(spans, text, j)
<1> SUFFICES ASSUME ~Barred(spans, text, j) PROVE FALSE
  OBVIOUS
<1>0. Len(text) \in Nat /\ i \in Nat /\ i > 0 /\ j \in 1..Len(text) /\ j < i
  BY DEF Text
<1>1. PICK l \in DOMAIN spans :
        /\ Len(text) - j + 1 < Len(spans[l].token)
        /\ \A n \in 1..(Len(text) - j + 1) : text[j + n - 1] = spans[l].token[n]
  BY <1>0, NotBarred
<1> DEFINE t == spans[l].token
           u == spans[k].token
           d == i - j
<1>2. PICK x, y : x # y /\ Shaped(t, x, y) /\ Shaped(u, x, y)
  BY TokenShape, MarkerSymbols
<1>3. t \in Text /\ u \in Text /\ 5 <= Len(u)
  BY <1>2 DEF Shaped
<1>4. Len(t) \in Nat /\ Len(u) \in Nat
  BY <1>3 DEF Text
<1>5. OccursAt(u, text, i) <=>
        i + Len(u) - 1 <= Len(text) /\ \A n \in 1..Len(u) : text[i + n - 1] = u[n]
  BY ONLY <1>0, <1>3, text \in Text, OccursSymbols DEF Text
<1>6. \A n \in 1..Len(u) : t[d + n] = u[n]
  <2> SUFFICES ASSUME NEW n \in 1..Len(u) PROVE t[d + n] = u[n]
    OBVIOUS
  <2>1. d + n \in 1..(Len(text) - j + 1) /\ j + (d + n) - 1 = i + n - 1
    BY <1>0, <1>4, <1>5
  <2>2. text[j + (d + n) - 1] = t[d + n]
    BY <1>1, <2>1
  <2>3. text[i + n - 1] = u[n]
    BY <1>5
  <2>4. QED
    BY <2>1, <2>2, <2>3
<1>7. d \in Nat /\ 0 < d /\ d + Len(u) <= Len(t) /\ Len(u) <= Len(u)
  BY <1>0, <1>1, <1>4, <1>5
<1>8. (d < 4 => 5 <= d + Len(u)) /\ (4 <= d => 3 <= Len(u))
  BY <1>3, <1>4, <1>7
<1>9. QED
  BY ONLY <1>2, <1>4, <1>6, <1>7, <1>8, NoShift

-----------------------------------------------------------------------------
(* What is held back is enough.                                            *)

LEMMA LargestNumber ==
  ASSUME NEW T \in SUBSET Nat, T # {}, NEW b \in Nat, \A n \in T : n <= b
  PROVE  \E n \in T : \A m \in T : m <= n
<1> DEFINE D == {b - n : n \in T}
<1>0. \A n \in T : b - n \in Nat
  OBVIOUS
<1>1. D \in SUBSET Nat /\ D # {}
  BY <1>0
<1>2. PICK x \in D : \A y \in D : ~(y < x)
  BY <1>1, LeastNatural
<1>3. PICK n \in T : x = b - n
  BY <1>2
<1>4. \A m \in T : m <= n
  BY <1>2, <1>3
<1>5. QED
  BY <1>4

LEMMA SliceSymbols ==
  ASSUME NEW s \in Text, NEW t \in Text, NEW a \in Nat, NEW n \in Nat,
         a + n <= Len(s), n <= Len(t)
  PROVE  SubSeq(s, a + 1, a + n) = SubSeq(t, 1, n) <=> \A i \in 1..n : s[a + i] = t[i]
<1>0. Len(s) \in Nat
  BY DEF Text
<1>1. /\ SubSeq(s, a + 1, a + n) \in Text /\ Len(SubSeq(s, a + 1, a + n)) = n
      /\ \A i \in 1..n : SubSeq(s, a + 1, a + n)[i] = s[a + i]
  <2>1. a + n + 1 - (a + 1) = n /\ \A i \in 1..n : a + 1 + i - 1 = a + i
    OBVIOUS
  <2>2. SubSeq(s, a + 1, a + n) \in Text
    BY <1>0 DEF Text
  <2>3. Len(SubSeq(s, a + 1, a + n)) = n
    BY <1>0, <2>1 DEF Text
  <2>4. \A i \in 1..n : SubSeq(s, a + 1, a + n)[i] = s[a + i]
    BY <1>0, <2>1 DEF Text
  <2>5. QED
    BY <2>2, <2>3, <2>4
<1>2. /\ SubSeq(t, 1, n) \in Text /\ Len(SubSeq(t, 1, n)) = n
      /\ \A i \in 1..n : SubSeq(t, 1, n)[i] = t[i]
  BY DEF Text
<1>3. ASSUME NEW x \in Text, NEW y \in Text, Len(x) = n, Len(y) = n
      PROVE  x = y <=> \A i \in 1..n : x[i] = y[i]
  BY <1>3 DEF Text
<1>4. SubSeq(s, a + 1, a + n) = SubSeq(t, 1, n) <=>
        \A i \in 1..n : SubSeq(s, a + 1, a + n)[i] = SubSeq(t, 1, n)[i]
  BY <1>1, <1>2, <1>3
<1>5. QED
  BY <1>1, <1>2, <1>4

LEMMA OverlapSymbols ==
  ASSUME protected.spans \in SpanList, pending \in Text, NEW k \in Spans, NEW n \in Nat
  PROVE  n \in Overlaps(k) <=>
           /\ 1 <= n /\ n <= Len(Marker(k)) /\ n <= Len(pending)
           /\ \A i \in 1..n : pending[Len(pending) - n + i] = Marker(k)[i]
<1> DEFINE t == Marker(k)
           a == Len(pending) - n
<1>1. t \in Text
  BY SpanType DEF Marker, Spans
<1>2. Len(t) \in Nat /\ Len(pending) \in Nat
  BY <1>1 DEF Text
<1>3. ASSUME n <= Len(t), n <= Len(pending)
      PROVE  SubSeq(pending, Len(pending) - n + 1, Len(pending)) = SubSeq(t, 1, n) <=>
               \A i \in 1..n : pending[a + i] = t[i]
  <2>1. a \in Nat /\ a + n = Len(pending) /\ a + n <= Len(pending)
    BY <1>2, <1>3
  <2>2. SubSeq(pending, a + 1, a + n) = SubSeq(t, 1, n) <=> \A i \in 1..n : pending[a + i] = t[i]
    BY <1>1, <1>3, <2>1, SliceSymbols
  <2>3. QED
    BY <2>1, <2>2
<1>4. n \in Overlaps(k) <=>
        /\ n \in 1..Len(t) /\ n <= Len(pending)
        /\ SubSeq(pending, Len(pending) - n + 1, Len(pending)) = SubSeq(t, 1, n)
  BY DEF Overlaps
<1>5. n \in 1..Len(t) <=> 1 <= n /\ n <= Len(t)
  BY <1>2
<1>6. QED
  BY <1>3, <1>4, <1>5

LEMMA MarkerShape ==
  ASSUME protected.spans \in SpanList, WellMarked(protected.spans), NEW k \in Spans
  PROVE  IsMarker(Marker(k)) /\ Marker(k) \in Text /\ Len(Marker(k)) \in Nat
<1>1. k \in DOMAIN protected.spans /\ Marker(k) = protected.spans[k].token
  BY DEF Marker, Spans
<1>2. IsMarker(Marker(k))
  BY <1>1, TokenShape
<1>3. Marker(k) \in Text
  BY <1>2, Zenon DEF IsMarker, Shaped
<1>4. Len(Marker(k)) \in Nat
  BY <1>3 DEF Text
<1>5. QED
  BY <1>2, <1>3, <1>4

\* longest_marker_prefix_suffix is the longest overlap of one span, or nothing
\* overlaps.
LEMMA HeldIs ==
  ASSUME protected.spans \in SpanList, pending \in Text
  PROVE  \/ /\ longest_marker_prefix_suffix = 0
            /\ \A k \in Spans : Overlaps(k) = {}
         \/ \E k \in Spans :
              /\ longest_marker_prefix_suffix \in Overlaps(k)
              /\ \A m \in Overlaps(k) : m <= longest_marker_prefix_suffix
<1>1. CASE \A k \in Spans : Overlaps(k) = {}
  BY <1>1 DEF longest_marker_prefix_suffix
<1>2. CASE \E k \in Spans : Overlaps(k) # {}
  <2> DEFINE First(k) == Overlaps(k) # {} /\ \A l \in 1..(k - 1) : Overlaps(l) = {}
             first == CHOOSE k \in Spans : First(k)
             h == CHOOSE n \in Overlaps(first) : \A m \in Overlaps(first) : m <= n
  <2>1. Spans \subseteq Nat /\ \A k \in Spans : \A l \in 1..(k - 1) : l \in Spans
    BY DEF Spans, SpanList
  <2>2. \E k \in Spans : First(k)
    <3> DEFINE T == {k \in Spans : Overlaps(k) # {}}
    <3>1. PICK k \in T : \A y \in T : ~(y < k)
      BY <1>2, <2>1, LeastNatural
    <3>2. \A l \in 1..(k - 1) : Overlaps(l) = {}
      BY <2>1, <3>1
    <3>3. QED
      BY <3>1, <3>2
  <2>3. first \in Spans /\ First(first)
    BY <2>2
  <2>4. Overlaps(first) \in SUBSET Nat /\ \A n \in Overlaps(first) : n <= Len(pending)
    BY DEF Overlaps
  <2>5. Len(pending) \in Nat
    BY DEF Text
  <2>6. \E n \in Overlaps(first) : \A m \in Overlaps(first) : m <= n
    BY <2>3, <2>4, <2>5, LargestNumber
  <2>7. h \in Overlaps(first) /\ \A m \in Overlaps(first) : m <= h
    BY <2>6
  <2>8. longest_marker_prefix_suffix = h
    BY <1>2 DEF longest_marker_prefix_suffix
  <2>9. QED
    BY <2>3, <2>7, <2>8
<1>3. QED
  BY <1>1, <1>2

LEMMA HeldType ==
  ASSUME protected.spans \in SpanList, pending \in Text
  PROVE  /\ longest_marker_prefix_suffix \in 0..Len(pending)
         /\ Len(pending) \in Nat
<1>1. Len(pending) \in Nat
  BY DEF Text
<1>2. ASSUME NEW k \in Spans, NEW n \in Overlaps(k) PROVE n \in 0..Len(pending)
  BY <1>1 DEF Overlaps
<1>3. QED
  BY <1>1, <1>2, HeldIs

\* Behind its first a symbols the text has the first m symbols of t.
Begins(text, a, t, m) == \A i \in 1..m : text[a + i] = t[i]

\* Of two markers that a text ends with the beginnings of, the longer beginning
\* is one of the other marker too, or its prefix ends before the shorter begins.
LEMMA TwoBeginnings ==
  ASSUME NEW x, NEW y, x # y, NEW t, Shaped(t, x, y), NEW u, Shaped(u, x, y),
         NEW h \in Nat, NEW d \in Nat, NEW n \in Nat, n = d + h, 0 < d,
         NEW text, NEW a \in Nat, n < Len(t), h <= Len(u), Begins(text, a, t, n),
         NEW b \in Nat, b = a + d, Begins(text, b, u, h)
  PROVE  (n <= 4 /\ n <= Len(u) /\ Begins(text, a, u, n)) \/ 4 <= d
<1> USE DEF Begins
<1>0. Len(t) \in Nat /\ Len(u) \in Nat /\ 5 <= Len(u)
  BY DEF Shaped, Text
<1>1. CASE n <= 4
  <2>1. /\ t[1] = u[1] /\ t[2] = u[2] /\ t[3] = u[3] /\ t[4] = u[4]
    BY Zenon DEF Shaped
  <2>2. \A i \in 1..4 : i = 1 \/ i = 2 \/ i = 3 \/ i = 4
    OBVIOUS
  <2>3. \A i \in 1..4 : t[i] = u[i]
    BY <2>1, <2>2, Zenon
  <2>4. \A i \in 1..n : i \in 1..4 /\ text[a + i] = t[i]
    BY <1>1
  <2>5. Begins(text, a, u, n)
    BY <2>3, <2>4, Zenon
  <2>6. n <= Len(u)
    BY <1>0, <1>1
  <2>7. QED
    BY <1>1, <2>5, <2>6, Zenon
<1>2. CASE 5 <= n /\ d < 4
  <2>1. \A i \in 1..h : t[d + i] = u[i]
    <3> SUFFICES ASSUME NEW i \in 1..h PROVE t[d + i] = u[i]
      OBVIOUS
    <3>1. d + i \in 1..n /\ a + (d + i) = a + d + i
      OBVIOUS
    <3>2. QED
      BY <3>1
  <2>2. d + h <= Len(t) /\ (d < 4 => 5 <= d + h) /\ (4 <= d => 3 <= h)
    BY <1>0, <1>2
  <2>3. FALSE
    BY ONLY x # y, Shaped(t, x, y), Shaped(u, x, y), d \in Nat, 0 < d, h \in Nat, h <= Len(u),
            <2>1, <2>2, NoShift
  <2>4. QED
    BY <2>3
<1>3. QED
  BY <1>1, <1>2

LEMMA PrefixOccurs ==
  ASSUME NEW t, IsMarker(t), NEW plain \in Text, NEW j \in Nat, 0 < j, j + 3 <= Len(plain),
         \A i \in 1..4 : plain[j + i - 1] = t[i]
  PROVE  Occurs(PROTECTED_TOKEN_PREFIX, plain)
<1> DEFINE prefix == PROTECTED_TOKEN_PREFIX
<1>1. \A i \in 1..4 : t[i] = prefix[i]
  BY PrefixOfMarker, Zenon
<1>2. PICK S : prefix \in Seq(S) /\ plain \in Seq(Symbols) /\ Len(prefix) = 4
  BY PrefixType DEF Text
<1> HIDE DEF prefix
<1>3. OccursAt(prefix, plain, j) <=>
        j + Len(prefix) - 1 <= Len(plain) /\ \A i \in 1..Len(prefix) : plain[j + i - 1] = prefix[i]
  <2>1. prefix \in Seq(S) /\ plain \in Seq(Symbols) /\ j \in Nat /\ j > 0
    BY <1>2
  <2>2. QED
    BY ONLY <2>1, OccursSymbols
<1>4. Len(plain) \in Nat
  BY <1>2
<1>5. OccursAt(prefix, plain, j)
  <2>1. j + Len(prefix) - 1 <= Len(plain)
    BY <1>2, <1>4
  <2>2. \A i \in 1..Len(prefix) : plain[j + i - 1] = prefix[i]
    BY <1>1, <1>2
  <2>3. QED
    BY <1>3, <2>1, <2>2
<1>6. j \in 1..Len(plain)
  BY <1>4
<1>7. QED
  BY <1>5, <1>6 DEF Occurs, prefix

\* Where text was emitted no marker can begin any more, now that it is known
\* to hold no prefix.
LEMMA BarredByHolding ==
  ASSUME protected.spans \in SpanList, WellMarked(protected.spans), pending \in Text,
         NEW j \in 1..(Len(pending) - longest_marker_prefix_suffix),
         MarkersAt(protected.spans, pending, j) = {},
         ~Occurs(PROTECTED_TOKEN_PREFIX, SubSeq(pending, 1, Len(pending) - longest_marker_prefix_suffix))
  PROVE  Barred(protected.spans, pending, j)
<1> SUFFICES ASSUME ~Barred(protected.spans, pending, j) PROVE FALSE
  OBVIOUS
<1>0. PICK h \in Nat, size \in Nat : h = longest_marker_prefix_suffix /\ size = Len(pending) /\ h <= size
  BY HeldType
<1>1. j \in 1..(size - h) /\ j \in 1..size /\ j \in Nat /\ 0 < j /\ j <= size - h
  BY <1>0
<1>2. PICK l \in Spans :
        /\ Len(pending) - j + 1 < Len(Marker(l))
        /\ \A i \in 1..(Len(pending) - j + 1) : pending[j + i - 1] = Marker(l)[i]
  BY <1>0, <1>1, NotBarred DEF Marker, Spans
<1>3. PICK n \in Nat, a \in Nat : n = size - j + 1 /\ a = j - 1
  BY <1>1
<1>4. size = a + n /\ h < n /\ 1 <= n /\ n <= size /\ size - n = a
  BY <1>0, <1>1, <1>3
<1>5. \A i \in 1..n : j + i - 1 = a + i
  BY <1>1, <1>3
<1>6. n < Len(Marker(l)) /\ \A i \in 1..n : pending[a + i] = Marker(l)[i]
  <2>1. n = Len(pending) - j + 1
    BY <1>0, <1>3
  <2>2. n < Len(Marker(l)) /\ \A i \in 1..n : pending[j + i - 1] = Marker(l)[i]
    BY <1>2, <2>1
  <2>3. QED
    BY <1>5, <2>2
<1>7. IsMarker(Marker(l)) /\ Marker(l) \in Text /\ Len(Marker(l)) \in Nat
  BY MarkerShape
<1>8. ASSUME NEW k \in Spans
      PROVE  n \in Overlaps(k) <=> 1 <= n /\ n <= Len(Marker(k)) /\ n <= Len(pending)
                                   /\ \A i \in 1..n : pending[a + i] = Marker(k)[i]
  <2>1. n \in Overlaps(k) <=> 1 <= n /\ n <= Len(Marker(k)) /\ n <= Len(pending)
                              /\ \A i \in 1..n : pending[Len(pending) - n + i] = Marker(k)[i]
    BY ONLY protected.spans \in SpanList, pending \in Text, k \in Spans, n \in Nat, OverlapSymbols
  <2>2. Len(pending) - n = a
    BY <1>0, <1>4
  <2>3. QED
    BY <2>1, <2>2, Zenon
<1>9. n \in Overlaps(l)
  BY <1>0, <1>4, <1>6, <1>7, <1>8
<1>10. PICK f \in Spans : h \in Overlaps(f) /\ \A m \in Overlaps(f) : m <= h
  BY <1>0, <1>9, HeldIs
<1>11. IsMarker(Marker(f)) /\ Marker(f) \in Text /\ Len(Marker(f)) \in Nat
  BY MarkerShape
<1>12. PICK d \in Nat : n = d + h /\ 0 < d
  <2>1. n - h \in Nat /\ n = (n - h) + h /\ 0 < n - h
    BY <1>4
  <2>2. QED
    BY <2>1
<1>13. h <= Len(Marker(f)) /\ \A i \in 1..h : pending[a + d + i] = Marker(f)[i]
  <2>1. h <= Len(Marker(f)) /\ \A i \in 1..h : pending[size - h + i] = Marker(f)[i]
    BY <1>0, <1>10, OverlapSymbols
  <2>2. size - h = a + d
    BY <1>4, <1>12
  <2>3. QED
    BY <2>1, <2>2
<1>14. PICK x, y : x # y /\ Shaped(Marker(l), x, y) /\ Shaped(Marker(f), x, y)
  BY <1>7, <1>11, MarkerSymbols
<1>15. (n <= 4 /\ n <= Len(Marker(f)) /\ Begins(pending, a, Marker(f), n)) \/ 4 <= d
  <2>1. n < Len(Marker(l)) /\ Begins(pending, a, Marker(l), n)
    BY <1>6 DEF Begins
  <2>2. PICK b \in Nat : b = a + d
    OBVIOUS
  <2>3. h <= Len(Marker(f)) /\ Begins(pending, b, Marker(f), h)
    BY <1>13, <2>2 DEF Begins
  <2>4. QED
    BY ONLY <1>12, <1>14, <2>1, <2>2, <2>3, h \in Nat, n \in Nat, a \in Nat, TwoBeginnings
<1>16. CASE n <= 4 /\ n <= Len(Marker(f)) /\ Begins(pending, a, Marker(f), n)
  <2>1. n \in Overlaps(f)
    BY <1>0, <1>4, <1>8, <1>16 DEF Begins
  <2>2. QED
    BY <1>4, <1>10, <2>1
<1>17. CASE 4 <= d
  <2> DEFINE plain == SubSeq(pending, 1, size - h)
  <2>1. PICK w \in Nat : w = size - h /\ w <= size
    BY <1>0
  <2>2. plain \in Text /\ Len(plain) = w /\ \A i \in 1..w : plain[i] = pending[i]
    BY <1>0, <2>1 DEF Text
  <2>3. j + 3 <= w
    BY <1>3, <1>12, <1>17, <2>1
  <2>4. \A i \in 1..4 : i \in 1..n /\ j + i - 1 \in 1..w
    BY <1>4, <1>12, <1>17, <1>1, <2>3
  <2>5. \A i \in 1..4 : plain[j + i - 1] = Marker(l)[i]
    BY <1>5, <1>6, <2>2, <2>4
  <2> HIDE DEF plain
  <2>6. Occurs(PROTECTED_TOKEN_PREFIX, plain)
    BY ONLY <1>1, <1>7, <2>2, <2>3, <2>5, PrefixOccurs
  <2>7. QED
    BY <1>0, <2>6 DEF plain
<1>18. QED
  BY <1>15, <1>16, <1>17

-----------------------------------------------------------------------------
(***************************************************************************)
(* Reading at once.  The function by which Scan is defined exists and has  *)
(* the results it should have.                                             *)
(***************************************************************************)

Results(spans) == [text : Text, spans : SUBSET DOMAIN spans, once : BOOLEAN]

IsScan(spans, text, scan) ==
  \A a \in 0..Len(text) : scan[a] = ScanFrom(spans, text, scan, a)

\* What holds of a number as soon as it holds of all the larger ones up to a
\* bound holds up to the bound.
LEMMA Downwards ==
  ASSUME NEW n \in Nat, NEW T,
         \A a \in 0..n : (\A b \in (a + 1)..n : b \in T) => a \in T
  PROVE  \A a \in 0..n : a \in T
<1> DEFINE U == {a \in 0..n : a \notin T}
<1> SUFFICES ASSUME U # {} PROVE FALSE
  OBVIOUS
<1>1. U \in SUBSET Nat /\ \A a \in U : a <= n
  OBVIOUS
<1>2. PICK a \in U : \A b \in U : b <= a
  BY <1>1, LargestNumber
<1>3. \A b \in (a + 1)..n : b \in T
  BY <1>2
<1>4. QED
  BY <1>3

\* A place with a marker has room for it, and its marker is not empty.
LEMMA MarkerFits ==
  ASSUME NEW spans \in SpanList, WellMarked(spans), NEW text \in Text,
         NEW a \in 0..Len(text), NEW k \in MarkersAt(spans, text, a + 1)
  PROVE  /\ k \in DOMAIN spans
         /\ a < Len(text)
         /\ a + Len(spans[k].token) \in (a + 1)..Len(text)
<1>1. k \in DOMAIN spans /\ OccursAt(spans[k].token, text, a + 1)
  BY DEF MarkersAt
<1>2. PICK x, y : Shaped(spans[k].token, x, y)
  BY <1>1, TokenShape, MarkerSymbols
<1>3. Len(spans[k].token) \in Nat /\ 5 <= Len(spans[k].token) /\ Len(text) \in Nat
  BY <1>2 DEF Shaped, Text
<1>4. a + 1 + Len(spans[k].token) - 1 <= Len(text)
  BY <1>1 DEF OccursAt
<1>5. ASSUME NEW c \in Nat, NEW n \in Nat, 5 <= c, a + 1 + c - 1 <= n
      PROVE  a < n /\ a + c \in (a + 1)..n
  <2>1. a \in Nat
    BY <1>3
  <2>2. QED
    BY <1>5, <2>1
<1>6. QED
  BY <1>1, <1>3, <1>4, <1>5

\* A step of the reader looks only ahead.
LEMMA ScanLooksAhead ==
  ASSUME NEW spans \in SpanList, WellMarked(spans), NEW text \in Text, NEW f, NEW g,
         NEW a \in 0..Len(text), \A b \in (a + 1)..Len(text) : f[b] = g[b]
  PROVE  ScanFrom(spans, text, f, a) = ScanFrom(spans, text, g, a)
<1>0. Len(text) \in Nat
  BY DEF Text
<1>1. CASE a = Len(text)
  BY <1>1 DEF ScanFrom
<1>2. CASE a # Len(text) /\ MarkersAt(spans, text, a + 1) = {}
  <2>1. f[a + 1] = g[a + 1]
    BY <1>0, <1>2
  <2>2. QED
    BY <1>2, <2>1 DEF ScanFrom
<1>3. CASE a # Len(text) /\ MarkersAt(spans, text, a + 1) # {}
  <2> DEFINE k == CHOOSE k \in MarkersAt(spans, text, a + 1) : TRUE
  <2>1. k \in MarkersAt(spans, text, a + 1)
    BY <1>3
  <2>2. f[a + Len(spans[k].token)] = g[a + Len(spans[k].token)]
    BY <2>1, MarkerFits
  <2>3. QED
    BY <1>3, <2>2 DEF ScanFrom
<1>4. QED
  BY <1>1, <1>2, <1>3

LEMMA ScanStep ==
  ASSUME NEW spans \in SpanList, WellMarked(spans), NEW text \in Text, NEW f,
         NEW a \in 0..Len(text), \A b \in (a + 1)..Len(text) : f[b] \in Results(spans)
  PROVE  ScanFrom(spans, text, f, a) \in Results(spans)
<1>0. Len(text) \in Nat
  BY DEF Text
<1>1. CASE a = Len(text)
  <2>1. <<>> \in Text
    BY DEF Text
  <2>2. QED
    BY <1>1, <2>1 DEF ScanFrom, Results
<1>2. CASE a # Len(text) /\ MarkersAt(spans, text, a + 1) = {}
  <2>1. f[a + 1] \in Results(spans)
    BY <1>0, <1>2
  <2>2. <<text[a + 1]>> \in Text
    BY <1>0, <1>2 DEF Text
  <2>3. <<text[a + 1]>> \o f[a + 1].text \in Text
    BY <2>1, <2>2 DEF Text, Results
  <2>4. QED
    BY <1>2, <2>1, <2>3 DEF ScanFrom, Results
<1>3. CASE a # Len(text) /\ MarkersAt(spans, text, a + 1) # {}
  <2> DEFINE k == CHOOSE k \in MarkersAt(spans, text, a + 1) : TRUE
             tail == f[a + Len(spans[k].token)]
  <2>1. k \in MarkersAt(spans, text, a + 1)
    BY <1>3
  <2>2. k \in DOMAIN spans /\ tail \in Results(spans)
    BY <2>1, MarkerFits
  <2>3. spans[k].replacement \in Text
    BY <2>2, SpanType
  <2>4. spans[k].replacement \o tail.text \in Text
    BY <2>2, <2>3 DEF Text, Results
  <2>5. tail.spans \cup {k} \in SUBSET DOMAIN spans /\ (tail.once /\ k \notin tail.spans) \in BOOLEAN
    BY <2>2 DEF Results
  <2>6. ScanFrom(spans, text, f, a) =
          [text |-> spans[k].replacement \o tail.text, spans |-> tail.spans \cup {k},
           once |-> tail.once /\ k \notin tail.spans]
    BY <1>3 DEF ScanFrom
  <2>7. ASSUME NEW x \in Text, NEW y \in SUBSET DOMAIN spans, NEW b \in BOOLEAN
        PROVE  [text |-> x, spans |-> y, once |-> b] \in Results(spans)
    BY ONLY <2>7 DEF Results
  <2>8. QED
    BY <2>4, <2>5, <2>6, <2>7, Zenon
<1>4. QED
  BY <1>1, <1>2, <1>3

LEMMA ScanType ==
  ASSUME NEW spans \in SpanList, WellMarked(spans), NEW text \in Text, NEW scan,
         IsScan(spans, text, scan)
  PROVE  \A a \in 0..Len(text) : scan[a] \in Results(spans)
<1> DEFINE T == {a \in 0..Len(text) : scan[a] \in Results(spans)}
<1>0. Len(text) \in Nat
  BY DEF Text
<1>1. ASSUME NEW a \in 0..Len(text), \A b \in (a + 1)..Len(text) : b \in T
      PROVE  a \in T
  BY <1>1, ScanStep DEF IsScan
<1> HIDE DEF T
<1>2. \A a \in 0..Len(text) : a \in T
  BY <1>0, <1>1, Downwards
<1>3. QED
  BY <1>2 DEF T

LEMMA ScanExists ==
  ASSUME NEW spans \in SpanList, WellMarked(spans), NEW text \in Text
  PROVE  \E scan : scan = [a \in 0..Len(text) |-> ScanFrom(spans, text, scan, a)]
<1> DEFINE n == Len(text)
           Good(f, a) == \A b \in a..n : f[b] = ScanFrom(spans, text, f, b)
           T == {a \in 0..n : \E f : Good(f, a)}
<1>0. n \in Nat
  BY DEF Text
<1>1. ASSUME NEW a \in 0..n, \A b \in (a + 1)..n : b \in T PROVE a \in T
  <2>1. \E f : Good(f, a + 1)
    <3>1. CASE a = n
      <4>1. (a + 1)..n = {}
        BY <1>0, <3>1
      <4>2. QED
        BY <4>1
    <3>2. CASE a # n
      <4>1. a + 1 \in (a + 1)..n
        BY <1>0, <3>2
      <4>2. QED
        BY <1>1, <4>1
    <3>3. QED
      BY <3>1, <3>2
  <2>2. PICK f : Good(f, a + 1)
    BY <2>1
  <2> DEFINE g == [b \in a..n |-> IF b = a THEN ScanFrom(spans, text, f, a) ELSE f[b]]
  <2>3. \A b \in (a + 1)..n : g[b] = f[b] /\ b \in 0..n
    BY <1>0
  <2>4. g[a] = ScanFrom(spans, text, f, a)
    BY <1>0
  <2>5. ASSUME NEW b \in a..n PROVE g[b] = ScanFrom(spans, text, g, b)
    <3> HIDE DEF g
    <3>1. b \in 0..n /\ \A c \in (b + 1)..n : c \in (a + 1)..n
      BY <1>0
    <3>2. \A c \in (b + 1)..n : g[c] = f[c]
      BY <2>3, <3>1
    <3>3. ScanFrom(spans, text, g, b) = ScanFrom(spans, text, f, b)
      BY <3>1, <3>2, ScanLooksAhead
    <3>4. b = a \/ b \in (a + 1)..n
      BY <1>0
    <3>5. QED
      BY <2>2, <2>3, <2>4, <3>3, <3>4
  <2> HIDE DEF g
  <2>6. Good(g, a)
    BY <2>5
  <2>7. QED
    BY <2>6
<1> HIDE DEF T
<1>2. \A a \in 0..n : a \in T
  BY <1>0, <1>1, Downwards
<1>3. PICK f : Good(f, 0)
  BY <1>0, <1>2 DEF T
<1> DEFINE scan == [a \in 0..n |-> f[a]]
<1>4. ASSUME NEW a \in 0..n PROVE f[a] = ScanFrom(spans, text, scan, a)
  <2>1. \A b \in (a + 1)..n : scan[b] = f[b]
    BY <1>0
  <2> HIDE DEF scan
  <2>2. ScanFrom(spans, text, scan, a) = ScanFrom(spans, text, f, a)
    BY <2>1, ScanLooksAhead
  <2>3. QED
    BY <1>3, <2>2
<1>5. scan = [a \in 0..n |-> ScanFrom(spans, text, scan, a)]
  <2>1. \A a \in 0..n : f[a] = ScanFrom(spans, text, scan, a)
    BY <1>4
  <2>2. scan = [a \in 0..n |-> f[a]]
    OBVIOUS
  <2> HIDE DEF scan
  <2>3. [a \in 0..n |-> f[a]] = [a \in 0..n |-> ScanFrom(spans, text, scan, a)]
    BY <2>1, Zenon
  <2>4. QED
    BY <2>2, <2>3
<1>6. QED
  BY <1>5, Zenon

LEMMA ScanIs ==
  ASSUME NEW spans \in SpanList, WellMarked(spans), NEW text \in Text
  PROVE  \E scan : IsScan(spans, text, scan) /\ Scan(spans, text) = scan[0]
<1> DEFINE scan == CHOOSE scan : scan = [a \in 0..Len(text) |-> ScanFrom(spans, text, scan, a)]
<1>1. scan = [a \in 0..Len(text) |-> ScanFrom(spans, text, scan, a)]
  BY ScanExists, Zenon
<1>2. Scan(spans, text) = scan[0]
  BY DEF Scan
<1> HIDE DEF scan
<1>3. IsScan(spans, text, scan)
  BY <1>1, Zenon DEF IsScan
<1>4. QED
  BY <1>2, <1>3

-----------------------------------------------------------------------------
(***************************************************************************)
(* Reading bit by bit.  The restorer has come as far as reading step by    *)
(* step from the beginning comes: over single symbols where no marker is,  *)
(* and over markers of spans it has not met.  What is closed under those   *)
(* steps has the point it has reached.  As long as the text is open, a     *)
(* symbol is passed only where no marker can begin later either.           *)
(***************************************************************************)

Free(spans, text, i, open) ==
  IF open THEN Barred(spans, text, i) ELSE MarkersAt(spans, text, i) = {}

Point(at, text, spans) == [at |-> at, text |-> text, spans |-> spans]

Closed(spans, text, open, points) ==
  /\ Point(0, <<>>, {}) \in points
  /\ \A at \in 0..(Len(text) - 1), out \in Text, met \in SUBSET DOMAIN spans :
       Point(at, out, met) \in points =>
         /\ Free(spans, text, at + 1, open) => Point(at + 1, Append(out, text[at + 1]), met) \in points
         /\ \A k \in MarkersAt(spans, text, at + 1) \ met :
              Point(at + Len(spans[k].token), out \o spans[k].replacement, met \cup {k}) \in points

Reads(spans, text, open, at, out, met) ==
  \A points : Closed(spans, text, open, points) => Point(at, out, met) \in points

LEMMA ReadsNothing ==
  ASSUME NEW spans, NEW text, NEW open
  PROVE  Reads(spans, text, open, 0, <<>>, {})
BY DEF Reads, Closed

LEMMA ReadsMarker ==
  ASSUME NEW spans, NEW text, NEW open, NEW at \in 0..(Len(text) - 1), NEW out \in Text,
         NEW met \in SUBSET DOMAIN spans, Reads(spans, text, open, at, out, met),
         NEW k \in MarkersAt(spans, text, at + 1), k \notin met
  PROVE  Reads(spans, text, open, at + Len(spans[k].token), out \o spans[k].replacement, met \cup {k})
BY Zenon DEF Reads, Closed

LEMMA ReadsSymbol ==
  ASSUME NEW spans, NEW text, NEW open, NEW at \in 0..(Len(text) - 1), NEW out \in Text,
         NEW met \in SUBSET DOMAIN spans, Reads(spans, text, open, at, out, met),
         Free(spans, text, at + 1, open)
  PROVE  Reads(spans, text, open, at + 1, Append(out, text[at + 1]), met)
BY Zenon DEF Reads, Closed

LEMMA AppendLater ==
  ASSUME NEW x \in Text, NEW y \in Text, NEW c \in Symbols
  PROVE  Append(x \o y, c) = x \o Append(y, c)
<1>1. Len(Append(x \o y, c)) = Len(x \o Append(y, c))
  BY DEF Text
<1>2. \A i \in 1..Len(Append(x \o y, c)) : Append(x \o y, c)[i] = (x \o Append(y, c))[i]
  BY DEF Text
<1>3. QED
  BY <1>1, <1>2 DEF Text

LEMMA AppendSlice ==
  ASSUME NEW text \in Text, NEW out \in Text, NEW at \in Nat, NEW m \in Nat, at + m + 1 <= Len(text)
  PROVE  /\ SubSeq(text, at + 1, at + m) \in Text
         /\ Append(out \o SubSeq(text, at + 1, at + m), text[at + m + 1])
              = out \o SubSeq(text, at + 1, at + m + 1)
<1> DEFINE x == SubSeq(text, at + 1, at + m)
           y == SubSeq(text, at + 1, at + m + 1)
<1>0. Len(text) \in Nat
  BY DEF Text
<1>1. x \in Text /\ Len(x) = m /\ \A i \in 1..m : x[i] = text[at + i]
  <2>1. at + m - (at + 1) + 1 = m /\ \A i \in 1..m : at + 1 + i - 1 = at + i
    OBVIOUS
  <2>2. x \in Text
    BY <1>0 DEF Text
  <2>3. Len(x) = m
    BY <1>0, <2>1 DEF Text
  <2>4. \A i \in 1..m : x[i] = text[at + i]
    BY <1>0, <2>1 DEF Text
  <2>5. QED
    BY <2>2, <2>3, <2>4
<1>2. y \in Text /\ Len(y) = m + 1 /\ \A i \in 1..(m + 1) : y[i] = text[at + i]
  <2>1. at + m + 1 - (at + 1) + 1 = m + 1 /\ \A i \in 1..(m + 1) : at + 1 + i - 1 = at + i
    OBVIOUS
  <2>2. y \in Text
    BY <1>0 DEF Text
  <2>3. Len(y) = m + 1
    BY <1>0, <2>1 DEF Text
  <2>4. \A i \in 1..(m + 1) : y[i] = text[at + i]
    BY <1>0, <2>1 DEF Text
  <2>5. QED
    BY <2>2, <2>3, <2>4
<1>3. text[at + m + 1] \in Symbols
  BY <1>0 DEF Text
<1>4. ASSUME NEW u \in Text, NEW v \in Text, NEW c \in Symbols,
             Len(u) = m, Len(v) = m + 1, \A i \in 1..m : v[i] = u[i], v[m + 1] = c
      PROVE  Append(out \o u, c) = out \o v
  <2>1. Append(u, c) = v
    BY <1>4 DEF Text
  <2>2. Append(out \o u, c) = out \o Append(u, c)
    BY AppendLater
  <2>3. QED
    BY <2>1, <2>2, Zenon
<1>5. \A i \in 1..m : y[i] = x[i]
  BY <1>1, <1>2
<1>6. y[m + 1] = text[at + m + 1]
  <2>1. at + (m + 1) = at + m + 1 /\ m + 1 \in 1..(m + 1)
    OBVIOUS
  <2>2. QED
    BY <1>2, <2>1
<1> HIDE DEF x, y
<1>7. Append(out \o x, text[at + m + 1]) = out \o y
  BY <1>1, <1>2, <1>3, <1>4, <1>5, <1>6
<1>8. QED
  BY <1>1, <1>7 DEF x, y

\* Several symbols at once.
LEMMA ReadsSymbols ==
  ASSUME NEW spans, NEW text \in Text, NEW open, NEW at \in Nat, NEW out \in Text,
         NEW met \in SUBSET DOMAIN spans, Reads(spans, text, open, at, out, met),
         NEW n \in Nat, at + n <= Len(text),
         \A i \in 1..n : Free(spans, text, at + i, open)
  PROVE  Reads(spans, text, open, at + n, out \o SubSeq(text, at + 1, at + n), met)
<1> DEFINE Good(m) == Reads(spans, text, open, at + m, out \o SubSeq(text, at + 1, at + m), met)
           T == {m \in 0..n : ~Good(m)}
<1>0. Len(text) \in Nat
  BY DEF Text
<1> SUFFICES ASSUME ~Good(n) PROVE FALSE
  OBVIOUS
<1>1. PICK m \in T : \A l \in T : ~(l < m)
  <2>1. T \in SUBSET Nat /\ T # {}
    <3> HIDE DEF Good
    <3>1. n \in T
      OBVIOUS
    <3>2. QED
      BY <3>1
  <2> HIDE DEF T
  <2>2. QED
    BY <2>1, LeastNatural
<1>2. CASE m = 0
  <2>1. SubSeq(text, at + 1, at + 0) = <<>>
    BY <1>0 DEF Text
  <2>2. out \o <<>> = out /\ at + 0 = at
    BY DEF Text
  <2>3. QED
    BY <1>1, <1>2, <2>1, <2>2
<1>3. CASE m # 0
  <2>1. PICK l \in Nat : m = l + 1 /\ l \in 0..n /\ l < m /\ m \in 1..n
    <3>1. m - 1 \in Nat /\ m = (m - 1) + 1 /\ m - 1 \in 0..n /\ m - 1 < m /\ m \in 1..n
      BY <1>1, <1>3
    <3>2. QED
      BY <3>1
  <2>2. Good(l)
    BY <1>1, <2>1
  <2>3. at + l + 1 <= Len(text) /\ at + l \in 0..(Len(text) - 1) /\ at + l + 1 = at + m
    BY <1>0, <2>1
  <2>4. /\ SubSeq(text, at + 1, at + l) \in Text
        /\ Append(out \o SubSeq(text, at + 1, at + l), text[at + l + 1])
             = out \o SubSeq(text, at + 1, at + l + 1)
    BY ONLY text \in Text, out \in Text, at \in Nat, l \in Nat, <2>3, AppendSlice
  <2>5. out \o SubSeq(text, at + 1, at + l) \in Text
    <3>1. \A x, y \in Text : x \o y \in Text
      BY ONLY TRUE DEF Text
    <3>2. SubSeq(text, at + 1, at + l) \in Text
      BY <2>4, Zenon
    <3>3. QED
      BY ONLY out \in Text, <3>1, <3>2, SMTT(20)
  <2>6. Free(spans, text, at + l + 1, open)
    BY <2>1, <2>3, Zenon
  <2>7. Reads(spans, text, open, at + l + 1, Append(out \o SubSeq(text, at + 1, at + l), text[at + l + 1]), met)
    BY <2>2, <2>3, <2>5, <2>6, ReadsSymbol
  <2>8. Good(m)
    BY <2>3, <2>4, <2>7
  <2>9. QED
    BY <1>1, <2>8
<1>4. QED
  BY <1>2, <1>3

\* A text that grows keeps its symbols, its markers and its barred places.
LEMMA TextGrows ==
  ASSUME NEW text \in Text, NEW more \in Text
  PROVE  /\ text \o more \in Text /\ Len(text) \in Nat /\ Len(text) <= Len(text \o more)
         /\ \A i \in 1..Len(text) : (text \o more)[i] = text[i]
BY DEF Text

LEMMA MarkersStay ==
  ASSUME NEW spans \in SpanList, NEW text \in Text, NEW more \in Text, NEW i \in Nat, i > 0
  PROVE  MarkersAt(spans, text, i) \subseteq MarkersAt(spans, text \o more, i)
<1> DEFINE whole == text \o more
<1>1. whole \in Text /\ Len(text) \in Nat /\ Len(text) <= Len(whole)
        /\ \A j \in 1..Len(text) : whole[j] = text[j]
  BY TextGrows
<1> HIDE DEF whole
<1> SUFFICES ASSUME NEW k \in DOMAIN spans, OccursAt(spans[k].token, text, i)
             PROVE  OccursAt(spans[k].token, whole, i)
  BY DEF MarkersAt, whole
<1>2. PICK t \in Text : t = spans[k].token
  BY SpanType
<1>3. OccursAt(t, text, i) <=>
        i + Len(t) - 1 <= Len(text) /\ \A n \in 1..Len(t) : text[i + n - 1] = t[n]
  BY ONLY t \in Text, text \in Text, i \in Nat, i > 0, OccursSymbols DEF Text
<1>4. OccursAt(t, whole, i) <=>
        i + Len(t) - 1 <= Len(whole) /\ \A n \in 1..Len(t) : whole[i + n - 1] = t[n]
  <2>1. t \in Text /\ whole \in Text /\ i \in Nat /\ i > 0
    BY <1>1
  <2>2. QED
    BY ONLY <2>1, OccursSymbols DEF Text
<1>5. Len(t) \in Nat /\ Len(whole) \in Nat
  BY <1>1 DEF Text
<1>6. i + Len(t) - 1 <= Len(text) /\ \A n \in 1..Len(t) : text[i + n - 1] = t[n]
  BY <1>2, <1>3
<1>7. i + Len(t) - 1 <= Len(whole)
  BY <1>1, <1>5, <1>6
<1>8. \A n \in 1..Len(t) : i + n - 1 \in 1..Len(text)
  BY <1>1, <1>5, <1>6
<1>9. QED
  BY <1>1, <1>2, <1>4, <1>6, <1>7, <1>8

LEMMA BarredStays ==
  ASSUME NEW spans \in SpanList, NEW text \in Text, NEW more \in Text, NEW i \in Nat, i > 0,
         Barred(spans, text, i)
  PROVE  Barred(spans, text \o more, i)
<1> DEFINE whole == text \o more
<1>1. whole \in Text /\ Len(text) \in Nat /\ Len(text) <= Len(whole)
        /\ \A j \in 1..Len(text) : whole[j] = text[j]
  BY TextGrows
<1>2. Len(whole) \in Nat
  BY <1>1 DEF Text
<1> HIDE DEF whole
<1> SUFFICES ASSUME NEW k \in DOMAIN spans
             PROVE  \E n \in 1..Len(spans[k].token) :
                      i + n - 1 <= Len(whole) /\ whole[i + n - 1] # spans[k].token[n]
  BY DEF Barred, whole
<1>3. PICK n \in 1..Len(spans[k].token) :
        i + n - 1 <= Len(text) /\ text[i + n - 1] # spans[k].token[n]
  BY DEF Barred
<1>4. spans[k].token \in Text
  BY SpanType
<1>5. Len(spans[k].token) \in Nat
  BY <1>4 DEF Text
<1>6. i + n - 1 \in 1..Len(text) /\ i + n - 1 <= Len(whole)
  BY <1>1, <1>2, <1>3, <1>5
<1>7. QED
  BY <1>1, <1>3, <1>6

\* What has been read of a text is read of what the text grows to ...
LEMMA ReadsOn ==
  ASSUME NEW spans \in SpanList, NEW text \in Text, NEW more \in Text,
         NEW at, NEW out, NEW met, Reads(spans, text, TRUE, at, out, met)
  PROVE  Reads(spans, text \o more, TRUE, at, out, met)
<1> SUFFICES ASSUME NEW points, Closed(spans, text \o more, TRUE, points)
             PROVE  Closed(spans, text, TRUE, points)
  BY DEF Reads
<1> DEFINE whole == text \o more
<1>1. whole \in Text /\ Len(text) \in Nat /\ Len(text) <= Len(whole)
        /\ \A j \in 1..Len(text) : whole[j] = text[j]
  BY TextGrows
<1>2. Len(whole) \in Nat
  BY <1>1 DEF Text
<1>3. ASSUME NEW a \in 0..(Len(text) - 1), NEW o \in Text, NEW m \in SUBSET DOMAIN spans,
             Point(a, o, m) \in points
      PROVE  /\ Free(spans, text, a + 1, TRUE) => Point(a + 1, Append(o, text[a + 1]), m) \in points
             /\ \A k \in MarkersAt(spans, text, a + 1) \ m :
                  Point(a + Len(spans[k].token), o \o spans[k].replacement, m \cup {k}) \in points
  <2>1. a + 1 \in Nat /\ a + 1 > 0 /\ a + 1 \in 1..Len(text) /\ a \in 0..(Len(whole) - 1)
    BY <1>1, <1>2
  <2>2. MarkersAt(spans, text, a + 1) \subseteq MarkersAt(spans, whole, a + 1)
    BY <2>1, MarkersStay
  <2>3. Barred(spans, text, a + 1) => Barred(spans, whole, a + 1)
    BY <2>1, BarredStays
  <2>4. whole[a + 1] = text[a + 1]
    BY <1>1, <2>1
  <2> HIDE DEF whole
  <2>5. /\ Free(spans, whole, a + 1, TRUE) => Point(a + 1, Append(o, whole[a + 1]), m) \in points
        /\ \A k \in MarkersAt(spans, whole, a + 1) \ m :
             Point(a + Len(spans[k].token), o \o spans[k].replacement, m \cup {k}) \in points
    BY <1>3, <2>1, Zenon DEF Closed, whole
  <2>6. Free(spans, text, a + 1, TRUE) => Free(spans, whole, a + 1, TRUE)
    BY <2>3, Zenon DEF Free
  <2>7. QED
    BY <2>2, <2>4, <2>5, <2>6, Zenon
<1>4. Point(0, <<>>, {}) \in points
  BY DEF Closed
<1>5. QED
  BY <1>3, <1>4, Zenon DEF Closed

\* ... and of the whole text when nothing more comes.
LEMMA ReadsWhole ==
  ASSUME NEW spans \in SpanList, NEW text \in Text,
         NEW at, NEW out, NEW met, Reads(spans, text, TRUE, at, out, met)
  PROVE  Reads(spans, text, FALSE, at, out, met)
<1> SUFFICES ASSUME NEW points, Closed(spans, text, FALSE, points)
             PROVE  Closed(spans, text, TRUE, points)
  BY DEF Reads
<1>1. \A a \in 0..(Len(text) - 1) : Free(spans, text, a + 1, TRUE) => Free(spans, text, a + 1, FALSE)
  <2> SUFFICES ASSUME NEW a \in 0..(Len(text) - 1), Barred(spans, text, a + 1)
               PROVE  MarkersAt(spans, text, a + 1) = {}
    BY DEF Free
  <2>1. a + 1 \in Nat /\ a + 1 > 0
    BY DEF Text
  <2>2. QED
    BY <2>1, BarredIsFree
<1>2. QED
  BY <1>1, Zenon DEF Closed

-----------------------------------------------------------------------------
(* What is read bit by bit agrees with what is read at once.               *)

Agrees(scan, at, out, met) ==
  /\ scan[0].text = out \o scan[at].text
  /\ scan[0].spans = met \cup scan[at].spans
  /\ scan[0].once = (scan[at].once /\ met \cap scan[at].spans = {})

LEMMA Associate ==
  ASSUME NEW x \in Text, NEW y \in Text, NEW z \in Text
  PROVE  (x \o y) \o z = x \o (y \o z)
<1>1. Len((x \o y) \o z) = Len(x \o (y \o z))
  BY DEF Text
<1>2. \A i \in 1..Len((x \o y) \o z) : ((x \o y) \o z)[i] = (x \o (y \o z))[i]
  BY DEF Text
<1>3. QED
  BY <1>1, <1>2 DEF Text

LEMMA AppendIs ==
  ASSUME NEW x \in Text, NEW c \in Symbols
  PROVE  <<c>> \in Text /\ Append(x, c) = x \o <<c>>
BY DEF Text

LEMMA ReadsScan ==
  ASSUME NEW spans \in SpanList, WellMarked(spans), NEW text \in Text, NEW scan,
         IsScan(spans, text, scan), NEW at, NEW out, NEW met,
         Reads(spans, text, FALSE, at, out, met)
  PROVE  at \in 0..Len(text) /\ out \in Text /\ Agrees(scan, at, out, met)
<1> DEFINE Points == [at : 0..Len(text), text : Text, spans : SUBSET DOMAIN spans]
           points == {p \in Points : Agrees(scan, p.at, p.text, p.spans)}
<1>0. Len(text) \in Nat /\ \A a \in 0..Len(text) : scan[a] \in Results(spans)
  BY ScanType DEF Text
<1>p. ASSUME NEW a \in 0..Len(text), NEW o \in Text, NEW m \in SUBSET DOMAIN spans
      PROVE  Point(a, o, m) \in points <=> Agrees(scan, a, o, m)
  <2> DEFINE p == Point(a, o, m)
  <2>1. p \in Points /\ p.at = a /\ p.text = o /\ p.spans = m
    BY DEF Point
  <2> HIDE DEF p, Points
  <2>2. QED
    BY <2>1, Zenon DEF p
<1>1. Point(0, <<>>, {}) \in points
  <2>1. scan[0] \in Results(spans)
    BY <1>0
  <2>2. <<>> \in Text /\ scan[0].text = <<>> \o scan[0].text
    BY <2>1 DEF Results, Text
  <2>3. scan[0].once \in BOOLEAN
    BY <2>1 DEF Results
  <2>4. Agrees(scan, 0, <<>>, {})
    <3>1. scan[0].spans = {} \cup scan[0].spans /\ {} \cap scan[0].spans = {}
      OBVIOUS
    <3>2. QED
      BY <2>2, <2>3, <3>1, Zenon DEF Agrees
  <2>5. QED
    BY <1>0, <1>p, <2>2, <2>4
<1>2. ASSUME NEW a \in 0..(Len(text) - 1), NEW o \in Text, NEW m \in SUBSET DOMAIN spans,
             Point(a, o, m) \in points, MarkersAt(spans, text, a + 1) = {}
      PROVE  Point(a + 1, Append(o, text[a + 1]), m) \in points
  <2>1. a \in 0..Len(text) /\ a # Len(text) /\ a + 1 \in 0..Len(text) /\ a + 1 \in 1..Len(text)
    BY <1>0
  <2>2. Agrees(scan, a, o, m)
    BY <1>2, <1>p, <2>1
  <2>3. scan[a] = [scan[a + 1] EXCEPT !.text = <<text[a + 1]>> \o @]
    BY <1>2, <2>1 DEF IsScan, ScanFrom
  <2>4. scan[a + 1] \in Results(spans) /\ text[a + 1] \in Symbols
    BY <1>0, <2>1 DEF Text
  <2>5. /\ scan[a].text = <<text[a + 1]>> \o scan[a + 1].text
        /\ scan[a].spans = scan[a + 1].spans /\ scan[a].once = scan[a + 1].once
    BY <2>3, <2>4 DEF Results
  <2>6. <<text[a + 1]>> \in Text /\ Append(o, text[a + 1]) = o \o <<text[a + 1]>>
    BY <2>4, AppendIs
  <2>7. scan[a + 1].text \in Text
    BY <2>4 DEF Results
  <2>8. o \o scan[a].text = Append(o, text[a + 1]) \o scan[a + 1].text
    <3> DEFINE c == <<text[a + 1]>>
               tail == scan[a + 1].text
    <3>1. c \in Text /\ tail \in Text /\ scan[a].text = c \o tail /\ Append(o, text[a + 1]) = o \o c
      BY <2>5, <2>6, <2>7
    <3> HIDE DEF c, tail
    <3>2. (o \o c) \o tail = o \o (c \o tail)
      BY <3>1, Associate
    <3>3. QED
      BY <3>1, <3>2, Zenon DEF tail
  <2>9. Append(o, text[a + 1]) \in Text
    BY <2>4 DEF Text
  <2>10. Agrees(scan, a + 1, Append(o, text[a + 1]), m)
    BY <2>2, <2>5, <2>8, Zenon DEF Agrees
  <2>11. QED
    BY <1>p, <2>1, <2>9, <2>10
<1>3. ASSUME NEW a \in 0..(Len(text) - 1), NEW o \in Text, NEW m \in SUBSET DOMAIN spans,
             Point(a, o, m) \in points, NEW k \in MarkersAt(spans, text, a + 1), k \notin m
      PROVE  Point(a + Len(spans[k].token), o \o spans[k].replacement, m \cup {k}) \in points
  <2> DEFINE b == a + Len(spans[k].token)
             r == spans[k].replacement
  <2>1. a \in 0..Len(text) /\ a # Len(text) /\ a + 1 \in Nat /\ a + 1 > 0
    BY <1>0
  <2>2. Agrees(scan, a, o, m)
    BY <1>3, <1>p, <2>1
  <2>3. k \in DOMAIN spans /\ b \in 0..Len(text)
    BY <1>0, <2>1, MarkerFits
  <2>4. (CHOOSE l \in MarkersAt(spans, text, a + 1) : TRUE) = k
    BY <2>1, OneMarkerAtAPlace
  <2>5. scan[a] = [text |-> r \o scan[b].text, spans |-> scan[b].spans \cup {k},
                   once |-> scan[b].once /\ k \notin scan[b].spans]
    <3>1. MarkersAt(spans, text, a + 1) # {}
      OBVIOUS
    <3>2. scan[a] = ScanFrom(spans, text, scan, a)
      BY <2>1 DEF IsScan
    <3>3. QED
      BY <2>1, <2>4, <3>1, <3>2 DEF ScanFrom
  <2>6. /\ scan[a].text = r \o scan[b].text /\ scan[a].spans = scan[b].spans \cup {k}
        /\ scan[a].once = (scan[b].once /\ k \notin scan[b].spans)
    <3>1. ASSUME NEW x, NEW y, NEW z, NEW w, w = [text |-> x, spans |-> y, once |-> z]
          PROVE  w.text = x /\ w.spans = y /\ w.once = z
      BY <3>1
    <3> DEFINE x == r \o scan[b].text
               y == scan[b].spans \cup {k}
               z == scan[b].once /\ k \notin scan[b].spans
               w == scan[a]
    <3>2. w = [text |-> x, spans |-> y, once |-> z]
      BY <2>5
    <3> HIDE DEF x, y, z, w
    <3>3. w.text = x /\ w.spans = y /\ w.once = z
      BY <3>1, <3>2
    <3>4. QED
      BY <3>3, Zenon DEF x, y, z, w
  <2>7. scan[b].text \in Text /\ r \in Text
    <3>1. scan[b] \in Results(spans)
      BY <1>0, <2>3
    <3>2. QED
      BY <2>3, <3>1, SpanType DEF Results
  <2>8. o \o scan[a].text = (o \o r) \o scan[b].text
    <3> DEFINE tail == scan[b].text
    <3>1. r \in Text /\ tail \in Text /\ scan[a].text = r \o tail
      BY <2>6, <2>7
    <3> HIDE DEF r, tail
    <3>2. (o \o r) \o tail = o \o (r \o tail)
      BY <3>1, Associate
    <3>3. QED
      BY <3>1, <3>2, Zenon DEF tail
  <2>9. o \o r \in Text
    BY <2>7 DEF Text
  <2>10. Agrees(scan, b, o \o r, m \cup {k})
    <3> HIDE DEF b, r
    <3>1. scan[0].text = (o \o r) \o scan[b].text
      BY <2>2, <2>8, Zenon DEF Agrees
    <3>2. scan[0].spans = (m \cup {k}) \cup scan[b].spans
      BY <2>2, <2>6 DEF Agrees
    <3>3. (k \notin scan[b].spans /\ m \cap (scan[b].spans \cup {k}) = {})
            <=> (m \cup {k}) \cap scan[b].spans = {}
      BY <1>3
    <3>4. scan[0].once = (scan[b].once /\ (m \cup {k}) \cap scan[b].spans = {})
      BY <2>2, <2>6, <3>3, Zenon DEF Agrees
    <3>5. QED
      BY <3>1, <3>2, <3>4, Zenon DEF Agrees
  <2>11. m \cup {k} \in SUBSET DOMAIN spans
    BY <2>3
  <2> HIDE DEF b
  <2>12. QED
    BY <1>p, <2>3, <2>9, <2>10, <2>11, Zenon DEF b
<1> HIDE DEF points
<1>4. Closed(spans, text, FALSE, points)
  BY <1>1, <1>2, <1>3, Zenon DEF Closed, Free
<1>5. Point(at, out, met) \in points
  BY <1>4, Zenon DEF Reads
<1>6. QED
  BY <1>5 DEF points, Point

-----------------------------------------------------------------------------
(***************************************************************************)
(* What is pending is the end of what was received.                        *)
(***************************************************************************)

Rest(text, at) == SubSeq(text, at + 1, Len(text))

LEMMA RestType ==
  ASSUME NEW text \in Text, NEW at \in 0..Len(text)
  PROVE  /\ Rest(text, at) \in Text /\ Len(text) \in Nat /\ at \in Nat
         /\ Len(Rest(text, at)) \in Nat /\ at + Len(Rest(text, at)) = Len(text)
         /\ \A i \in 1..Len(Rest(text, at)) : Rest(text, at)[i] = text[at + i]
<1>1. Len(text) \in Nat /\ at \in Nat
  BY DEF Text
<1>2. Rest(text, at) \in Text
  BY <1>1 DEF Rest, Text
<1>3. Len(text) - (at + 1) + 1 = Len(text) - at /\ \A i \in 1..(Len(text) - at) : at + 1 + i - 1 = at + i
  BY <1>1
<1>4. Len(Rest(text, at)) = Len(text) - at
  <2>1. PICK n \in Nat : n = Len(text)
    BY <1>1
  <2>2. text \in Seq(Symbols) /\ n - (at + 1) + 1 = n - at /\ at <= n
    BY <1>3, <2>1 DEF Text
  <2>3. Len(SubSeq(text, at + 1, n)) = IF at + 1 <= n THEN n - (at + 1) + 1 ELSE 0
    BY <1>1, <2>1, <2>2
  <2>4. QED
    BY <1>1, <2>1, <2>2, <2>3 DEF Rest
<1>5. \A i \in 1..(Len(text) - at) : Rest(text, at)[i] = text[at + i]
  BY <1>1, <1>3 DEF Rest, Text
<1>6. QED
  BY <1>1, <1>2, <1>4, <1>5

\* The first n symbols of the rest, and what is behind them.
LEMMA RestSplits ==
  ASSUME NEW text \in Text, NEW at \in 0..Len(text), NEW n \in Nat, n <= Len(Rest(text, at))
  PROVE  /\ at + n \in 0..Len(text)
         /\ SubSeq(Rest(text, at), 1, n) = SubSeq(text, at + 1, at + n)
         /\ SubSeq(Rest(text, at), n + 1, Len(Rest(text, at))) = Rest(text, at + n)
<1> DEFINE rest == Rest(text, at)
<1>1. /\ rest \in Text /\ Len(text) \in Nat /\ at \in Nat /\ Len(rest) \in Nat
      /\ at + Len(rest) = Len(text) /\ \A i \in 1..Len(rest) : rest[i] = text[at + i]
  BY RestType
<1> HIDE DEF rest
<1>2. n <= Len(rest)
  BY DEF rest
<1>3. at + n \in 0..Len(text)
  BY <1>1, <1>2
<1>4. SubSeq(rest, 1, n) = SubSeq(text, at + 1, at + n)
  <2>1. SubSeq(text, at + 1, at + n) = SubSeq(rest, 1, n) <=> \A i \in 1..n : text[at + i] = rest[i]
    BY <1>1, <1>2, <1>3, SliceSymbols
  <2>2. QED
    BY <1>1, <1>2, <2>1
<1>5. SubSeq(rest, n + 1, Len(rest)) = Rest(text, at + n)
  <2>1. /\ Rest(rest, n) \in Text /\ Len(Rest(rest, n)) \in Nat /\ n + Len(Rest(rest, n)) = Len(rest)
        /\ \A i \in 1..Len(Rest(rest, n)) : Rest(rest, n)[i] = rest[n + i]
    BY <1>1, <1>2, RestType
  <2>2. /\ Rest(text, at + n) \in Text /\ Len(Rest(text, at + n)) \in Nat
        /\ at + n + Len(Rest(text, at + n)) = Len(text)
        /\ \A i \in 1..Len(Rest(text, at + n)) : Rest(text, at + n)[i] = text[at + n + i]
    BY <1>3, RestType
  <2>3. Len(Rest(rest, n)) = Len(Rest(text, at + n))
    BY <1>1, <2>1, <2>2
  <2>4. ASSUME NEW i \in 1..Len(Rest(rest, n)) PROVE Rest(rest, n)[i] = Rest(text, at + n)[i]
    <3>1. n + i \in 1..Len(rest) /\ at + (n + i) = at + n + i
      BY <1>1, <2>1
    <3>2. rest[n + i] = text[at + (n + i)]
      BY <1>1, <3>1
    <3>3. QED
      BY <2>1, <2>2, <2>3, <3>1, <3>2
  <2>5. ASSUME NEW x \in Text, NEW y \in Text, Len(x) = Len(y), \A i \in 1..Len(x) : x[i] = y[i]
        PROVE  x = y
    BY <2>5 DEF Text
  <2>6. Rest(rest, n) = Rest(text, at + n)
    BY <2>1, <2>2, <2>3, <2>4, <2>5
  <2>7. QED
    BY <2>6 DEF Rest
<1>6. QED
  BY <1>3, <1>4, <1>5 DEF rest

LEMMA RestGrows ==
  ASSUME NEW text \in Text, NEW more \in Text, NEW at \in 0..Len(text)
  PROVE  at \in 0..Len(text \o more) /\ Rest(text \o more, at) = Rest(text, at) \o more
<1> DEFINE whole == text \o more
           rest == Rest(text, at)
           tail == Rest(whole, at)
<1>1. /\ rest \in Text /\ Len(text) \in Nat /\ at \in Nat /\ Len(rest) \in Nat
      /\ at + Len(rest) = Len(text) /\ \A i \in 1..Len(rest) : rest[i] = text[at + i]
  BY RestType
<1>2. whole \in Text /\ Len(text) <= Len(whole) /\ \A i \in 1..Len(text) : whole[i] = text[i]
  BY TextGrows
<1>3. /\ Len(more) \in Nat /\ Len(whole) = Len(text) + Len(more)
      /\ \A i \in 1..Len(more) : whole[Len(text) + i] = more[i]
  BY DEF Text
<1> HIDE DEF whole
<1>4. at \in 0..Len(whole)
  BY <1>1, <1>3
<1>5. /\ tail \in Text /\ Len(tail) \in Nat
      /\ at + Len(tail) = Len(whole) /\ \A i \in 1..Len(tail) : tail[i] = whole[at + i]
  BY <1>2, <1>4, RestType
<1> HIDE DEF rest, tail
<1>6. rest \o more \in Text /\ Len(rest \o more) = Len(rest) + Len(more)
        /\ (\A i \in 1..Len(rest) : (rest \o more)[i] = rest[i])
        /\ (\A i \in 1..Len(more) : (rest \o more)[Len(rest) + i] = more[i])
  BY <1>1 DEF Text
<1>7. Len(tail) = Len(rest \o more)
  BY <1>1, <1>3, <1>5, <1>6
<1>8. ASSUME NEW i \in 1..Len(tail) PROVE tail[i] = (rest \o more)[i]
  <2>1. CASE i <= Len(rest)
    <3>1. i \in 1..Len(rest) /\ at + i \in 1..Len(text)
      BY <1>1, <2>1
    <3>2. QED
      BY <1>1, <1>2, <1>5, <1>6, <3>1
  <2>2. CASE ~(i <= Len(rest))
    <3>1. PICK j \in 1..Len(more) : i = Len(rest) + j
      <4>1. i - Len(rest) \in 1..Len(more) /\ i = Len(rest) + (i - Len(rest))
        BY <1>1, <1>3, <1>6, <1>7, <2>2
      <4>2. QED
        BY <4>1
    <3>2. at + i = Len(text) + j
      <4>1. j \in Nat
        BY <1>3
      <4>2. at + (Len(rest) + j) = (at + Len(rest)) + j
        BY <1>1, <4>1
      <4>3. QED
        BY <1>1, <3>1, <4>2, Zenon
    <3>3. tail[i] = whole[Len(text) + j]
      BY <1>5, <3>2
    <3>4. QED
      BY <1>3, <1>6, <3>1, <3>3
  <2>3. QED
    BY <2>1, <2>2
<1>9. ASSUME NEW x \in Text, NEW y \in Text, Len(x) = Len(y), \A i \in 1..Len(x) : x[i] = y[i]
      PROVE  x = y
  BY <1>9 DEF Text
<1>10. tail = rest \o more
  BY <1>5, <1>6, <1>7, <1>8, <1>9
<1>11. QED
  BY <1>4, <1>10 DEF whole, rest, tail

LEMMA RestMarkers ==
  ASSUME NEW spans \in SpanList, NEW text \in Text, NEW at \in 0..Len(text), NEW i \in Nat, i > 0
  PROVE  /\ MarkersAt(spans, Rest(text, at), i) = MarkersAt(spans, text, at + i)
         /\ Barred(spans, Rest(text, at), i) => Barred(spans, text, at + i)
<1> DEFINE rest == Rest(text, at)
<1>1. /\ rest \in Text /\ Len(text) \in Nat /\ at \in Nat /\ Len(rest) \in Nat
      /\ at + Len(rest) = Len(text) /\ \A j \in 1..Len(rest) : rest[j] = text[at + j]
  BY RestType
<1> HIDE DEF rest
<1>2. \A k \in DOMAIN spans : spans[k].token \in Text /\ Len(spans[k].token) \in Nat
  BY SpanType DEF Text
<1>3. ASSUME NEW k \in DOMAIN spans, NEW n \in 1..Len(spans[k].token)
      PROVE  /\ i + n - 1 <= Len(rest) <=> at + i + n - 1 <= Len(text)
             /\ i + n - 1 <= Len(rest) => rest[i + n - 1] = text[at + i + n - 1]
  <2>1. i + n - 1 <= Len(rest) <=> at + i + n - 1 <= Len(text)
    BY <1>1, <1>2
  <2>2. at + (i + n - 1) = at + i + n - 1 /\ (i + n - 1 <= Len(rest) => i + n - 1 \in 1..Len(rest))
    BY <1>1, <1>2
  <2>3. QED
    BY <1>1, <2>1, <2>2
<1>4. ASSUME NEW k \in DOMAIN spans
      PROVE  OccursAt(spans[k].token, rest, i) <=> OccursAt(spans[k].token, text, at + i)
  <2> DEFINE t == spans[k].token
  <2>1. t \in Text /\ Len(t) \in Nat /\ at + i \in Nat /\ at + i > 0
    BY <1>1, <1>2
  <2> HIDE DEF t
  <2>2. OccursAt(t, rest, i) <=>
          i + Len(t) - 1 <= Len(rest) /\ \A n \in 1..Len(t) : rest[i + n - 1] = t[n]
    BY <1>1, <2>1, TextOccurs
  <2>3. OccursAt(t, text, at + i) <=>
          at + i + Len(t) - 1 <= Len(text) /\ \A n \in 1..Len(t) : text[at + i + n - 1] = t[n]
    BY <2>1, TextOccurs
  <2>4. i + Len(t) - 1 <= Len(rest) <=> at + i + Len(t) - 1 <= Len(text)
    BY <1>1, <2>1
  <2>5. i + Len(t) - 1 <= Len(rest) => \A n \in 1..Len(t) : i + n - 1 <= Len(rest)
    BY <1>1, <2>1
  <2>6. \A n \in 1..Len(t) : i + n - 1 <= Len(rest) => rest[i + n - 1] = text[at + i + n - 1]
    BY <1>3 DEF t
  <2>7. OccursAt(t, rest, i) <=> OccursAt(t, text, at + i)
    BY <2>2, <2>3, <2>4, <2>5, <2>6
  <2>8. QED
    BY <2>7 DEF t
<1>5. MarkersAt(spans, rest, i) = MarkersAt(spans, text, at + i)
  BY <1>4 DEF MarkersAt
<1>6. ASSUME Barred(spans, rest, i) PROVE Barred(spans, text, at + i)
  <2> SUFFICES ASSUME NEW k \in DOMAIN spans
               PROVE  \E n \in 1..Len(spans[k].token) :
                        at + i + n - 1 <= Len(text) /\ text[at + i + n - 1] # spans[k].token[n]
    BY DEF Barred
  <2>1. PICK n \in 1..Len(spans[k].token) : i + n - 1 <= Len(rest) /\ rest[i + n - 1] # spans[k].token[n]
    BY <1>6 DEF Barred
  <2>2. QED
    BY <1>3, <2>1
<1>7. QED
  BY <1>5, <1>6 DEF rest

-----------------------------------------------------------------------------
(***************************************************************************)
(* The invariant: what has been emitted is what reading the text received  *)
(* bit by bit gives up to some place, with the spans seen, and behind that *)
(* place everything is pending (a refused answer excepted, of which the    *)
(* rest may be dropped).  As long as more can come the text is open.       *)
(***************************************************************************)

RestorerType ==
  /\ protected.spans \in SpanList /\ WellMarked(protected.spans)
  /\ received \in Text /\ pending \in Text /\ output \in Text
  /\ seen \in SUBSET Spans
  /\ pc \in {"idle", "push", "finish", "tail", "ok", "missing", "duplicate", "invalid"}

Open == pc \notin {"ok", "missing"}

HasReadTo(at) ==
  /\ at \in 0..Len(received)
  /\ Reads(protected.spans, received, Open, at, output, seen)
  /\ pc # "invalid" => pending = Rest(received, at)

TailIsPlain ==
  pc = "tail" => \A i \in 1..Len(pending) : MarkersAt(protected.spans, pending, i) = {}

DoneIsComplete == pc = "ok" => seen = Spans /\ pending = <<>>

RestorerInv ==
  /\ RestorerType
  /\ \E at \in Nat : HasReadTo(at)
  /\ TailIsPlain
  /\ DoneIsComplete

LEMMA EmptyText == <<>> \in Text /\ Len(<<>>) = 0
BY DEF Text

LEMMA RestAtEnd ==
  ASSUME NEW text \in Text
  PROVE  Len(text) \in Nat /\ Rest(text, Len(text)) = <<>>
<1>1. Len(text) \in Nat
  BY DEF Text
<1>2. Rest(text, Len(text)) \in Text /\ Len(Rest(text, Len(text))) = 0
  BY <1>1, RestType
<1>3. ASSUME NEW x \in Text, Len(x) = 0 PROVE x = <<>>
  BY <1>3 DEF Text
<1>4. QED
  BY <1>1, <1>2, <1>3

LEMMA RestorerStarts == RestorerInit => RestorerInv
<1> SUFFICES ASSUME RestorerInit PROVE RestorerInv
  OBVIOUS
<1>1. RestorerType
  BY EmptyText, Zenon DEF RestorerInit, RestorerType, SpanList, Text, Symbols
<1>2. HasReadTo(0)
  <2>1. 0 \in 0..Len(received)
    BY EmptyText DEF RestorerInit
  <2>2. Reads(protected.spans, received, Open, 0, output, seen)
    BY ReadsNothing DEF RestorerInit
  <2>3. pending = Rest(received, 0)
    BY EmptyText, RestAtEnd DEF RestorerInit
  <2>4. QED
    BY <2>1, <2>2, <2>3 DEF HasReadTo
<1>3. pc = "idle"
  BY DEF RestorerInit
<1>4. QED
  BY <1>1, <1>2, <1>3 DEF RestorerInv, TailIsPlain, DoneIsComplete

\* Nothing happens to the reading when the program only moves on.
LEMMA ReadingStays ==
  ASSUME RestorerInv, pc \notin {"ok", "missing", "invalid"},
         UNCHANGED <<protected, received, seen, output>>,
         pending' \in Text, pc' # "invalid" => pending' = pending,
         pc' \in {"idle", "push", "finish", "duplicate", "invalid"}
  PROVE  RestorerInv'
<1>1. PICK at \in Nat : HasReadTo(at)
  BY DEF RestorerInv
<1>2. RestorerType'
  BY DEF RestorerInv, RestorerType, Spans
<1>3. HasReadTo(at)'
  <2>1. Open = TRUE /\ Open' = TRUE
    BY DEF Open
  <2>2. Reads(protected.spans, received, TRUE, at, output, seen)
    BY <1>1, <2>1 DEF HasReadTo
  <2>3. at \in 0..Len(received) /\ pending = Rest(received, at)
    BY <1>1 DEF HasReadTo
  <2>4. QED
    BY <2>1, <2>2, <2>3 DEF HasReadTo
<1>4. TailIsPlain' /\ DoneIsComplete'
  BY DEF TailIsPlain, DoneIsComplete
<1>5. QED
  BY <1>2, <1>3, <1>4 DEF RestorerInv

\* Symbols are passed on, of an open text or of one that ends here.
LEMMA SymbolsPass ==
  ASSUME RestorerInv, pc \notin {"ok", "missing", "invalid"}, NEW n \in 0..Len(pending),
         Open' \in BOOLEAN,
         \A i \in 1..n : Free(protected.spans, received, Len(received) - Len(pending) + i, Open'),
         UNCHANGED <<protected, received, seen>>,
         output' = output \o SubSeq(pending, 1, n), pending' = SubSeq(pending, n + 1, Len(pending)),
         pc' \in {"idle", "tail", "ok", "missing"}
  PROVE  RestorerType' /\ \E at \in Nat : HasReadTo(at)'
<1>1. PICK at \in Nat : HasReadTo(at)
  BY DEF RestorerInv
<1>2. /\ protected.spans \in SpanList /\ received \in Text /\ output \in Text
      /\ pending \in Text /\ seen \in SUBSET DOMAIN protected.spans
  BY DEF RestorerInv, RestorerType, Spans
<1>3. at \in 0..Len(received) /\ pending = Rest(received, at)
  BY <1>1 DEF HasReadTo
<1>4. n \in Nat /\ n <= Len(Rest(received, at)) /\ Len(received) - Len(pending) = at
  BY <1>2, <1>3, RestType
<1>5. Reads(protected.spans, received, Open', at, output, seen)
  <2>1. Open = TRUE
    BY DEF Open
  <2>2. Reads(protected.spans, received, TRUE, at, output, seen)
    BY <1>1, <2>1 DEF HasReadTo
  <2>3. Reads(protected.spans, received, FALSE, at, output, seen)
    BY <1>2, <2>2, ReadsWhole
  <2>4. QED
    BY <2>2, <2>3
<1>6. /\ at + n \in 0..Len(received)
      /\ SubSeq(pending, 1, n) = SubSeq(received, at + 1, at + n)
      /\ SubSeq(pending, n + 1, Len(pending)) = Rest(received, at + n)
  <2>1. /\ at + n \in 0..Len(received)
        /\ SubSeq(Rest(received, at), 1, n) = SubSeq(received, at + 1, at + n)
        /\ SubSeq(Rest(received, at), n + 1, Len(Rest(received, at))) = Rest(received, at + n)
    BY ONLY <1>2, <1>3, <1>4, RestSplits
  <2>2. QED
    BY <1>3, <2>1, Zenon
<1>7. Reads(protected.spans, received, Open', at + n, output \o SubSeq(received, at + 1, at + n), seen)
  <2>1. at + n <= Len(received) /\ \A i \in 1..n : Free(protected.spans, received, at + i, Open')
    <3>1. at + n <= Len(received)
      BY <1>2, <1>4, <1>6, RestType
    <3>2. \A i \in 1..n : Free(protected.spans, received, at + i, Open')
      BY <1>4, Zenon
    <3>3. QED
      BY <3>1, <3>2
  <2> HIDE DEF Open
  <2>2. PICK open : open = Open'
    OBVIOUS
  <2>3. Reads(protected.spans, received, open, at + n, output \o SubSeq(received, at + 1, at + n), seen)
    BY <1>2, <1>4, <1>5, <2>1, <2>2, ReadsSymbols
  <2>4. QED
    BY <2>2, <2>3
<1>8. output' \in Text /\ pending' \in Text
  <2>1. pending' \in Text
    BY <1>2, <1>6, RestType
  <2>2. SubSeq(pending, 1, n) \in Text
    BY <1>2, <1>4 DEF Text
  <2>3. QED
    BY <1>2, <2>1, <2>2 DEF Text
<1>9. RestorerType'
  BY <1>2, <1>8 DEF RestorerInv, RestorerType, Spans
<1>10. HasReadTo(at + n)'
  BY <1>6, <1>7 DEF HasReadTo
<1>11. QED
  BY <1>4, <1>9, <1>10

\* Everything pending is barred from beginning a marker, or is free of markers
\* when nothing more comes.
LEMMA PendingIsFree ==
  ASSUME RestorerInv, pc # "invalid", NEW i \in 1..Len(pending)
  PROVE  /\ Barred(protected.spans, pending, i)
              => Barred(protected.spans, received, Len(received) - Len(pending) + i)
         /\ MarkersAt(protected.spans, pending, i)
              = MarkersAt(protected.spans, received, Len(received) - Len(pending) + i)
<1>1. PICK at \in Nat : HasReadTo(at)
  BY DEF RestorerInv
<1>2. protected.spans \in SpanList /\ received \in Text
  BY DEF RestorerInv, RestorerType
<1>3. at \in 0..Len(received) /\ pending = Rest(received, at)
  BY <1>1 DEF HasReadTo
<1>4. Len(received) - Len(pending) = at /\ i \in Nat /\ i > 0
  BY <1>2, <1>3, RestType
<1>5. i \in 1..Len(Rest(received, at))
  BY <1>3
<1>6. /\ Barred(protected.spans, Rest(received, at), i) => Barred(protected.spans, received, at + i)
      /\ MarkersAt(protected.spans, Rest(received, at), i) = MarkersAt(protected.spans, received, at + i)
  BY ONLY <1>2, <1>3, <1>5, RestMarkers
<1>7. QED
  BY <1>3, <1>4, <1>6, Zenon

LEMMA PushKeeps ==
  ASSUME RestorerInv, NEW delta \in Text, push(delta)
  PROVE  RestorerInv'
<1>1. PICK at \in Nat : HasReadTo(at)
  BY DEF RestorerInv
<1>2. /\ protected.spans \in SpanList /\ received \in Text /\ pending \in Text /\ pc = "idle"
  BY DEF RestorerInv, RestorerType, push
<1>3. /\ received' = received \o delta /\ pending' = pending \o delta /\ pc' = "push"
      /\ UNCHANGED <<protected, seen, output>>
  BY DEF push
<1>4. RestorerType'
  <2>1. received' \in Text /\ pending' \in Text
    BY <1>2, <1>3 DEF Text
  <2>2. QED
    BY <1>3, <2>1 DEF RestorerInv, RestorerType, Spans
<1>5. HasReadTo(at)'
  <2>1. at \in 0..Len(received) /\ pending = Rest(received, at) /\ Open = TRUE
    BY <1>1, <1>2 DEF HasReadTo, Open
  <2>2. Reads(protected.spans, received, TRUE, at, output, seen)
    BY <1>1, <2>1 DEF HasReadTo
  <2>3. Reads(protected.spans, received \o delta, TRUE, at, output, seen)
    BY <1>2, <2>2, ReadsOn
  <2>4. at \in 0..Len(received \o delta) /\ Rest(received \o delta, at) = pending \o delta
    BY <1>2, <2>1, RestGrows
  <2>5. Open' = TRUE
    BY <1>3 DEF Open
  <2>6. Reads(protected.spans, received, Open, at, output, seen)'
    BY <1>3, <2>3, <2>5
  <2>7. QED
    BY <1>3, <2>4, <2>6 DEF HasReadTo
<1>6. TailIsPlain' /\ DoneIsComplete'
  BY <1>3 DEF TailIsPlain, DoneIsComplete
<1>7. QED
  BY <1>4, <1>5, <1>6 DEF RestorerInv

LEMMA FinishKeeps == RestorerInv /\ finish => RestorerInv'
<1> SUFFICES ASSUME RestorerInv, finish PROVE RestorerInv'
  OBVIOUS
<1>1. pending \in Text
  BY DEF RestorerInv, RestorerType
<1>2. QED
  BY <1>1, ReadingStays DEF finish

\* The two parts of a text that is cut at its end.
LEMMA CutAtEnd ==
  ASSUME NEW text \in Text
  PROVE  /\ Len(text) \in Nat /\ SubSeq(text, 1, Len(text)) = text
         /\ SubSeq(text, Len(text) + 1, Len(text)) = <<>>
<1>1. Rest(text, Len(text)) = <<>> /\ Len(text) \in Nat
  BY RestAtEnd
<1>2. SubSeq(text, 1, Len(text)) = text
  BY DEF Text
<1>3. QED
  BY <1>1, <1>2 DEF Rest

LEMMA UnprotectedKeeps == RestorerInv /\ push_unprotected => RestorerInv'
<1> SUFFICES ASSUME RestorerInv, push_unprotected PROVE RestorerInv'
  OBVIOUS
<1> DEFINE n == Len(pending)
<1>1. pending \in Text /\ Spans = {} /\ pc \in {"push", "finish"} /\ pc' \in {"idle", "tail"}
        /\ UNCHANGED <<protected, received, seen>>
  BY DEF RestorerInv, RestorerType, push_unprotected
<1>2. n \in 0..Len(pending) /\ output' = output \o SubSeq(pending, 1, n)
        /\ pending' = SubSeq(pending, n + 1, Len(pending)) /\ pending' = <<>>
  BY <1>1, CutAtEnd DEF push_unprotected
<1>3. Open' = TRUE
  BY <1>1 DEF Open
<1>4. \A i \in 1..n : Free(protected.spans, received, Len(received) - Len(pending) + i, TRUE)
  BY <1>1 DEF Free, Barred, Spans
<1> HIDE DEF n
<1>5. RestorerType' /\ \E at \in Nat : HasReadTo(at)'
  BY <1>1, <1>2, <1>3, <1>4, SymbolsPass
<1>6. TailIsPlain' /\ DoneIsComplete'
  <2>1. 1..Len(pending') = {}
    BY <1>2, EmptyText
  <2>2. pc' # "ok"
    BY <1>1
  <2>3. QED
    BY <2>1, <2>2 DEF TailIsPlain, DoneIsComplete
<1>7. QED
  BY <1>5, <1>6 DEF RestorerInv

LEMMA TailKeeps == RestorerInv /\ finish_tail => RestorerInv'
<1> SUFFICES ASSUME RestorerInv, finish_tail PROVE RestorerInv'
  OBVIOUS
<1> DEFINE n == Len(pending)
<1>1. pending \in Text /\ pc = "tail" /\ pending' = <<>> /\ UNCHANGED <<protected, received, seen>>
  BY DEF RestorerInv, RestorerType, finish_tail
<1>2. CASE pc' = "invalid" /\ UNCHANGED output
  BY <1>1, <1>2, EmptyText, ReadingStays
<1>3. CASE /\ output' = output \o pending
           /\ pc' = IF seen = Spans THEN "ok" ELSE "missing"
  <2>1. n \in 0..Len(pending) /\ output' = output \o SubSeq(pending, 1, n)
          /\ pending' = SubSeq(pending, n + 1, Len(pending))
    BY <1>1, <1>3, CutAtEnd
  <2>2. Open' = FALSE /\ pc' \in {"ok", "missing"}
    BY <1>3 DEF Open
  <2>3. \A i \in 1..n : Free(protected.spans, received, Len(received) - Len(pending) + i, FALSE)
    <3>1. \A i \in 1..n : MarkersAt(protected.spans, pending, i) = {}
      BY <1>1 DEF RestorerInv, TailIsPlain
    <3>2. QED
      BY <1>1, <3>1, PendingIsFree DEF Free
  <2> HIDE DEF n
  <2>4. RestorerType' /\ \E at \in Nat : HasReadTo(at)'
    BY <1>1, <2>1, <2>2, <2>3, SymbolsPass
  <2>5. TailIsPlain' /\ DoneIsComplete'
    BY <1>1, <1>3 DEF TailIsPlain, DoneIsComplete, Spans
  <2>6. QED
    BY <2>4, <2>5 DEF RestorerInv
<1>4. QED
  BY <1>1, <1>2, <1>3 DEF finish_tail, append_plain_text

LEMMA HoldKeeps == RestorerInv /\ hold_back => RestorerInv'
<1> SUFFICES ASSUME RestorerInv, hold_back PROVE RestorerInv'
  OBVIOUS
<1>1. /\ protected.spans \in SpanList /\ WellMarked(protected.spans) /\ pending \in Text
      /\ pc \in {"push", "finish"} /\ UNCHANGED <<protected, received, seen>>
  BY DEF RestorerInv, RestorerType, hold_back
<1>2. \A i \in 1..Len(pending) : MarkersAt(protected.spans, pending, i) = {}
  BY DEF hold_back, MarkersAt, Marker, Spans
<1>3. PICK n \in 0..Len(pending) : n = Len(pending) - longest_marker_prefix_suffix
  <2>1. Len(pending) - longest_marker_prefix_suffix \in 0..Len(pending)
    BY <1>1, HeldType
  <2>2. QED
    BY <2>1
<1>4. Len(pending) \in Nat /\ n \in Nat
  BY <1>1, HeldType
<1>5. pending' = SubSeq(pending, n + 1, Len(pending))
  BY <1>3 DEF hold_back
<1>6. pending' \in Text /\ \A i \in 1..Len(pending') : MarkersAt(protected.spans, pending', i) = {}
  <2>1. pending' = Rest(pending, n)
    BY <1>5 DEF Rest
  <2>2. /\ pending' \in Text /\ Len(pending') \in Nat /\ n + Len(pending') = Len(pending)
    BY <1>1, <2>1, RestType
  <2>3. ASSUME NEW i \in 1..Len(pending') PROVE MarkersAt(protected.spans, pending', i) = {}
    <3>1. i \in Nat /\ i > 0 /\ n + i \in 1..Len(pending)
      BY <1>4, <2>2
    <3>2. MarkersAt(protected.spans, pending', i) = MarkersAt(protected.spans, pending, n + i)
      BY <1>1, <2>1, <3>1, RestMarkers
    <3>3. QED
      BY <1>2, <3>1, <3>2
  <2>4. QED
    BY <2>2, <2>3
<1>7. CASE pc' = "invalid" /\ UNCHANGED output
  BY <1>1, <1>6, <1>7, ReadingStays
<1>8. CASE /\ ~Occurs(PROTECTED_TOKEN_PREFIX, SubSeq(pending, 1, n))
           /\ output' = output \o SubSeq(pending, 1, n)
           /\ pc' = IF pc = "push" THEN "idle" ELSE "tail"
  <2>1. Open' = TRUE /\ pc' \in {"idle", "tail"}
    BY <1>8 DEF Open
  <2>2. \A i \in 1..n : Free(protected.spans, received, Len(received) - Len(pending) + i, TRUE)
    <3> SUFFICES ASSUME NEW i \in 1..n
                 PROVE  Barred(protected.spans, received, Len(received) - Len(pending) + i)
      BY DEF Free
    <3>1. i \in 1..Len(pending)
      BY <1>4
    <3>2. Barred(protected.spans, pending, i)
      BY <1>1, <1>2, <1>3, <1>8, <3>1, BarredByHolding
    <3>3. QED
      BY <1>1, <3>1, <3>2, PendingIsFree
  <2>3. RestorerType' /\ \E at \in Nat : HasReadTo(at)'
    BY <1>1, <1>5, <1>8, <2>1, <2>2, SymbolsPass
  <2>4. TailIsPlain' /\ DoneIsComplete'
    <3>1. TailIsPlain'
      BY <1>1, <1>6 DEF TailIsPlain
    <3>2. QED
      BY <2>1, <3>1 DEF DoneIsComplete
  <2>5. QED
    BY <2>3, <2>4 DEF RestorerInv
<1>9. QED
  BY <1>3, <1>7, <1>8 DEF hold_back, append_plain_text

\* A marker is replaced, with the text before it.
LEMMA MarkerPasses ==
  ASSUME RestorerInv, pc \in {"push", "finish"}, NEW i \in 1..Len(pending), NEW k \in Spans,
         IsNextMarker(i, k), k \notin seen, UNCHANGED <<protected, received, pc>>,
         output' = output \o SubSeq(pending, 1, i - 1) \o Replacement(k),
         pending' = SubSeq(pending, i + Len(Marker(k)), Len(pending)),
         seen' = seen \cup {k}
  PROVE  RestorerInv'
<1> DEFINE spans == protected.spans
           t == Marker(k)
           plain == SubSeq(pending, 1, i - 1)
<1>1. PICK at \in Nat : HasReadTo(at)
  BY DEF RestorerInv
<1>2. /\ spans \in SpanList /\ WellMarked(spans) /\ received \in Text /\ output \in Text
      /\ pending \in Text /\ seen \in SUBSET DOMAIN spans
  BY DEF RestorerInv, RestorerType, Spans
<1>3. at \in 0..Len(received) /\ pending = Rest(received, at) /\ Open = TRUE /\ Open' = TRUE
  BY <1>1 DEF HasReadTo, Open
<1>4. Reads(spans, received, TRUE, at, output, seen)
  BY <1>1, <1>3 DEF HasReadTo
<1>5. k \in DOMAIN spans /\ t = spans[k].token /\ Replacement(k) = spans[k].replacement
  BY DEF Marker, Replacement, Spans
<1>6. spans[k].replacement \in Text /\ t \in Text /\ Len(t) \in Nat
  BY <1>2, <1>5, SpanType DEF Text
<1>7. Len(pending) \in Nat /\ Len(received) \in Nat /\ at + Len(pending) = Len(received)
        /\ i \in Nat /\ i > 0
  BY <1>2, <1>3, RestType
<1>8. PICK n \in Nat : i = n + 1 /\ n = i - 1 /\ n < Len(pending)
  <2>1. i - 1 \in Nat /\ i = (i - 1) + 1 /\ i - 1 < Len(pending)
    BY <1>7
  <2>2. QED
    BY <2>1
<1>9. OccursAt(spans[k].token, pending, i) /\ \A j \in 1..(i - 1) : MarkersAt(spans, pending, j) = {}
  BY <1>5 DEF IsNextMarker, MarkersAt, Marker, Spans
<1>10. k \in MarkersAt(spans, pending, i)
  BY <1>5, <1>9 DEF MarkersAt
<1>11. Len(received) - Len(pending) = at
  BY <1>7
<1>12. \A j \in 1..n : Free(spans, received, at + j, TRUE)
  <2> SUFFICES ASSUME NEW j \in 1..n PROVE Barred(spans, received, at + j)
    BY DEF Free
  <2>1. j \in 1..(i - 1) /\ j \in 1..Len(pending)
    BY <1>7, <1>8
  <2>2. Barred(spans, pending, j)
    BY <1>2, <1>5, <1>9, <2>1, BarredBefore
  <2>3. QED
    BY <1>11, <2>1, <2>2, PendingIsFree
<1>13. k \in MarkersAt(spans, received, at + n + 1)
  <2>1. k \in MarkersAt(spans, received, at + i)
    BY <1>10, <1>11, PendingIsFree
  <2>2. at + i = at + n + 1
    BY <1>8
  <2>3. QED
    BY <2>1, <2>2
<1>14. n <= Len(Rest(received, at)) /\ at + n <= Len(received) /\ at + n \in 0..(Len(received) - 1)
  BY <1>3, <1>7, <1>8
<1>15. plain = SubSeq(received, at + 1, at + n)
  BY <1>2, <1>3, <1>8, <1>14, RestSplits
<1>16. plain \in Text
  BY <1>2, <1>7 DEF Text
<1> HIDE DEF t, plain, spans
<1>17. Reads(spans, received, TRUE, at + n, output \o plain, seen)
  BY <1>2, <1>4, <1>12, <1>14, <1>15, ReadsSymbols
<1>18. output \o plain \in Text
  BY <1>2, <1>16 DEF Text
<1>19. Reads(spans, received, TRUE, at + n + Len(spans[k].token),
             (output \o plain) \o spans[k].replacement, seen \cup {k})
  BY <1>2, <1>13, <1>14, <1>17, <1>18, ReadsMarker
<1>20. n + Len(t) <= Len(Rest(received, at)) /\ n + Len(t) \in Nat
  <2>1. i + Len(t) - 1 <= Len(pending)
    BY <1>5, <1>9 DEF OccursAt
  <2>2. QED
    BY <1>3, <1>6, <1>7, <1>8, <2>1
<1>21. /\ at + (n + Len(t)) \in 0..Len(received)
       /\ SubSeq(pending, n + Len(t) + 1, Len(pending)) = Rest(received, at + (n + Len(t)))
  BY <1>2, <1>3, <1>20, RestSplits
<1>22. n + Len(t) + 1 = i + Len(t) /\ at + (n + Len(t)) = at + n + Len(t)
  BY <1>6, <1>8
<1>c. PICK to \in Nat : to = at + n + Len(t)
  BY <1>6
<1>23. HasReadTo(to)'
  <2>1. to \in 0..Len(received) /\ pending' = Rest(received, to)
    BY <1>21, <1>22, <1>c DEF t
  <2>2. output' = (output \o plain) \o spans[k].replacement
    BY <1>5 DEF plain
  <2>3. Reads(spans, received, TRUE, to, output', seen')
    BY <1>5, <1>19, <1>c, <2>2
  <2>4. QED
    <3>1. Reads(protected.spans, received, Open, to, output, seen)'
      BY <1>3, <2>3 DEF spans
    <3>2. pc' # "invalid"
      OBVIOUS
    <3>3. to \in 0..Len(received') /\ pending' = Rest(received', to)
      BY <2>1
    <3>4. QED
      BY <3>1, <3>3 DEF HasReadTo
<1>24. RestorerType'
  <2>1. output' \in Text
    <3>1. (output \o plain) \o spans[k].replacement \in Text
      BY <1>6, <1>18 DEF Text
    <3>2. QED
      BY <1>5, <3>1 DEF plain
  <2>2. pending' \in Text
    <3>1. pending' = Rest(received, at + (n + Len(t)))
      BY <1>21, <1>22 DEF t
    <3>2. QED
      BY <1>2, <1>21, <3>1, RestType
  <2>3. seen' \in SUBSET Spans'
    BY <1>2, <1>5 DEF Spans, spans
  <2>4. QED
    BY <1>2, <2>1, <2>2, <2>3 DEF RestorerInv, RestorerType, spans
<1>25. TailIsPlain' /\ DoneIsComplete'
  BY DEF TailIsPlain, DoneIsComplete
<1>26. QED
  BY <1>23, <1>24, <1>25 DEF RestorerInv

LEMMA ReplaceKeeps == RestorerInv /\ replace_marker => RestorerInv'
<1> SUFFICES ASSUME RestorerInv, replace_marker PROVE RestorerInv'
  OBVIOUS
<1>1. pending \in Text /\ pc \in {"push", "finish"} /\ UNCHANGED <<protected, received>>
  BY DEF RestorerInv, RestorerType, replace_marker
<1>2. CASE pc' \in {"duplicate", "invalid"} /\ UNCHANGED <<pending, seen, output>>
  BY <1>1, <1>2, ReadingStays
<1>3. ASSUME NEW i \in 1..Len(pending), NEW k \in Spans, IsNextMarker(i, k), k \notin seen,
             output' = output \o SubSeq(pending, 1, i - 1) \o Replacement(k),
             pending' = SubSeq(pending, i + Len(Marker(k)), Len(pending)),
             seen' = seen \cup {k}, UNCHANGED pc
      PROVE  RestorerInv'
  BY <1>1, <1>3, MarkerPasses
<1>4. QED
  BY <1>2, <1>3 DEF replace_marker

LEMMA RestorerKeeps == RestorerInv /\ [RestorerNext]_restorerVars => RestorerInv'
<1> SUFFICES ASSUME RestorerInv, [RestorerNext]_restorerVars PROVE RestorerInv'
  OBVIOUS
<1>1. ASSUME NEW delta \in Seq(STRING), push(delta) PROVE RestorerInv'
  BY <1>1, PushKeeps DEF Text, Symbols
<1>2. CASE finish
  BY <1>2, FinishKeeps
<1>3. CASE push_unprotected
  BY <1>3, UnprotectedKeeps
<1>4. CASE replace_marker
  BY <1>4, ReplaceKeeps
<1>5. CASE hold_back
  BY <1>5, HoldKeeps
<1>6. CASE finish_tail
  BY <1>6, TailKeeps
<1>7. CASE UNCHANGED restorerVars
  BY <1>7 DEF restorerVars, RestorerInv, RestorerType, HasReadTo, TailIsPlain, DoneIsComplete, Open, Spans
<1>8. QED
  BY <1>1, <1>2, <1>3, <1>4, <1>5, <1>6, <1>7 DEF RestorerNext, restore

LEMMA RestorerAlways == RestorerSpec => []RestorerInv
BY RestorerStarts, RestorerKeeps, PTL DEF RestorerSpec

\* A beginning of a text is a part of it.
LEMMA BeginningIs ==
  ASSUME NEW x \in Text, NEW y \in Text
  PROVE  Len(x) <= Len(x \o y) /\ x = SubSeq(x \o y, 1, Len(x)) /\ x \o <<>> = x
<1>1. Len(x) \in Nat /\ Len(y) \in Nat /\ x \o y \in Text /\ Len(x \o y) = Len(x) + Len(y)
  BY DEF Text
<1>2. \A i \in 1..Len(x) : (x \o y)[i] = x[i]
  BY DEF Text
<1>3. SubSeq(x \o y, 0 + 1, 0 + Len(x)) = SubSeq(x, 1, Len(x)) <=> \A i \in 1..Len(x) : (x \o y)[0 + i] = x[i]
  BY <1>1, SliceSymbols
<1>4. SubSeq(x, 1, Len(x)) = x /\ x \o <<>> = x
  BY DEF Text
<1>5. QED
  BY <1>1, <1>2, <1>3, <1>4

LEMMA WhatIsReadBeginsTheWhole == RestorerInv => DeltasDoNotMatter
<1> SUFFICES ASSUME RestorerInv PROVE DeltasDoNotMatter
  OBVIOUS
<1> DEFINE spans == protected.spans
<1>1. PICK at \in Nat : HasReadTo(at)
  BY DEF RestorerInv
<1>2. spans \in SpanList /\ WellMarked(spans) /\ received \in Text
  BY DEF RestorerInv, RestorerType
<1>3. PICK scan : IsScan(spans, received, scan) /\ Scan(spans, received) = scan[0]
  BY <1>2, ScanIs
<1>4. Reads(spans, received, FALSE, at, output, seen)
  <2>1. Open = TRUE \/ Open = FALSE
    BY DEF Open
  <2>2. QED
    BY <1>1, <1>2, <2>1, ReadsWhole DEF HasReadTo
<1>5. at \in 0..Len(received) /\ output \in Text /\ Agrees(scan, at, output, seen)
  BY <1>2, <1>3, <1>4, ReadsScan
<1>6. scan[at] \in Results(spans)
  BY <1>2, <1>3, <1>5, ScanType
<1>7. Len(output) <= Len(scan[0].text) /\ output = SubSeq(scan[0].text, 1, Len(output))
  <2>1. scan[at].text \in Text
    BY <1>6 DEF Results
  <2>2. scan[0].text = output \o scan[at].text
    BY <1>5 DEF Agrees
  <2>3. QED
    BY <1>5, <2>1, <2>2, BeginningIs
<1>8. ASSUME pc = "ok"
      PROVE  output = scan[0].text /\ scan[0].spans = Spans /\ scan[0].once
  <2>1. seen = Spans /\ pending = <<>> /\ pending = Rest(received, at)
    BY <1>1, <1>8 DEF RestorerInv, DoneIsComplete, HasReadTo
  <2>2. at = Len(received)
    BY <1>2, <1>5, <2>1, EmptyText, RestType
  <2>3. scan[at] = [text |-> <<>>, spans |-> {}, once |-> TRUE]
    BY <1>3, <1>5, <2>2 DEF IsScan, ScanFrom
  <2>4. output \o <<>> = output
    BY <1>5, BeginningIs
  <2>5. scan[at].text = <<>> /\ scan[at].spans = {} /\ scan[at].once = TRUE
    BY <2>3
  <2>6. scan[0].text = output /\ scan[0].spans = seen
    BY <1>5, <2>4, <2>5 DEF Agrees
  <2>7. scan[0].once = TRUE
    <3>1. seen \cap {} = {}
      OBVIOUS
    <3>2. QED
      BY <1>5, <2>5, <3>1, Zenon DEF Agrees
  <2>8. QED
    BY <2>1, <2>6, <2>7
<1> HIDE DEF spans
<1>9. QED
  BY <1>3, <1>7, <1>8, Zenon DEF DeltasDoNotMatter, spans

\* However the answer is cut into deltas, the restorer shows the beginning of
\* what the text received becomes when it is read at once, and on success all
\* of it, with every span's marker met exactly once: for spans with any tokens
\* of the markers' shape, and any text.
THEOREM CuttingDoesNotMatter == RestorerSpec => []DeltasDoNotMatter
BY RestorerAlways, WhatIsReadBeginsTheWhole, PTL

-----------------------------------------------------------------------------
(***************************************************************************)
(* Refusals.  A marker that was met stands behind the place where a second *)
(* one is found; a prefix that is refused stands where no marker can come. *)
(***************************************************************************)

Stand(spans, text, at, met) == \A k \in met : \E i \in 1..at : OccursAt(spans[k].token, text, i)

LEMMA MetStand ==
  ASSUME NEW spans \in SpanList, WellMarked(spans), NEW text \in Text, NEW at, NEW out, NEW met,
         Reads(spans, text, FALSE, at, out, met)
  PROVE  at \in 0..Len(text) /\ Stand(spans, text, at, met)
<1> DEFINE Points == [at : 0..Len(text), text : Text, spans : SUBSET DOMAIN spans]
           points == {p \in Points : Stand(spans, text, p.at, p.spans)}
<1>0. Len(text) \in Nat
  BY DEF Text
<1>p. ASSUME NEW a \in 0..Len(text), NEW o \in Text, NEW m \in SUBSET DOMAIN spans
      PROVE  Point(a, o, m) \in points <=> Stand(spans, text, a, m)
  <2> DEFINE p == Point(a, o, m)
  <2>1. p \in Points /\ p.at = a /\ p.spans = m
    BY DEF Point
  <2> HIDE DEF p, Points
  <2>2. QED
    BY <2>1, Zenon DEF p
<1>1. Point(0, <<>>, {}) \in points
  <2>1. 0 \in 0..Len(text) /\ Stand(spans, text, 0, {})
    BY <1>0 DEF Stand
  <2>2. QED
    BY <1>p, <2>1, EmptyText
<1>2. ASSUME NEW a \in 0..(Len(text) - 1), NEW o \in Text, NEW m \in SUBSET DOMAIN spans,
             Point(a, o, m) \in points
      PROVE  Point(a + 1, Append(o, text[a + 1]), m) \in points
  <2>1. a \in 0..Len(text) /\ a + 1 \in 0..Len(text) /\ a + 1 \in 1..Len(text) /\ 1..a \subseteq 1..(a + 1)
    BY <1>0
  <2>2. Stand(spans, text, a + 1, m)
    <3>1. Stand(spans, text, a, m)
      BY <1>2, <1>p, <2>1
    <3>2. QED
      BY <2>1, <3>1 DEF Stand
  <2>3. Append(o, text[a + 1]) \in Text
    BY <2>1 DEF Text
  <2>4. QED
    BY <1>p, <2>1, <2>2, <2>3
<1>3. ASSUME NEW a \in 0..(Len(text) - 1), NEW o \in Text, NEW m \in SUBSET DOMAIN spans,
             Point(a, o, m) \in points, NEW k \in MarkersAt(spans, text, a + 1)
      PROVE  Point(a + Len(spans[k].token), o \o spans[k].replacement, m \cup {k}) \in points
  <2>1. a \in 0..Len(text)
    BY <1>0
  <2>2. k \in DOMAIN spans /\ a + Len(spans[k].token) \in (a + 1)..Len(text)
    BY <2>1, MarkerFits
  <2>3. PICK b \in (a + 1)..Len(text) : b = a + Len(spans[k].token)
    BY <2>2
  <2>4. b \in 0..Len(text) /\ 1..a \subseteq 1..b /\ a + 1 \in 1..b
    BY <1>0, <2>1, <2>3
  <2>5. OccursAt(spans[k].token, text, a + 1)
    BY DEF MarkersAt
  <2>6. Stand(spans, text, b, m \cup {k})
    <3>1. Stand(spans, text, a, m)
      BY <1>3, <1>p, <2>1
    <3>2. QED
      BY <2>4, <2>5, <3>1 DEF Stand
  <2>7. o \o spans[k].replacement \in Text
    <3>1. spans[k].replacement \in Text
      BY <2>2, SpanType
    <3>2. QED
      BY <3>1 DEF Text
  <2>8. m \cup {k} \in SUBSET DOMAIN spans
    BY <2>2
  <2>9. QED
    BY <1>p, <2>3, <2>4, <2>6, <2>7, <2>8
<1> HIDE DEF points
<1>4. Closed(spans, text, FALSE, points)
  BY <1>1, <1>2, <1>3, Zenon DEF Closed
<1>5. Point(at, out, met) \in points
  BY <1>4, Zenon DEF Reads
<1>6. QED
  BY <1>5 DEF points, Point

\* Of a text that was read to its end the spans are the ones met.
LEMMA AllIsRead ==
  ASSUME NEW spans \in SpanList, WellMarked(spans), NEW text \in Text, NEW out, NEW met,
         Reads(spans, text, FALSE, Len(text), out, met)
  PROVE  Scan(spans, text).spans = met
<1>1. PICK scan : IsScan(spans, text, scan) /\ Scan(spans, text) = scan[0]
  BY ScanIs
<1>2. Len(text) \in 0..Len(text) /\ Agrees(scan, Len(text), out, met)
  BY <1>1, ReadsScan
<1>3. scan[Len(text)] = [text |-> <<>>, spans |-> {}, once |-> TRUE]
  BY <1>1, <1>2 DEF IsScan, ScanFrom
<1>4. scan[Len(text)].spans = {}
  BY <1>3
<1>5. QED
  BY <1>1, <1>2, <1>4 DEF Agrees

\* What occurs in a part of a text occurs in the text.
LEMMA FrontOccurs ==
  ASSUME NEW S, NEW part \in Seq(S), NEW text \in Text, NEW n \in 0..Len(text),
         NEW i \in Nat, i > 0, OccursAt(part, SubSeq(text, 1, n), i), 0 < Len(part)
  PROVE  i \in 1..n /\ OccursAt(part, text, i)
<1> DEFINE front == SubSeq(text, 1, n)
<1>1. Len(text) \in Nat /\ Len(part) \in Nat /\ n \in Nat /\ text \in Seq(Symbols)
  BY DEF Text
<1>2. front \in Seq(Symbols) /\ Len(front) = n /\ \A j \in 1..n : front[j] = text[j]
  BY <1>1
<1> HIDE DEF front
<1>3. OccursAt(part, front, i) <=>
        i + Len(part) - 1 <= Len(front) /\ \A m \in 1..Len(part) : front[i + m - 1] = part[m]
  BY ONLY <1>2, part \in Seq(S), i \in Nat, i > 0, OccursSymbols
<1>4. OccursAt(part, text, i) <=>
        i + Len(part) - 1 <= Len(text) /\ \A m \in 1..Len(part) : text[i + m - 1] = part[m]
  BY ONLY <1>1, part \in Seq(S), i \in Nat, i > 0, OccursSymbols
<1>5. i + Len(part) - 1 <= n /\ \A m \in 1..Len(part) : front[i + m - 1] = part[m]
  BY <1>2, <1>3 DEF front
<1>6. i \in 1..n /\ i + Len(part) - 1 <= Len(text) /\ \A m \in 1..Len(part) : i + m - 1 \in 1..n
  BY <1>1, <1>5
<1>7. QED
  BY <1>2, <1>4, <1>5, <1>6

LEMMA RestOccurs ==
  ASSUME NEW S, NEW part \in Seq(S), NEW text \in Text, NEW at \in 0..Len(text),
         NEW i \in Nat, i > 0, OccursAt(part, Rest(text, at), i)
  PROVE  OccursAt(part, text, at + i)
<1> DEFINE rest == Rest(text, at)
<1>1. /\ rest \in Seq(Symbols) /\ Len(text) \in Nat /\ at \in Nat /\ Len(rest) \in Nat
      /\ at + Len(rest) = Len(text) /\ \A j \in 1..Len(rest) : rest[j] = text[at + j]
  BY RestType DEF Text
<1>2. Len(part) \in Nat /\ text \in Seq(Symbols) /\ at + i \in Nat /\ at + i > 0
  BY <1>1 DEF Text
<1> HIDE DEF rest
<1>3. OccursAt(part, rest, i) <=>
        i + Len(part) - 1 <= Len(rest) /\ \A m \in 1..Len(part) : rest[i + m - 1] = part[m]
  BY ONLY <1>1, part \in Seq(S), i \in Nat, i > 0, OccursSymbols
<1>4. OccursAt(part, text, at + i) <=>
        at + i + Len(part) - 1 <= Len(text) /\ \A m \in 1..Len(part) : text[at + i + m - 1] = part[m]
  BY ONLY <1>2, part \in Seq(S), OccursSymbols
<1>5. i + Len(part) - 1 <= Len(rest) /\ \A m \in 1..Len(part) : rest[i + m - 1] = part[m]
  BY <1>3 DEF rest
<1>6. at + i + Len(part) - 1 <= Len(text)
  BY <1>1, <1>2, <1>5
<1>7. \A m \in 1..Len(part) : i + m - 1 \in 1..Len(rest) /\ at + (i + m - 1) = at + i + m - 1
  BY <1>1, <1>2, <1>5
<1>8. \A m \in 1..Len(part) : text[at + i + m - 1] = part[m]
  BY <1>1, <1>5, <1>7
<1>9. QED
  BY <1>4, <1>6, <1>8

\* A prefix in what is passed on is one in what is pending ...
LEMMA PrefixInFront ==
  ASSUME NEW text \in Text, NEW n \in 0..Len(text), Occurs(PROTECTED_TOKEN_PREFIX, SubSeq(text, 1, n))
  PROVE  \E j \in 1..n : OccursAt(PROTECTED_TOKEN_PREFIX, text, j)
<1>1. PICK prefix, S : prefix = PROTECTED_TOKEN_PREFIX /\ prefix \in Seq(S) /\ Len(prefix) = 4
  BY PrefixType
<1>2. PICK j \in 1..Len(SubSeq(text, 1, n)) : OccursAt(prefix, SubSeq(text, 1, n), j)
  BY <1>1 DEF Occurs
<1>3. j \in Nat /\ j > 0 /\ 0 < Len(prefix)
  BY <1>1
<1>4. j \in 1..n /\ OccursAt(prefix, text, j)
  BY <1>1, <1>2, <1>3, FrontOccurs
<1>5. QED
  BY <1>1, <1>4

\* ... and in what was received.
LEMMA RefusedPrefix ==
  ASSUME RestorerInv, pc # "invalid", NEW j \in 1..Len(pending),
         OccursAt(PROTECTED_TOKEN_PREFIX, pending, j), MarkersAt(protected.spans, pending, j) = {}
  PROVE  \E i \in 1..Len(received) :
           /\ NoMarker(protected.spans, received, i)
           /\ Barred(protected.spans, pending, j) => NeverMarker(protected.spans, received, i)
<1>1. PICK at \in Nat : HasReadTo(at)
  BY DEF RestorerInv
<1>2. at \in 0..Len(received) /\ pending = Rest(received, at) /\ received \in Text
  BY <1>1 DEF HasReadTo, RestorerInv, RestorerType
<1>3. /\ Len(received) \in Nat /\ Len(pending) \in Nat /\ at + Len(pending) = Len(received)
      /\ j \in Nat /\ j > 0
  BY <1>2, RestType
<1>4. PICK i \in 1..Len(received) : i = at + j /\ i = Len(received) - Len(pending) + j
  <2>1. at + j \in 1..Len(received) /\ at + j = Len(received) - Len(pending) + j
    BY <1>3
  <2>2. QED
    BY <2>1
<1>5. OccursAt(PROTECTED_TOKEN_PREFIX, received, i)
  <2>1. PICK prefix, S : prefix = PROTECTED_TOKEN_PREFIX /\ prefix \in Seq(S)
    BY PrefixType
  <2>2. OccursAt(prefix, Rest(received, at), j)
    BY <1>2, <2>1
  <2>3. OccursAt(prefix, received, at + j)
    BY <1>2, <1>3, <2>1, <2>2, RestOccurs
  <2>4. QED
    BY <1>4, <2>1, <2>3
<1>6. /\ MarkersAt(protected.spans, received, i) = {}
      /\ Barred(protected.spans, pending, j) => Barred(protected.spans, received, i)
  BY <1>4, PendingIsFree
<1>7. QED
  BY <1>5, <1>6, Zenon DEF NoMarker, NeverMarker

\* With one span a marker that may still come is held back as a whole.
LEMMA HeldIsAll ==
  ASSUME protected.spans \in SpanList, Len(protected.spans) <= 1, pending \in Text,
         NEW j \in 1..(Len(pending) - longest_marker_prefix_suffix),
         MarkersAt(protected.spans, pending, j) = {}
  PROVE  Barred(protected.spans, pending, j)
<1> SUFFICES ASSUME ~Barred(protected.spans, pending, j) PROVE FALSE
  OBVIOUS
<1>1. PICK h \in Nat, size \in Nat : h = longest_marker_prefix_suffix /\ size = Len(pending) /\ h <= size
  BY HeldType
<1>2. j \in 1..(size - h) /\ j \in 1..size
  BY <1>1
<1>3. PICK l \in Spans :
        /\ Len(pending) - j + 1 < Len(Marker(l))
        /\ \A i \in 1..(Len(pending) - j + 1) : pending[j + i - 1] = Marker(l)[i]
  BY <1>1, <1>2, NotBarred DEF Marker, Spans
<1>4. PICK n \in Nat : n = size - j + 1 /\ 1 <= n /\ n <= size /\ h < n
  <2>1. size - j + 1 \in Nat /\ 1 <= size - j + 1 /\ size - j + 1 <= size /\ h < size - j + 1
    BY <1>1, <1>2
  <2>2. QED
    BY <2>1
<1>5. Marker(l) \in Text /\ Len(Marker(l)) \in Nat
  BY SpanType DEF Marker, Spans, Text
<1>6. n <= Len(Marker(l)) /\ \A i \in 1..n : pending[Len(pending) - n + i] = Marker(l)[i]
  <2>1. n = Len(pending) - j + 1 /\ \A i \in 1..n : Len(pending) - n + i = j + i - 1
    BY <1>1, <1>2, <1>4
  <2>2. n < Len(Marker(l)) /\ \A i \in 1..n : pending[j + i - 1] = Marker(l)[i]
    BY <1>3, <2>1
  <2>3. QED
    BY <1>4, <1>5, <2>1, <2>2
<1>7. n \in Overlaps(l)
  BY <1>1, <1>4, <1>6, OverlapSymbols
<1>8. PICK f \in Spans : \A m \in Overlaps(f) : m <= h
  BY <1>1, <1>7, HeldIs
<1>9. f = l
  <2>1. \A k \in Spans : k = 1
    BY DEF Spans, SpanList
  <2>2. QED
    BY <2>1
<1>10. QED
  BY <1>4, <1>7, <1>8, <1>9

LEMMA ReplaceRefuses == RestorerInv /\ replace_marker => RefusalIsRight
<1> SUFFICES ASSUME RestorerInv, replace_marker PROVE RefusalIsRight
  OBVIOUS
<1>1. /\ protected.spans \in SpanList /\ WellMarked(protected.spans) /\ received \in Text
      /\ pending \in Text /\ seen \in SUBSET Spans /\ pc \in {"push", "finish"}
  BY DEF RestorerInv, RestorerType, replace_marker
<1>2. PICK i \in 1..Len(pending), k \in Spans :
        /\ IsNextMarker(i, k)
        /\ pc' = "duplicate" => k \in seen
        /\ pc' = "invalid" => Occurs(PROTECTED_TOKEN_PREFIX, SubSeq(pending, 1, i - 1))
        /\ pc' \in {"duplicate", "invalid", pc}
  BY <1>1, Zenon DEF replace_marker
<1>3. PICK at \in Nat : HasReadTo(at)
  BY DEF RestorerInv
<1>4. at \in 0..Len(received) /\ pending = Rest(received, at)
  BY <1>1, <1>3 DEF HasReadTo
<1>5. /\ Len(received) \in Nat /\ Len(pending) \in Nat /\ at + Len(pending) = Len(received)
      /\ i \in Nat /\ i > 0
  BY <1>1, <1>4, RestType
<1>6. k \in DOMAIN protected.spans /\ Marker(k) = protected.spans[k].token /\ Marker(k) \in Text
  BY <1>1, SpanType DEF Marker, Spans
<1>7. OccursAt(Marker(k), pending, i) /\ \A j \in 1..(i - 1) : MarkersAt(protected.spans, pending, j) = {}
  BY <1>2 DEF IsNextMarker, MarkersAt, Marker, Spans
<1>8. ASSUME pc' = "duplicate"
      PROVE  \E l \in Spans, m \in 1..Len(received) :
               OccursAt(Marker(l), received, m) /\ \E j \in 1..(m - 1) : OccursAt(Marker(l), received, j)
  <2>1. OccursAt(Marker(k), received, at + i)
    <3>1. Marker(k) \in Seq(Symbols) /\ OccursAt(Marker(k), Rest(received, at), i)
      BY <1>4, <1>6, <1>7 DEF Text
    <3>2. QED
      BY <1>1, <1>4, <1>5, <3>1, RestOccurs
  <2>2. Reads(protected.spans, received, FALSE, at, output, seen)
    <3>1. Open = TRUE
      BY <1>1 DEF Open
    <3>2. Reads(protected.spans, received, TRUE, at, output, seen)
      BY <1>3, <3>1 DEF HasReadTo
    <3>3. QED
      BY <1>1, <3>2, ReadsWhole
  <2>3. Stand(protected.spans, received, at, seen)
    BY <1>1, <2>2, MetStand
  <2>4. PICK j \in 1..at : OccursAt(Marker(k), received, j)
    BY <1>2, <1>6, <1>8, <2>3, Zenon DEF Stand
  <2>5. at + i \in 1..Len(received) /\ j \in 1..(at + i - 1)
    BY <1>5
  <2>6. QED
    BY <2>1, <2>4, <2>5
<1>9. ASSUME pc' = "invalid"
      PROVE  \E m \in 1..Len(received) :
               NoMarker(protected.spans, received, m) /\ NeverMarker(protected.spans, received, m)
  <2>1. i - 1 \in 0..Len(pending) /\ pc # "invalid"
    BY <1>1, <1>5
  <2>2. PICK j \in 1..(i - 1) : OccursAt(PROTECTED_TOKEN_PREFIX, pending, j)
    BY <1>1, <1>2, <1>9, <2>1, PrefixInFront
  <2>3. j \in 1..Len(pending) /\ MarkersAt(protected.spans, pending, j) = {}
    BY <1>5, <1>7
  <2>4. Barred(protected.spans, pending, j)
    BY <1>1, <1>6, <1>7, <2>3, BarredBefore
  <2>5. QED
    BY <2>1, <2>2, <2>3, <2>4, RefusedPrefix
<1>10. pc' # "missing"
  BY <1>1, <1>2
<1>11. QED
  BY <1>8, <1>9, <1>10, Zenon DEF RefusalIsRight

LEMMA HoldRefuses == RestorerInv /\ hold_back => RefusalIsRight
<1> SUFFICES ASSUME RestorerInv, hold_back PROVE RefusalIsRight
  OBVIOUS
<1>1. /\ protected.spans \in SpanList /\ pending \in Text /\ pc \in {"push", "finish"}
  BY DEF RestorerInv, RestorerType, hold_back
<1>2. \A i \in 1..Len(pending) : MarkersAt(protected.spans, pending, i) = {}
  BY DEF hold_back, MarkersAt, Marker, Spans
<1>3. PICK n \in 0..Len(pending) : n = Len(pending) - longest_marker_prefix_suffix
  <2>1. Len(pending) - longest_marker_prefix_suffix \in 0..Len(pending)
    BY <1>1, HeldType
  <2>2. QED
    BY <2>1
<1>4. /\ pc' = "invalid" => Occurs(PROTECTED_TOKEN_PREFIX, SubSeq(pending, 1, n))
      /\ pc' \in {"invalid", "idle", "tail"}
  BY <1>3 DEF hold_back, append_plain_text
<1>5. ASSUME pc' = "invalid"
      PROVE  \E i \in 1..Len(received) :
               /\ NoMarker(protected.spans, received, i)
               /\ Len(protected.spans) <= 1 => NeverMarker(protected.spans, received, i)
  <2>1. PICK j \in 1..n : OccursAt(PROTECTED_TOKEN_PREFIX, pending, j)
    BY <1>1, <1>4, <1>5, PrefixInFront
  <2>2. j \in 1..Len(pending) /\ pc # "invalid" /\ MarkersAt(protected.spans, pending, j) = {}
    <3>1. Len(pending) \in Nat
      BY <1>1, HeldType
    <3>2. j \in 1..Len(pending)
      BY <3>1
    <3>3. QED
      BY <1>1, <1>2, <3>2
  <2>3. Len(protected.spans) <= 1 => Barred(protected.spans, pending, j)
    BY <1>1, <1>3, <2>2, HeldIsAll
  <2>4. QED
    BY <2>1, <2>2, <2>3, RefusedPrefix
<1>6. pc' # "duplicate" /\ pc' # "missing"
  BY <1>4
<1>7. QED
  BY <1>5, <1>6, Zenon DEF RefusalIsRight

LEMMA TailRefuses == RestorerInv /\ finish_tail => RefusalIsRight
<1> SUFFICES ASSUME RestorerInv, finish_tail PROVE RefusalIsRight
  OBVIOUS
<1>1. /\ protected.spans \in SpanList /\ WellMarked(protected.spans) /\ received \in Text
      /\ pending \in Text /\ pc = "tail" /\ pending' = <<>> /\ UNCHANGED <<protected, received, seen>>
  BY DEF RestorerInv, RestorerType, finish_tail
<1>2. /\ pc' = "invalid" => Occurs(PROTECTED_TOKEN_PREFIX, pending)
      /\ pc' = "missing" => seen # Spans
      /\ pc' \in {"invalid", "ok", "missing"}
  BY DEF finish_tail, append_plain_text
<1>3. ASSUME pc' = "invalid"
      PROVE  \E i \in 1..Len(received) : NoMarker(protected.spans, received, i)
  <2>1. Len(pending) \in 0..Len(pending) /\ SubSeq(pending, 1, Len(pending)) = pending
    BY <1>1, CutAtEnd
  <2>2. PICK j \in 1..Len(pending) : OccursAt(PROTECTED_TOKEN_PREFIX, pending, j)
    <3>1. Occurs(PROTECTED_TOKEN_PREFIX, SubSeq(pending, 1, Len(pending)))
      BY <1>2, <1>3, <2>1, Zenon
    <3>2. QED
      BY <1>1, <2>1, <3>1, PrefixInFront
  <2>3. MarkersAt(protected.spans, pending, j) = {}
    BY <1>1 DEF RestorerInv, TailIsPlain
  <2>4. pc # "invalid"
    BY <1>1
  <2>5. QED
    BY <2>2, <2>3, <2>4, RefusedPrefix
<1>4. ASSUME pc' = "missing"
      PROVE  Scan(protected.spans, received).spans # Spans
  <2>1. PICK at \in Nat : HasReadTo(at)'
    BY TailKeeps DEF RestorerInv
  <2>2. /\ at \in 0..Len(received) /\ Rest(received, at) = <<>>
        /\ Reads(protected.spans, received, FALSE, at, output', seen)
    <3>1. Open' = FALSE /\ pc' # "invalid"
      BY <1>4 DEF Open
    <3>2. QED
      BY <1>1, <2>1, <3>1 DEF HasReadTo
  <2>3. at = Len(received)
    BY <1>1, <2>2, EmptyText, RestType
  <2>4. Scan(protected.spans, received).spans = seen
    BY <1>1, <2>2, <2>3, AllIsRead
  <2>5. QED
    BY <1>2, <1>4, <2>4
<1>5. pc' # "duplicate" /\ pc # "push"
  BY <1>1, <1>2
<1>6. QED
  BY <1>3, <1>4, <1>5, Zenon DEF RefusalIsRight

LEMMA OnlyRightRefusals ==
  RestorerInv /\ [RestorerNext]_restorerVars => [RefusalIsRight]_restorerVars
<1> SUFFICES ASSUME RestorerInv, RestorerNext PROVE RefusalIsRight
  OBVIOUS
<1>1. ASSUME pc' \notin {"duplicate", "missing", "invalid"} PROVE RefusalIsRight
  BY <1>1, Zenon DEF RefusalIsRight
<1>2. ASSUME NEW delta \in Seq(STRING), push(delta) PROVE RefusalIsRight
  BY <1>1, <1>2 DEF push
<1>3. CASE finish
  BY <1>1, <1>3 DEF finish
<1>4. CASE push_unprotected
  BY <1>1, <1>4 DEF push_unprotected
<1>5. CASE replace_marker
  BY <1>5, ReplaceRefuses
<1>6. CASE hold_back
  BY <1>6, HoldRefuses
<1>7. CASE finish_tail
  BY <1>7, TailRefuses
<1>8. QED
  BY <1>2, <1>3, <1>4, <1>5, <1>6, <1>7 DEF RestorerNext, restore

\* However the answer is cut, it is refused for what it is: for a marker that
\* stands in it twice or is not met, or for a prefix without a marker, which
\* before the answer's end, and of a single span, can no longer become one.
THEOREM RefusalsAreDeserved == RestorerSpec => RefusalsAreRight
BY RestorerAlways, OnlyRightRefusals, PTL DEF RefusalsAreRight, RestorerSpec
=============================================================================
