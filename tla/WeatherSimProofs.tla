--------------------------- MODULE WeatherSimProofs ---------------------------
(***************************************************************************)
(* Machine-checked theorems about WeatherSim, for every graph, climate,    *)
(* configuration and knob the assumptions of the module allow.             *)
(***************************************************************************)
EXTENDS WeatherSim, TLAPS, FiniteSetTheorems

-----------------------------------------------------------------------------
(* One front's tick.                                                       *)

\* Clamping lands in the intensity range.
LEMMA ClampType ==
    ASSUME NEW x \in Int
    PROVE  Clamp(x) \in 0 .. Scale /\ (x >= 0 => Clamp(x) <= x)
BY KnobsAssumption DEF Clamp

\* The profile the climate gives any zone is a profile.
LEMMA ProfileAtType ==
    ASSUME NEW c \in Climates, NEW g \in Graphs, NEW z \in Zones
    PROVE  \E b \in DOMAIN c : ProfileAt(c, g, z) = c[b] /\ Profile(ProfileAt(c, g, z))
BY ClimatesAssumption DEF ProfileAt

\* Recording a zone keeps the history a sequence of zones.
LEMMA AppendBoundedType ==
    ASSUME NEW h \in Seq(Zones), NEW z \in Zones
    PROVE  AppendBounded(h, z) \in Seq(Zones)
<1>1. Append(h, z) \in Seq(Zones) /\ Len(Append(h, z)) = Len(h) + 1
  OBVIOUS
<1>2. CASE HistoryLen > 0 /\ Len(Append(h, z)) > HistoryLen
  <2> DEFINE long == Append(h, z)
             from == Len(long) - HistoryLen + 1
  <2>1. from \in Int /\ from >= 1 /\ Len(long) \in Nat
    BY <1>1, <1>2, KnobsAssumption
  <2>2. AppendBounded(h, z) = SubSeq(long, from, Len(long))
    BY <1>2 DEF AppendBounded
  <2>3. long \in Seq(Zones)
    BY <1>1
  <2> HIDE DEF long, from
  <2>4. SubSeq(long, from, Len(long)) \in Seq(Zones)
    BY <2>1, <2>3, SMTT(30)
  <2>5. QED
    BY <2>2, <2>4
<1>3. QED
  BY <1>1, <1>2 DEF AppendBounded

\* Aging keeps a front a front, and changes its age and intensity only.
LEMMA AgedType ==
    ASSUME NEW c \in Climates, NEW g \in Graphs, NEW f \in Front
    PROVE  /\ Aged(c, g, f) \in Front
           /\ Aged(c, g, f).age = f.age + 1
           /\ Aged(c, g, f).maxAge = f.maxAge
           /\ Aged(c, g, f).zone = f.zone
<1> DEFINE d == ProfileAt(c, g, f.zone).delta
           decay == AgeDecay(f.age + 1, f.maxAge)
<1>1. f.zone \in Zones /\ f.age \in Nat /\ f.maxAge \in Nat /\ f.intensity \in 0 .. Scale
  BY DEF Front
<1>2. d \in Int
  BY <1>1, ProfileAtType DEF Profile
<1>3. decay \in Int
  BY <1>1, KnobsAssumption DEF AgeDecay
<1>4. Clamp(f.intensity + d - decay) \in 0 .. Scale
  BY <1>1, <1>2, <1>3, ClampType
<1>5. Aged(c, g, f) = [f EXCEPT !.age = f.age + 1, !.intensity = Clamp(f.intensity + d - decay)]
  BY DEF Aged
<1> HIDE DEF d, decay
<1>6. QED
  <2> DEFINE a == f.age + 1
             x == Clamp(f.intensity + d - decay)
  <2>1. a \in Nat /\ x \in 0 .. Scale
    BY <1>1, <1>4
  <2>2. Aged(c, g, f) = [f EXCEPT !.age = a, !.intensity = x]
    BY <1>5
  <2> HIDE DEF a, x
  <2>3. Aged(c, g, f) \in Front
    BY <2>1, <2>2 DEF Front
  <2>4. Aged(c, g, f).age = a /\ Aged(c, g, f).maxAge = f.maxAge /\ Aged(c, g, f).zone = f.zone
    BY <2>2 DEF Front
  <2>5. QED
    BY <2>3, <2>4 DEF a

\* A zone with neighbours is in the graph, and so are its neighbours' names.
LEMMA NeighboursType ==
    ASSUME NEW g \in Graphs, NEW z \in Zones
    PROVE  g.nbrs[z] \in SUBSET Zones
BY GraphsAssumption DEF IsZoneGraph

\* Movement keeps a front a front, and takes it one hop at most.
LEMMA MovedType ==
    ASSUME NEW c \in Climates, NEW g \in Graphs, NEW f \in Front, NEW m \in Moved(c, g, f)
    PROVE  /\ m \in Front
           /\ m.age = f.age /\ m.maxAge = f.maxAge /\ m.intensity = f.intensity
           /\ m.zone \in {f.zone} \cup g.nbrs[f.zone]
<1> DEFINE path == AppendBounded(f.history, f.zone)
<1>1. f.zone \in Zones /\ path \in Seq(Zones)
  BY AppendBoundedType DEF Front
<1> HIDE DEF path
<1>2. CASE m = f
  BY <1>2
<1>3. CASE m = [f EXCEPT !.history = path]
  BY <1>1, <1>3 DEF Front
<1>4. ASSUME NEW z \in g.nbrs[f.zone], m = [f EXCEPT !.zone = z, !.history = path]
      PROVE  /\ m \in Front
             /\ m.age = f.age /\ m.maxAge = f.maxAge /\ m.intensity = f.intensity
             /\ m.zone \in {f.zone} \cup g.nbrs[f.zone]
  <2>1. z \in Zones
    BY <1>1, NeighboursType
  <2>2. m \in Front
    BY <1>1, <1>4, <2>1 DEF Front
  <2>3. m.age = f.age /\ m.maxAge = f.maxAge /\ m.intensity = f.intensity /\ m.zone = z
    BY <1>4 DEF Front
  <2>4. QED
    BY <2>2, <2>3
<1>5. Destinations(g, f) \subseteq g.nbrs[f.zone]
  BY DEF Destinations
<1>6. \/ m = f
      \/ m = [f EXCEPT !.history = path]
      \/ \E z \in g.nbrs[f.zone] : m = [f EXCEPT !.zone = z, !.history = path]
  BY <1>5 DEF Moved, path
<1>7. QED
  BY <1>2, <1>3, <1>4, <1>6

\* What can be drawn is a weather type, or the current one.
LEMMA DrawableType ==
    ASSUME NEW p, Profile(p), NEW t, NEW bias
    PROVE  Drawable(p, t, bias) \subseteq WeatherTypes \cup {t}
BY DEF Drawable, Profile

\* Re-rolling the type changes nothing else.
LEMMA EvolvedType ==
    ASSUME NEW c \in Climates, NEW g \in Graphs, NEW f \in Front, NEW e \in Evolved(c, g, f)
    PROVE  /\ e \in Front
           /\ e.age = f.age /\ e.maxAge = f.maxAge /\ e.intensity = f.intensity
           /\ e.zone = f.zone
<1>1. f.zone \in Zones /\ f.type \in WeatherTypes
  BY DEF Front
<1>2. Drawable(ProfileAt(c, g, f.zone), f.type, KeepBias) \subseteq WeatherTypes
  BY <1>1, ProfileAtType, DrawableType
<1>3. e = f \/ \E t \in WeatherTypes : e = [f EXCEPT !.type = t]
  BY <1>2 DEF Evolved
<1>4. QED
  BY <1>3 DEF Front

\* One tick ages a front by one, moves it one hop at most, and gives it the
\* intensity of its aging.
LEMMA AdvancedType ==
    ASSUME NEW c \in Climates, NEW g \in Graphs, NEW f \in Front, NEW n \in Advanced(c, g, f)
    PROVE  /\ n \in Front
           /\ n.age = f.age + 1 /\ n.maxAge = f.maxAge
           /\ n.intensity = Aged(c, g, f).intensity
           /\ n.zone \in {f.zone} \cup g.nbrs[f.zone]
<1>1. PICK m \in Moved(c, g, Aged(c, g, f)) : n \in Evolved(c, g, m)
  BY DEF Advanced
<1>2. Aged(c, g, f) \in Front
  BY AgedType
<1>3. /\ m \in Front
      /\ m.age = f.age + 1 /\ m.maxAge = f.maxAge
      /\ m.intensity = Aged(c, g, f).intensity
      /\ m.zone \in {f.zone} \cup g.nbrs[f.zone]
  BY <1>2, AgedType, MovedType
<1>4. QED
  BY <1>1, <1>3, EvolvedType

-----------------------------------------------------------------------------
(* Area coverage.                                                          *)

\* A smaller subset is below a larger one in the library's ordering.
LEMMA StrictSubset ==
    ASSUME NEW S, NEW A \in SUBSET S, NEW B \in SUBSET S, B \subseteq A, B # A
    PROVE  <<B, A>> \in StrictSubsetOrdering(S)
BY DEF StrictSubsetOrdering

\* Among finitely many ids one has the highest value, and is the lowest id
\* that has it.  (The set of ids that beat an id is taken minimal.)
LEMMA HighestExists ==
    ASSUME NEW S \in SUBSET Nat, IsFiniteSet(S), S # {},
           NEW value, \A s \in S : value[s] \in Int
    PROVE  \E m \in S : \A k \in S :
                value[m] > value[k] \/ (value[m] = value[k] /\ m <= k)
<1> DEFINE Beats(a, b) == value[a] > value[b] \/ (value[a] = value[b] /\ a < b)
           Above(x) == {y \in S : Beats(y, x)}
<1>1. \A x \in S, y \in S, z \in S : Beats(x, y) /\ Beats(y, z) => Beats(x, z)
  OBVIOUS
<1>2. \A x \in S : ~Beats(x, x)
  OBVIOUS
<1>3. \A x \in S, y \in S : Beats(x, y) \/ value[y] > value[x] \/ (value[y] = value[x] /\ y <= x)
  OBVIOUS
<1> HIDE DEF Beats
<1> DEFINE T == {Above(x) : x \in S}
<1>4. T \in SUBSET (SUBSET S) /\ T # {}
  OBVIOUS
<1>5. IsWellFoundedOn(StrictSubsetOrdering(S), SUBSET S)
  BY FS_FiniteSubsetsOfFinite, FS_StrictSubsetOrderingWellFounded
<1>6. PICK A \in T : \A B \in T : ~ (<<B, A>> \in StrictSubsetOrdering(S))
  BY <1>4, <1>5, WFMin
<1>7. PICK m \in S : A = Above(m)
  BY <1>6
<1>8. ASSUME NEW k \in S, Beats(k, m) PROVE FALSE
  <2>1. Above(k) \subseteq Above(m)
    BY <1>1, <1>8
  <2>2. k \in Above(m) /\ k \notin Above(k)
    BY <1>2, <1>8
  <2>3. Above(k) \in SUBSET S /\ Above(m) \in SUBSET S /\ Above(k) # Above(m)
    BY <2>2
  <2>4. <<Above(k), Above(m)>> \in StrictSubsetOrdering(S)
    BY <2>1, <2>3, StrictSubset
  <2>5. QED
    BY <1>6, <1>7, <2>4
<1>9. QED
  BY <1>3, <1>8

\* The population Claims and Covering are given: finitely many fronts.
Population(fs) ==
    /\ DOMAIN fs \subseteq Nat /\ IsFiniteSet(DOMAIN fs)
    /\ \A i \in DOMAIN fs : fs[i] \in Front

\* A zone in reach has a hop distance, within the radius.
LEMMA HopsType ==
    ASSUME NEW ball, NEW z, z \in ball[MaxFrontRadius]
    PROVE  Hops(ball, z) \in 0 .. MaxFrontRadius
<1> DEFINE D == {d \in 0 .. MaxFrontRadius : z \in ball[d]}
           nearness == [d \in D |-> -d]
<1>1. D \in SUBSET Nat /\ D # {} /\ \A d \in D : nearness[d] \in Int
  BY KnobsAssumption
<1>2. IsFiniteSet(D)
  <2>1. IsFiniteSet(0 .. MaxFrontRadius)
    BY FS_Interval, KnobsAssumption
  <2>2. QED
    BY <2>1, FS_Subset
<1>3. PICK m \in D : \A k \in D :
            nearness[m] > nearness[k] \/ (nearness[m] = nearness[k] /\ m <= k)
  <2> HIDE DEF D, nearness
  <2> QED
    BY <1>1, <1>2, HighestExists
<1>4. m > 0 => m - 1 \notin D
  <2> SUFFICES ASSUME m > 0, m - 1 \in D PROVE FALSE
    OBVIOUS
  <2>1. nearness[m] = -m /\ nearness[m - 1] = -(m - 1) /\ m \in Nat
    OBVIOUS
  <2>2. QED
    BY <1>3, <2>1
<1>5. m \in 0 .. MaxFrontRadius /\ z \in ball[m] /\ (m > 0 => z \notin ball[m - 1])
  BY <1>4, KnobsAssumption
<1>6. QED
  BY <1>5 DEF Hops

\* A claim is a front of the population, with an integer strength that covers.
LEMMA ClaimsType ==
    ASSUME NEW g, NEW fs, Population(fs), NEW z
    PROVE  /\ DOMAIN Claims(g, fs, z) \subseteq DOMAIN fs
           /\ \A i \in DOMAIN Claims(g, fs, z) :
                /\ Claims(g, fs, z)[i] \in Int
                /\ Claims(g, fs, z)[i] >= CoverThreshold
                /\ z \in ZonesWithin(g, fs[i].zone)[MaxFrontRadius]
                /\ Claims(g, fs, z)[i] =
                        Projected(fs[i].intensity, Hops(ZonesWithin(g, fs[i].zone), z))
<1> DEFINE ball(i) == ZonesWithin(g, fs[i].zone)
           reaching == {i \in DOMAIN fs : z \in ball(i)[MaxFrontRadius]}
           eff == [i \in reaching |-> Projected(fs[i].intensity, Hops(ball(i), z))]
<1>1. \A i \in reaching : eff[i] \in Int
  <2> SUFFICES ASSUME NEW i \in reaching PROVE eff[i] \in Int
    OBVIOUS
  <2>1. Hops(ball(i), z) \in 0 .. MaxFrontRadius
    BY HopsType
  <2>2. fs[i].intensity \in Nat
    BY KnobsAssumption DEF Population, Front
  <2>3. Projected(fs[i].intensity, Hops(ball(i), z)) \in Int
    <3> HIDE DEF ball
    <3> QED
      BY <2>1, <2>2, KnobsAssumption DEF Projected
  <2>4. QED
    BY <2>3
<1>2. Claims(g, fs, z) = [i \in {j \in reaching : eff[j] >= CoverThreshold} |-> eff[i]]
  BY DEF Claims
<1>3. QED
  BY <1>1, <1>2

\* Wherever there is a claim, one of them wins.
LEMMA WinnerExists ==
    ASSUME NEW g, NEW fs, Population(fs), NEW z, DOMAIN Claims(g, fs, z) # {}
    PROVE  \E i \in DOMAIN Claims(g, fs, z) : Wins(Claims(g, fs, z), i)
<1> DEFINE claims == Claims(g, fs, z)
<1>1. DOMAIN claims \in SUBSET Nat /\ IsFiniteSet(DOMAIN claims)
  BY ClaimsType, FS_Subset DEF Population
<1>2. \A i \in DOMAIN claims : claims[i] \in Int
  BY ClaimsType
<1> HIDE DEF claims
<1>3. DOMAIN claims # {}
  BY DEF claims
<1>4. QED
  BY <1>1, <1>2, <1>3, HighestExists DEF Wins, claims

\* The resolved weather gives every zone of the graph a weather type.
LEMMA ResolveType ==
    ASSUME NEW g, NEW fs, Population(fs)
    PROVE  ResolveWeather(g, fs) \in [g.nodes -> WeatherTypes]
<1> SUFFICES ASSUME NEW z \in g.nodes
             PROVE  ResolveWeather(g, fs)[z] \in WeatherTypes
  BY DEF ResolveWeather
<1> DEFINE claims == Claims(g, fs, z)
           winner == CHOOSE i \in DOMAIN claims : Wins(claims, i)
<1>1. ResolveWeather(g, fs)[z] = IF DOMAIN claims = {} THEN Clear ELSE fs[winner].type
  BY DEF ResolveWeather
<1>2. DOMAIN claims # {} => winner \in DOMAIN fs
  BY WinnerExists, ClaimsType
<1> HIDE DEF winner, claims
<1>3. DOMAIN claims # {} => fs[winner].type \in WeatherTypes
  BY <1>2 DEF Population, Front
<1>4. QED
  BY <1>1, <1>3, NamesAssumption

-----------------------------------------------------------------------------
(* Type correctness.                                                       *)

\* Ids in use have been issued: nextID is above every one of them.
IdsIssued == DOMAIN fronts \subseteq 1 .. nextID - 1

\* A population whose ids have been issued is finite.
LEMMA PopulationFinite ==
    ASSUME TypeOK, IdsIssued
    PROVE  Population(fronts)
<1>1. IsFiniteSet(1 .. nextID - 1)
  BY FS_Interval DEF TypeOK
<1>2. IsFiniteSet(DOMAIN fronts)
  BY <1>1, FS_Subset DEF IdsIssued
<1>3. QED
  BY <1>2 DEF TypeOK, Population

\* A spawned front is a front, of age 0 and positive intensity.
LEMMA NewbornType ==
    ASSUME NEW c \in Climates, graph \in Graphs, NEW f \in Newborns(c)
    PROVE  f \in Front /\ f.age = 0 /\ f.intensity > 0 /\ f.maxAge \in Nat
<1>1. SpawnZones(c) \subseteq Zones
  BY GraphsAssumption DEF SpawnZones, IsZoneGraph
<1>2. PICK t \in WeatherTypes, z \in Zones, x \in SpawnIntensities, m \in SpawnMaxAges :
        f = [type |-> t, zone |-> z, intensity |-> x, age |-> 0, maxAge |-> m, history |-> <<>>]
  BY <1>1 DEF Newborns
<1>3. x \in 1 .. Scale /\ m \in Nat
  BY KnobsAssumption
<1>4. QED
  BY <1>2, <1>3 DEF Front

\* So is a forced one.
LEMMA ForcedType ==
    ASSUME NEW t \in WeatherTypes, NEW z \in Zones, NEW x \in Int
    PROVE  [type |-> t, zone |-> z, intensity |-> ForcedIntensity(x),
            age |-> 0, maxAge |-> ForcedMaxAge, history |-> <<>>] \in Front
           /\ ForcedIntensity(x) > 0
<1>1. ForcedIntensity(x) \in 1 .. Scale
  BY KnobsAssumption DEF ForcedIntensity, Clamp
<1>2. QED
  BY <1>1, KnobsAssumption DEF Front

\* After a tick every front is a living descendant of a front of the same id,
\* or the one newcomer, which has taken the next id.
LEMMA TickFronts ==
    ASSUME NEW c \in Climates, NEW next \in AdvancedFronts(c),
           SpawnFronts(c, RemoveDead(next))
    PROVE  /\ \A i \in DOMAIN fronts' :
                \/ /\ i \in DOMAIN fronts
                   /\ fronts'[i] \in Advanced(c, graph, fronts[i])
                   /\ Alive(fronts'[i])
                \/ /\ i = nextID /\ nextID' = nextID + 1
                   /\ fronts'[i] \in Newborns(c)
           /\ \/ nextID' = nextID
              \/ nextID' = nextID + 1 /\ nextID \in DOMAIN fronts'
<1> DEFINE live == RemoveDead(next)
<1>1. DOMAIN next = DOMAIN fronts /\ \A i \in DOMAIN fronts : next[i] \in Advanced(c, graph, fronts[i])
  BY DEF AdvancedFronts
<1>2. /\ DOMAIN live \subseteq DOMAIN fronts
      /\ \A i \in DOMAIN live : live[i] \in Advanced(c, graph, fronts[i]) /\ Alive(live[i])
  BY <1>1 DEF RemoveDead, Keep
<1> HIDE DEF live
<1>3. CASE fronts' = live /\ nextID' = nextID
  BY <1>2, <1>3
<1>4. ASSUME NEW f \in Newborns(c), fronts' = Extend(live, nextID, f), nextID' = nextID + 1
      PROVE  /\ \A i \in DOMAIN fronts' :
                \/ /\ i \in DOMAIN fronts
                   /\ fronts'[i] \in Advanced(c, graph, fronts[i])
                   /\ Alive(fronts'[i])
                \/ /\ i = nextID /\ nextID' = nextID + 1
                   /\ fronts'[i] \in Newborns(c)
             /\ nextID \in DOMAIN fronts'
  BY <1>2, <1>4 DEF Extend
<1>5. QED
  BY <1>3, <1>4 DEF SpawnFronts, live

\* What an action must say of the fronts for the invariant to survive it.
LEMMA ResolvedType ==
    ASSUME graph \in Graphs, graph' = graph, cfg \in Configs, cfg' = cfg,
           nextID' \in Nat \ {0}, DOMAIN fronts' \subseteq 1 .. nextID' - 1,
           \A i \in DOMAIN fronts' : fronts'[i] \in Front, Resolve
    PROVE  TypeOK' /\ IdsIssued'
<1>1. IsFiniteSet(1 .. nextID' - 1)
  BY FS_Interval
<1>2. Population(fronts')
  BY <1>1, FS_Subset DEF Population
<1>3. weather' \in [graph.nodes -> WeatherTypes] /\ resolvedOn' = graph
  BY <1>2, ResolveType DEF Resolve
<1>4. QED
  BY <1>3 DEF TypeOK, IdsIssued

\* The initial states are typed.
LEMMA InitType == Init => TypeOK /\ IdsIssued
BY DEF Init, TypeOK, IdsIssued

\* Every step keeps the types and the ids.
LEMMA NextType == TypeOK /\ IdsIssued /\ [Next]_vars => TypeOK' /\ IdsIssued'
<1> SUFFICES ASSUME TypeOK, IdsIssued, [Next]_vars PROVE TypeOK' /\ IdsIssued'
  OBVIOUS
<1>0. graph \in Graphs /\ cfg \in Configs /\ nextID \in Nat \ {0}
  BY DEF TypeOK
<1>1. CASE Tick
  <2>0. PICK c \in Climates : \E next \in AdvancedFronts(c) : SpawnFronts(c, RemoveDead(next))
    BY <1>1 DEF Tick
  <2>1. PICK next \in AdvancedFronts(c) : SpawnFronts(c, RemoveDead(next))
    BY <2>0
  <2>2. nextID' \in Nat \ {0} /\ nextID <= nextID'
    BY <1>0, <2>1, TickFronts
  <2>3. DOMAIN fronts' \subseteq 1 .. nextID' - 1
    BY <1>0, <2>1, <2>2, TickFronts DEF IdsIssued
  <2>4. \A i \in DOMAIN fronts' : fronts'[i] \in Front
    BY <1>0, <2>1, TickFronts, AdvancedType, NewbornType DEF TypeOK
  <2>5. QED
    BY <1>0, <1>1, <2>2, <2>3, <2>4, ResolvedType DEF Tick
<1>2. CASE ForceSpawn
  <2>1. PICK z \in graph.nodes, t \in WeatherTypes, x \in ForcedIntensities :
          fronts' = Extend(fronts, nextID,
                      [type |-> t, zone |-> z, intensity |-> ForcedIntensity(x),
                       age |-> 0, maxAge |-> ForcedMaxAge, history |-> <<>>])
    BY <1>2 DEF ForceSpawn
  <2>2. z \in Zones /\ x \in Int
    BY <1>0, GraphsAssumption, KnobsAssumption DEF IsZoneGraph
  <2>3. \A i \in DOMAIN fronts' : fronts'[i] \in Front
    BY <2>1, <2>2, ForcedType DEF Extend, TypeOK
  <2>4. nextID' = nextID + 1 /\ DOMAIN fronts' = DOMAIN fronts \cup {nextID}
    BY <1>2, <2>1 DEF ForceSpawn, Extend
  <2>5. DOMAIN fronts' \subseteq 1 .. nextID' - 1
    BY <1>0, <2>4 DEF IdsIssued
  <2>6. QED
    BY <1>0, <1>2, <2>3, <2>4, <2>5, ResolvedType DEF ForceSpawn
<1>3. CASE ClearAll
  BY <1>0, <1>3, ResolvedType DEF ClearAll
<1>4. ASSUME NEW z \in graph.nodes, ClearZone(z)
      PROVE  TypeOK' /\ IdsIssued'
  <2>1. /\ DOMAIN fronts' \subseteq DOMAIN fronts
        /\ \A i \in DOMAIN fronts' : fronts'[i] = fronts[i]
    BY <1>4 DEF ClearZone, Keep
  <2>2. \A i \in DOMAIN fronts' : fronts'[i] \in Front
    BY <2>1 DEF TypeOK
  <2>3. nextID' = nextID /\ DOMAIN fronts' \subseteq 1 .. nextID' - 1
    BY <1>4, <2>1 DEF ClearZone, IdsIssued
  <2>4. QED
    BY <1>0, <1>4, <2>2, <2>3, ResolvedType DEF ClearZone
<1>5. CASE Rebuild
  BY <1>5 DEF Rebuild, simState, TypeOK, IdsIssued
<1>6. CASE Reconfigure
  BY <1>6 DEF Reconfigure, simState, TypeOK, IdsIssued
<1>7. CASE UNCHANGED vars
  BY <1>7 DEF vars, simState, TypeOK, IdsIssued
<1>8. QED
  BY <1>1, <1>2, <1>3, <1>4, <1>5, <1>6, <1>7 DEF Next

\* Every variable always holds a value of its kind, and every id in use has
\* been issued: whatever the generator, the climate and the admins do, the
\* population stays a finite map of well-formed fronts.
THEOREM TypeCorrect == Spec => [](TypeOK /\ IdsIssued)
<1>1. Init => TypeOK /\ IdsIssued
  BY InitType
<1>2. (TypeOK /\ IdsIssued) /\ [Next]_vars => (TypeOK /\ IdsIssued)'
  BY NextType
<1>3. QED
  BY <1>1, <1>2, PTL DEF Spec

-----------------------------------------------------------------------------
(* Bounded lives.                                                          *)

\* What BoundedLives says of one front.
BoundedLife(f) ==
    /\ f.intensity > 0
    /\ FrontHardAge > 0 => f.age <= FrontHardAge
    /\ f.maxAge > 0 /\ f.age - f.maxAge - Grace > 0
            => f.intensity <= Scale - (f.age - f.maxAge - Grace)

\* Past the grace period the decay outweighs what any zone feeds the front.
LEMMA GraceType ==
    /\ Grace \in 0 .. Scale
    /\ \A c \in Climates, g \in Graphs, z \in Zones :
            ProfileAt(c, g, z).delta < AgePenalty * (Grace + 1)
<1>1. Grace \in 0 .. Scale /\ IsGrace(Grace)
  BY GraceAssumption DEF Grace
<1>2. QED
  BY <1>1, ProfileAtType DEF IsGrace

\* A larger factor gives a larger product: the only nonlinear step.
LEMMA ProductMonotone ==
    ASSUME NEW k \in Nat, NEW a \in Int, NEW b \in Int, a <= b
    PROVE  k * a <= k * b
OBVIOUS

\* A front still alive after a tick has lived within its bounds.
LEMMA AgedBounded ==
    ASSUME NEW c \in Climates, NEW g \in Graphs, NEW f \in Front, BoundedLife(f),
           NEW n \in Advanced(c, g, f), Alive(n)
    PROVE  BoundedLife(n)
<1> DEFINE d == ProfileAt(c, g, f.zone).delta
           decay == AgeDecay(f.age + 1, f.maxAge)
<1>1. /\ n.age = f.age + 1 /\ n.maxAge = f.maxAge
      /\ n.intensity = Clamp(f.intensity + d - decay)
  <2>1. Aged(c, g, f).intensity = Clamp(f.intensity + d - decay)
    BY DEF Aged, Front
  <2>2. QED
    BY <2>1, AdvancedType
<1>2. /\ f.zone \in Zones /\ f.age \in Nat /\ f.maxAge \in Nat
      /\ f.intensity \in Int /\ f.intensity <= Scale /\ Scale \in Nat
      /\ AgePenalty \in Nat /\ Grace \in Nat
  BY KnobsAssumption, GraceType DEF Front
<1>3. d \in Int /\ d < AgePenalty * (Grace + 1)
  BY <1>2, ProfileAtType, GraceType DEF Profile
<1>4. n.intensity > 0 /\ (FrontHardAge > 0 => n.age <= FrontHardAge)
  BY DEF Alive
<1> HIDE DEF d
<1>5. ASSUME n.maxAge > 0, n.age - n.maxAge - Grace > 0
      PROVE  n.intensity <= Scale - (n.age - n.maxAge - Grace)
  <2>1. f.maxAge > 0 /\ f.age + 1 > f.maxAge /\ f.age + 1 - f.maxAge >= Grace + 1
    BY <1>1, <1>2, <1>5
  <2>2. decay = AgePenalty * (f.age + 1 - f.maxAge)
    BY <1>2, <2>1 DEF AgeDecay
  <2>3. AgePenalty * (Grace + 1) <= AgePenalty * (f.age + 1 - f.maxAge)
    BY <1>2, <2>1, ProductMonotone
  <2>4. decay \in Int /\ AgePenalty * (Grace + 1) \in Int
    BY <1>2, <2>2
  <2> HIDE DEF decay
  <2>5. d - decay <= -1
    BY <1>3, <2>2, <2>3, <2>4
  <2>6. f.intensity + d - decay \in Int
    BY <1>2, <1>3, <2>4
  <2>7. n.intensity <= f.intensity + d - decay
    BY <1>1, <1>2, <1>4, <2>6 DEF Clamp
  <2>8. n.intensity <= f.intensity - 1
    BY <1>2, <1>3, <2>4, <2>5, <2>7, <1>1, <2>6, ClampType
  <2>9. n.intensity \in Int
    BY <1>1, <2>6, ClampType
  <2>10. CASE f.age - f.maxAge - Grace > 0
    BY <1>1, <1>2, <2>1, <2>8, <2>9, <2>10 DEF BoundedLife
  <2>11. CASE f.age - f.maxAge - Grace = 0
    BY <1>1, <1>2, <2>8, <2>9, <2>11
  <2>12. QED
    BY <1>2, <2>1, <2>10, <2>11
<1>6. QED
  BY <1>4, <1>5 DEF BoundedLife

\* A front that has just been made has its life before it.
LEMMA FreshBounded ==
    ASSUME NEW f \in Front, f.age = 0, f.intensity > 0
    PROVE  BoundedLife(f)
BY GraceType, KnobsAssumption DEF BoundedLife, Front

\* No front survives its caps: between ticks no dead front is listed, none is
\* older than the hard cap, and even with the hard cap disabled each tick past
\* the soft cap and its grace period weakens a front, so that none is older
\* than maxAge + Grace + Scale (ageAndFeedback, removeDead).
THEOREM LivesBounded == Spec => []BoundedLives
<1>1. Init => BoundedLives
  BY DEF Init, BoundedLives
<1>2. TypeOK /\ IdsIssued /\ BoundedLives /\ [Next]_vars => BoundedLives'
  <2> SUFFICES ASSUME TypeOK, IdsIssued, BoundedLives, [Next]_vars,
                      NEW i \in DOMAIN fronts'
               PROVE  BoundedLife(fronts'[i])
    BY DEF BoundedLives, BoundedLife
  <2>0. /\ graph \in Graphs
        /\ \A j \in DOMAIN fronts : fronts[j] \in Front /\ BoundedLife(fronts[j])
    BY DEF TypeOK, BoundedLives, BoundedLife
  <2>1. CASE Tick
    <3>0. PICK c \in Climates : \E next \in AdvancedFronts(c) : SpawnFronts(c, RemoveDead(next))
      BY <2>1 DEF Tick
    <3>1. PICK next \in AdvancedFronts(c) : SpawnFronts(c, RemoveDead(next))
      BY <3>0
    <3>2. QED
      BY <2>0, <3>1, TickFronts, AgedBounded, FreshBounded, NewbornType
  <2>2. CASE ForceSpawn
    <3>1. PICK z \in graph.nodes, t \in WeatherTypes, x \in ForcedIntensities :
            fronts' = Extend(fronts, nextID,
                        [type |-> t, zone |-> z, intensity |-> ForcedIntensity(x),
                         age |-> 0, maxAge |-> ForcedMaxAge, history |-> <<>>])
      BY <2>2 DEF ForceSpawn
    <3>2. z \in Zones /\ x \in Int
      BY <2>0, GraphsAssumption, KnobsAssumption DEF IsZoneGraph
    <3>3. BoundedLife([type |-> t, zone |-> z, intensity |-> ForcedIntensity(x),
                       age |-> 0, maxAge |-> ForcedMaxAge, history |-> <<>>])
      BY <3>2, ForcedType, FreshBounded
    <3>4. QED
      BY <2>0, <3>1, <3>3 DEF Extend
  <2>3. CASE ClearAll
    BY <2>3 DEF ClearAll
  <2>4. ASSUME NEW z \in graph.nodes, ClearZone(z)
        PROVE  BoundedLife(fronts'[i])
    BY <2>0, <2>4 DEF ClearZone, Keep
  <2>5. CASE Rebuild \/ Reconfigure \/ UNCHANGED vars
    BY <2>0, <2>5 DEF Rebuild, Reconfigure, vars, simState
  <2>6. QED
    BY <2>1, <2>2, <2>3, <2>4, <2>5 DEF Next
<1>3. QED
  BY <1>1, <1>2, TypeCorrect, PTL DEF Spec

\* So every front has an end in sight from the moment it is made: with the hard
\* cap off, too, an age it does not reach (ageAndFeedback, removeDead).
THEOREM EndInSight ==
    Spec => [](\A i \in DOMAIN fronts :
                   fronts[i].maxAge > 0 => fronts[i].age < fronts[i].maxAge + Grace + Scale)
<1> DEFINE EndOf(f) == f.maxAge > 0 => f.age < f.maxAge + Grace + Scale
<1>1. TypeOK /\ BoundedLives => \A i \in DOMAIN fronts : EndOf(fronts[i])
  <2> SUFFICES ASSUME TypeOK, BoundedLives, NEW i \in DOMAIN fronts PROVE EndOf(fronts[i])
    OBVIOUS
  <2> DEFINE f == fronts[i]
  <2>1. /\ f.age \in Nat /\ f.maxAge \in Nat /\ f.intensity \in 0 .. Scale
        /\ f.intensity > 0
        /\ f.maxAge > 0 /\ f.age - f.maxAge - Grace > 0 =>
               f.intensity <= Scale - (f.age - f.maxAge - Grace)
    BY DEF TypeOK, Front, BoundedLives
  <2> QED  BY <2>1, GraceType, KnobsAssumption
<1> QED
  BY <1>1, TypeCorrect, LivesBounded, PTL

-----------------------------------------------------------------------------
(* The population implements the ledger.                                   *)

\* A tick of the simulation is a tick of the ledger.
LEMMA TickIsElapse == TypeOK /\ IdsIssued /\ Tick => Ledger!Elapse
<1> SUFFICES ASSUME TypeOK, IdsIssued, Tick PROVE Ledger!Elapse
  OBVIOUS
<1> DEFINE entry(f) == [zone |-> f.zone, age |-> f.age]
<1>0. PICK c \in Climates : \E next \in AdvancedFronts(c) : SpawnFronts(c, RemoveDead(next))
  BY DEF Tick
<1>1. PICK next \in AdvancedFronts(c) : SpawnFronts(c, RemoveDead(next))
  BY <1>0
<1>2. graph \in Graphs /\ nextID \in Nat \ {0} /\ nextID \notin DOMAIN fronts
  BY DEF TypeOK, IdsIssued
<1>3. ASSUME NEW i \in DOMAIN fronts'
      PROVE  IF i \in DOMAIN fronts
             THEN /\ fronts'[i].age = fronts[i].age + 1
                  /\ fronts'[i].zone \in {fronts[i].zone} \cup graph.nbrs[fronts[i].zone]
             ELSE i = nextID /\ nextID' = nextID + 1 /\ fronts'[i].age = 0
  <2>1. CASE fronts'[i] \in Newborns(c) /\ i = nextID /\ nextID' = nextID + 1
    BY <1>2, <2>1, NewbornType
  <2>2. CASE i \in DOMAIN fronts /\ fronts'[i] \in Advanced(c, graph, fronts[i])
    BY <1>2, <2>2, AdvancedType DEF TypeOK
  <2>3. QED
    BY <1>1, <2>1, <2>2, TickFronts
<1>4. nextID' = nextID \/ (nextID' = nextID + 1 /\ nextID \in DOMAIN fronts')
  BY <1>1, TickFronts
<1>5. graph' = graph
  BY DEF Tick
<1>6. QED
  BY <1>2, <1>3, <1>4, <1>5 DEF Ledger!Elapse, Ledger!Newborn

\* A forced spawn is one.
LEMMA ForceSpawnIsForce == TypeOK /\ IdsIssued /\ ForceSpawn => Ledger!Force
<1> SUFFICES ASSUME TypeOK, IdsIssued, ForceSpawn PROVE Ledger!Force
  OBVIOUS
<1>1. PICK z \in graph.nodes, t \in WeatherTypes, x \in ForcedIntensities :
        fronts' = Extend(fronts, nextID,
                    [type |-> t, zone |-> z, intensity |-> ForcedIntensity(x),
                     age |-> 0, maxAge |-> ForcedMaxAge, history |-> <<>>])
  BY DEF ForceSpawn
<1>2. nextID \in Nat \ {0} /\ nextID \notin DOMAIN fronts /\ nextID' = nextID + 1 /\ graph' = graph
  BY DEF TypeOK, IdsIssued, ForceSpawn
<1>3. /\ DOMAIN fronts' = DOMAIN fronts \cup {nextID}
      /\ fronts'[nextID].age = 0
      /\ \A i \in DOMAIN fronts : fronts'[i] = fronts[i]
  BY <1>1, <1>2 DEF Extend
<1>4. QED
  BY <1>2, <1>3 DEF Ledger!Force, Ledger!Newborn

\* Whatever fronts a clear removes, the ledger strikes them out.
LEMMA ClearIsRemove ==
    ASSUME DOMAIN fronts' \subseteq DOMAIN fronts, nextID' = nextID, graph' = graph,
           \A i \in DOMAIN fronts' : fronts'[i] = fronts[i]
    PROVE  Ledger!Remove
BY DEF Ledger!Remove

\* The simulation implements the ledger: ids are issued in order and never
\* reused (not even after everything was cleared), a front moves one hop per
\* tick at most and ages by one with all the others, and what an admin forces
\* or clears leaves every other front alone.
THEOREM ImplementsLedger == Spec => LedgerSpec
<1>1. Init => Ledger!LInit
  BY DEF Init, Ledger!LInit
<1>2. TypeOK /\ IdsIssued /\ [Next]_vars => [Ledger!LNext]_(Ledger!lvars)
  <2> SUFFICES ASSUME TypeOK, IdsIssued, [Next]_vars
               PROVE  Ledger!LNext \/ UNCHANGED Ledger!lvars
    OBVIOUS
  <2>1. CASE Tick
    BY <2>1, TickIsElapse DEF Ledger!LNext
  <2>2. CASE ForceSpawn
    BY <2>2, ForceSpawnIsForce DEF Ledger!LNext
  <2>3. CASE ClearAll
    BY <2>3, ClearIsRemove DEF ClearAll, Ledger!LNext
  <2>4. ASSUME NEW z \in graph.nodes, ClearZone(z) PROVE Ledger!LNext
    BY <2>4, ClearIsRemove DEF ClearZone, Keep, Ledger!LNext
  <2>5. CASE Rebuild
    BY <2>5 DEF Rebuild, simState, Ledger!LNext, Ledger!Remap
  <2>6. CASE Reconfigure \/ UNCHANGED vars
    BY <2>6 DEF Reconfigure, vars, simState, Ledger!lvars
  <2>7. QED
    BY <2>1, <2>2, <2>3, <2>4, <2>5, <2>6 DEF Next
<1>3. QED
  BY <1>1, <1>2, TypeCorrect, PTL DEF Spec, LedgerSpec, Ledger!LSpec

-----------------------------------------------------------------------------
(* Weather and queries.                                                    *)

\* The map always is the resolution of the present fronts, on the graph it was
\* last resolved on.
WeatherResolved ==
    weather = <<>> \/ weather = ResolveWeather(resolvedOn, fronts)

\* The two readings of the coverage rule report the same fronts, at the same
\* strength.
LEMMA CoveringIsClaims ==
    ASSUME NEW g, NEW fs, Population(fs), NEW z
    PROVE  /\ \A i \in DOMAIN Claims(g, fs, z) :
                \E cov \in Covering(g, fs, z) :
                    cov.id = i /\ Effective(fs, cov) = Claims(g, fs, z)[i]
           /\ \A cov \in Covering(g, fs, z) :
                /\ cov.id \in DOMAIN Claims(g, fs, z)
                /\ Effective(fs, cov) = Claims(g, fs, z)[cov.id]
<1>1. ASSUME NEW i \in DOMAIN Claims(g, fs, z)
      PROVE  \E cov \in Covering(g, fs, z) :
                cov.id = i /\ Effective(fs, cov) = Claims(g, fs, z)[i]
  <2> DEFINE h == Hops(ZonesWithin(g, fs[i].zone), z)
             cov == [id |-> i, hops |-> h]
  <2>1. /\ i \in DOMAIN fs
        /\ z \in ZonesWithin(g, fs[i].zone)[MaxFrontRadius]
        /\ Claims(g, fs, z)[i] >= CoverThreshold
        /\ Claims(g, fs, z)[i] = Projected(fs[i].intensity, h)
    BY ClaimsType
  <2>2. h \in 0 .. MaxFrontRadius
    BY <2>1, HopsType
  <2> HIDE DEF h
  <2>3. cov \in [id : DOMAIN fs, hops : 0 .. MaxFrontRadius] /\ cov.id = i /\ cov.hops = h
    BY <2>1, <2>2
  <2> HIDE DEF cov
  <2>4. Effective(fs, cov) = Claims(g, fs, z)[i]
    BY <2>1, <2>3 DEF Effective
  <2>5. cov \in Covering(g, fs, z)
    BY <2>1, <2>3, <2>4 DEF Covering, h
  <2>6. QED
    BY <2>3, <2>4, <2>5
<1>2. ASSUME NEW cov \in Covering(g, fs, z)
      PROVE  /\ cov.id \in DOMAIN Claims(g, fs, z)
             /\ Effective(fs, cov) = Claims(g, fs, z)[cov.id]
  <2>1. /\ cov.id \in DOMAIN fs
        /\ z \in ZonesWithin(g, fs[cov.id].zone)[MaxFrontRadius]
        /\ cov.hops = Hops(ZonesWithin(g, fs[cov.id].zone), z)
        /\ Effective(fs, cov) >= CoverThreshold
    BY DEF Covering
  <2>2. Projected(fs[cov.id].intensity, Hops(ZonesWithin(g, fs[cov.id].zone), z)) >= CoverThreshold
    BY <2>1 DEF Effective
  <2>3. cov.id \in DOMAIN Claims(g, fs, z)
    BY <2>1, <2>2 DEF Claims
  <2>4. QED
    BY <2>1, <2>3, ClaimsType DEF Effective
<1>3. QED
  BY <1>1, <1>2

\* A zone without claims is clear.
LEMMA UnclaimedIsClear ==
    ASSUME NEW g, NEW fs, NEW z \in g.nodes, DOMAIN Claims(g, fs, z) = {}
    PROVE  ResolveWeather(g, fs)[z] = Clear
BY DEF ResolveWeather

\* A zone with claims has the type of a winner.
LEMMA ClaimedIsWon ==
    ASSUME NEW g, NEW fs, Population(fs), NEW z \in g.nodes, DOMAIN Claims(g, fs, z) # {}
    PROVE  \E i \in DOMAIN Claims(g, fs, z) :
                Wins(Claims(g, fs, z), i) /\ ResolveWeather(g, fs)[z] = fs[i].type
<1> DEFINE claims == Claims(g, fs, z)
           winner == CHOOSE i \in DOMAIN claims : Wins(claims, i)
<1>1. winner \in DOMAIN claims /\ Wins(claims, winner)
  BY WinnerExists
<1>2. ResolveWeather(g, fs)[z] = fs[winner].type
  BY DEF ResolveWeather
<1> HIDE DEF winner
<1>3. QED
  BY <1>1, <1>2

\* The zone report and the weather the zone really has agree at all times: the
\* front listed first is the one whose type the zone carries.
THEOREM QueryAgrees == Spec => []QueryAgreesWithWeather
<1>1. Init => WeatherResolved
  BY DEF Init, WeatherResolved
<1>2. WeatherResolved /\ [Next]_vars => WeatherResolved'
  <2> SUFFICES ASSUME WeatherResolved, [Next]_vars PROVE WeatherResolved'
    OBVIOUS
  <2>1. CASE Resolve
    BY <2>1 DEF Resolve, WeatherResolved
  <2>2. CASE UNCHANGED simState
    BY <2>2 DEF simState, WeatherResolved
  <2>3. QED
    BY <2>1, <2>2 DEF Next, Tick, ForceSpawn, ClearAll, ClearZone, Rebuild, Reconfigure, vars
<1>3. TypeOK /\ IdsIssued /\ WeatherResolved => QueryAgreesWithWeather
  <2> SUFFICES ASSUME TypeOK, IdsIssued, WeatherResolved, NEW z \in DOMAIN weather
               PROVE  IF Covering(resolvedOn, fronts, z) = {} THEN weather[z] = Clear
                      ELSE \E cov \in Covering(resolvedOn, fronts, z) :
                            /\ ListedFirst(fronts, Covering(resolvedOn, fronts, z), cov)
                            /\ weather[z] = fronts[cov.id].type
    BY DEF QueryAgreesWithWeather
  <2> DEFINE claims == Claims(resolvedOn, fronts, z)
             covering == Covering(resolvedOn, fronts, z)
  <2>1. z \in resolvedOn.nodes /\ weather[z] = ResolveWeather(resolvedOn, fronts)[z]
    BY DEF WeatherResolved, ResolveWeather
  <2>2. Population(fronts)
    BY PopulationFinite
  <2>3. CASE DOMAIN claims = {}
    <3>1. covering = {}
      BY <2>2, <2>3, CoveringIsClaims
    <3>2. QED
      BY <2>1, <2>3, <3>1, UnclaimedIsClear
  <2>4. CASE DOMAIN claims # {}
    <3>1. PICK i \in DOMAIN claims :
            Wins(claims, i) /\ ResolveWeather(resolvedOn, fronts)[z] = fronts[i].type
      BY <2>1, <2>2, <2>4, ClaimedIsWon
    <3>2. PICK cov \in covering : cov.id = i /\ Effective(fronts, cov) = claims[i]
      BY <2>2, CoveringIsClaims
    <3>3. \A other \in covering :
            other.id \in DOMAIN claims /\ Effective(fronts, other) = claims[other.id]
      BY <2>2, CoveringIsClaims
    <3> HIDE DEF claims, covering
    <3>4. ListedFirst(fronts, covering, cov)
      BY <3>1, <3>2, <3>3 DEF ListedFirst, Wins
    <3>5. QED
      BY <2>1, <3>1, <3>2, <3>4 DEF covering
  <2>5. QED
    BY <2>3, <2>4
<1>4. QED
  BY <1>1, <1>2, <1>3, TypeCorrect, PTL DEF Spec

\* Removing fronts adds no claim.
LEMMA KeepClaims ==
    ASSUME NEW g, NEW fs, Population(fs), NEW ids, NEW z, Population(Keep(fs, ids))
    PROVE  DOMAIN Claims(g, Keep(fs, ids), z) \subseteq DOMAIN Claims(g, fs, z) \cap ids
<1>1. DOMAIN Keep(fs, ids) = DOMAIN fs \cap ids
      /\ \A i \in DOMAIN fs \cap ids : Keep(fs, ids)[i] = fs[i]
  BY DEF Keep
<1>2. ASSUME NEW i \in DOMAIN Claims(g, Keep(fs, ids), z)
      PROVE  i \in DOMAIN Claims(g, fs, z) \cap ids
  <2>1. /\ i \in DOMAIN fs \cap ids
        /\ z \in ZonesWithin(g, fs[i].zone)[MaxFrontRadius]
        /\ Projected(fs[i].intensity, Hops(ZonesWithin(g, fs[i].zone), z)) >= CoverThreshold
    <3> DEFINE kf == Keep(fs, ids)
    <3>0. /\ i \in DOMAIN kf
          /\ z \in ZonesWithin(g, kf[i].zone)[MaxFrontRadius]
          /\ Claims(g, kf, z)[i] >= CoverThreshold
          /\ Claims(g, kf, z)[i] = Projected(kf[i].intensity, Hops(ZonesWithin(g, kf[i].zone), z))
      BY ClaimsType
    <3>1. /\ i \in DOMAIN kf
          /\ z \in ZonesWithin(g, kf[i].zone)[MaxFrontRadius]
          /\ Projected(kf[i].intensity, Hops(ZonesWithin(g, kf[i].zone), z)) >= CoverThreshold
      <4> HIDE DEF kf
      <4> QED
        BY <3>0
    <3>2. i \in DOMAIN fs \cap ids /\ kf[i] = fs[i]
      BY <1>1, <3>1
    <3> HIDE DEF kf
    <3>3. QED
      BY <3>1, <3>2
  <2>2. QED
    BY <2>1 DEF Claims
<1>3. QED
  BY <1>2

\* A cleared zone is clear in the very step that clears it, whichever fronts
\* of whichever zones were reaching it.
THEOREM ClearingClears == Spec => ClearTakesEffect
<1>1. TypeOK /\ IdsIssued /\ [Next]_vars
        => [\A z \in graph.nodes :
                z \in DOMAIN weather' /\ weather'[z] # Clear => ~ClearZone(z)]_vars
  <2> SUFFICES ASSUME TypeOK, IdsIssued, NEW z \in graph.nodes, ClearZone(z)
               PROVE  weather'[z] = Clear
    OBVIOUS
  <2> DEFINE kept == DOMAIN fronts \ CoveringIds(graph, fronts, z)
  <2>1. Population(fronts)
    BY PopulationFinite
  <2>2. Population(Keep(fronts, kept))
    BY <2>1, FS_Subset DEF Population, Keep
  <2>3. \A i \in DOMAIN Claims(graph, fronts, z) : i \in CoveringIds(graph, fronts, z)
    BY <2>1, CoveringIsClaims DEF CoveringIds
  <2>4. DOMAIN Claims(graph, Keep(fronts, kept), z) \subseteq DOMAIN Claims(graph, fronts, z) \cap kept
    BY <2>1, <2>2, KeepClaims
  <2>5. DOMAIN Claims(graph, Keep(fronts, kept), z) = {}
    BY <2>3, <2>4
  <2>6. weather' = ResolveWeather(graph, Keep(fronts, kept))
    BY DEF ClearZone, Resolve
  <2>7. QED
    BY <2>5, <2>6, UnclaimedIsClear
<1>2. QED
  BY <1>1, TypeCorrect, PTL DEF Spec, ClearTakesEffect

-----------------------------------------------------------------------------
(* The budget.                                                             *)

\* A tick that adds a front leaves the population within the budget, however
\* far over it forced spawns or a lowered budget had put it: only a forced
\* spawn adds one beyond.
THEOREM BudgetRespected == Spec => TickRespectsBudget
<1>1. TypeOK /\ IdsIssued /\ [Next]_vars
        => [Cardinality(DOMAIN fronts') > cfg.budget =>
                DOMAIN fronts' \subseteq DOMAIN fronts \/ ForceSpawn]_vars
  <2> SUFFICES ASSUME TypeOK, IdsIssued, Next,
                      Cardinality(DOMAIN fronts') > cfg.budget, ~ForceSpawn
               PROVE  DOMAIN fronts' \subseteq DOMAIN fronts
    OBVIOUS
  <2>1. CASE Tick
    <3>0. PICK c \in Climates : \E next \in AdvancedFronts(c) : SpawnFronts(c, RemoveDead(next))
      BY <2>1 DEF Tick
    <3>1. PICK next \in AdvancedFronts(c) : SpawnFronts(c, RemoveDead(next))
      BY <3>0
    <3> DEFINE live == RemoveDead(next)
    <3>2. DOMAIN live \subseteq DOMAIN fronts
      BY DEF RemoveDead, Keep, AdvancedFronts
    <3>3. IsFiniteSet(DOMAIN live)
      BY <3>2, PopulationFinite, FS_Subset DEF Population
    <3>4. cfg.budget \in Nat /\ Cardinality(DOMAIN live) \in Nat
      BY <3>3, FS_CardinalityType, ConfigsAssumption DEF TypeOK
    <3>5. Cardinality(DOMAIN live \cup {nextID}) =
            IF nextID \in DOMAIN live THEN Cardinality(DOMAIN live) ELSE Cardinality(DOMAIN live) + 1
      BY <3>3, FS_AddElement
    <3>6. ASSUME HasRoom(live), DOMAIN fronts' = DOMAIN live \cup {nextID}
          PROVE  FALSE
      <4> HIDE DEF live
      <4>1. /\ Cardinality(DOMAIN fronts') \in Nat
            /\ Cardinality(DOMAIN fronts') <= Cardinality(DOMAIN live) + 1
        BY <3>4, <3>5, <3>6
      <4>2. QED
        BY <3>4, <3>6, <4>1 DEF HasRoom
    <3>7. fronts' = live
      BY <3>1, <3>6 DEF SpawnFronts, Extend
    <3>8. QED
      BY <3>2, <3>7
  <2>2. CASE ClearAll
    BY <2>2 DEF ClearAll
  <2>3. CASE \E z \in graph.nodes : ClearZone(z)
    BY <2>3 DEF ClearZone, Keep
  <2>4. CASE Rebuild \/ Reconfigure
    BY <2>4 DEF Rebuild, Reconfigure, simState
  <2>5. QED
    BY <2>1, <2>2, <2>3, <2>4 DEF Next
<1>2. QED
  BY <1>1, TypeCorrect, PTL DEF Spec, TickRespectsBudget

-----------------------------------------------------------------------------
(* Weather changes on the move.                                            *)

\* Whatever the bound on histories drops, the zone just recorded is the last.
LEMMA RecordedIsLast ==
    ASSUME NEW h \in Seq(Zones), NEW z \in Zones
    PROVE  LastZone(AppendBounded(h, z)) = z
<1> DEFINE long == Append(h, z)
           path == AppendBounded(h, z)
<1>1. long \in Seq(Zones) /\ Len(long) = Len(h) + 1 /\ long[Len(long)] = z /\ Len(h) \in Nat
  OBVIOUS
<1>2. Len(path) \in Nat \ {0} /\ path[Len(path)] = z
  <2>1. CASE HistoryLen > 0 /\ Len(long) > HistoryLen
    <3> DEFINE from == Len(long) - HistoryLen + 1
    <3>1. path = SubSeq(long, from, Len(long))
      BY <2>1 DEF AppendBounded
    <3>2. from \in Nat /\ from >= 1 /\ from <= Len(long) /\ Len(long) \in Nat /\ HistoryLen \in Nat
      BY <1>1, <2>1, KnobsAssumption
    <3> HIDE DEF long, path
    <3>3. Len(path) = Len(long) - from + 1
      BY <1>1, <3>1, <3>2
    <3>4. Len(path) = HistoryLen
      BY <3>2, <3>3
    <3>5. path[HistoryLen] = long[from + HistoryLen - 1]
      BY <1>1, <2>1, <3>1, <3>2
    <3>6. from + HistoryLen - 1 = Len(long)
      BY <3>2
    <3> QED
      BY <1>1, <2>1, <3>2, <3>4, <3>5, <3>6
  <2>2. CASE ~(HistoryLen > 0 /\ Len(long) > HistoryLen)
    <3>1. path = long
      BY <2>2 DEF AppendBounded
    <3> QED
      BY <1>1, <3>1
  <2> QED
    BY <2>1, <2>2
<1>3. path # <<>>
  <2> HIDE DEF path
  <2> QED
    BY <1>2
<1> QED
  BY <1>2, <1>3 DEF LastZone

\* One tick changes the type of a front that stays put only when it is stranded.
LEMMA AdvancedRerolls ==
    ASSUME NEW c \in Climates, NEW g \in Graphs, NEW f \in Front, NEW n \in Advanced(c, g, f),
           n.zone = f.zone, g.nbrs[f.zone] # {}
    PROVE  n.type = f.type
<1> DEFINE a == Aged(c, g, f)
<1>1. PICK m \in Moved(c, g, a) : n \in Evolved(c, g, m)
  BY DEF Advanced
<1>2. a \in Front /\ a.zone = f.zone
  BY AgedType
<1>3. a.type = f.type
  BY DEF Aged, Front
<1> HIDE DEF a
<1>4. m \in Front
  BY <1>1, <1>2, MovedType
<1>5. m.zone = f.zone
  <2>1. n.zone = m.zone
    BY <1>1, <1>4, EvolvedType
  <2> QED
    BY <2>1
<1> DEFINE path == AppendBounded(a.history, a.zone)
<1>6. a.zone \in Zones /\ a.history \in Seq(Zones)
  BY <1>2 DEF Front
<1>7. path \in Seq(Zones) /\ LastZone(path) = a.zone
  BY <1>6, AppendBoundedType, RecordedIsLast
<1>8. Destinations(g, a) \subseteq g.nbrs[a.zone] /\ a.zone \notin g.nbrs[a.zone]
  BY <1>6, GraphsAssumption DEF Destinations, IsZoneGraph
<1>9. \/ m = [a EXCEPT !.history = path]
      \/ \E z \in g.nbrs[a.zone] : m = [a EXCEPT !.zone = z, !.history = path]
  BY <1>1, <1>2, <1>8 DEF Moved, path
<1> HIDE DEF path
<1>10. CASE m = [a EXCEPT !.history = path]
  <2>1. m.history = path /\ m.type = a.type
    BY <1>2, <1>10 DEF Front
  <2>2. m.zone = LastZone(m.history)
    BY <1>2, <1>5, <1>7, <2>1
  <2>3. n = m
    BY <1>1, <2>2 DEF Evolved
  <2> QED
    BY <1>3, <2>1, <2>3
<1>11. ASSUME NEW z \in g.nbrs[a.zone], m = [a EXCEPT !.zone = z, !.history = path]
       PROVE  FALSE
  <2>1. m.zone = z
    BY <1>2, <1>11 DEF Front
  <2> QED
    BY <1>2, <1>5, <1>8, <1>11, <2>1
<1> QED
  BY <1>9, <1>10, <1>11

\* A front's weather changes only on the move, or stranded where no zone adjoins.
THEOREM RerollsOnTheMove == Spec => RerollOnlyMoversOrStranded
<1> DEFINE Kept == \A i \in DOMAIN fronts \cap DOMAIN fronts' :
                        fronts'[i].type # fronts[i].type =>
                            fronts'[i].zone # fronts[i].zone \/ graph.nbrs[fronts[i].zone] = {}
<1>1. TypeOK /\ IdsIssued /\ [Next]_vars => [Kept]_vars
  <2> SUFFICES ASSUME TypeOK, IdsIssued, Next PROVE Kept
    OBVIOUS
  <2>1. nextID \notin DOMAIN fronts
    BY DEF TypeOK, IdsIssued
  <2>2. CASE Tick
    <3>0. PICK c \in Climates : \E next \in AdvancedFronts(c) : SpawnFronts(c, RemoveDead(next))
      BY <2>2 DEF Tick
    <3>1. PICK next \in AdvancedFronts(c) : SpawnFronts(c, RemoveDead(next))
      BY <3>0
    <3> SUFFICES ASSUME NEW i \in DOMAIN fronts \cap DOMAIN fronts',
                        fronts'[i].zone = fronts[i].zone, graph.nbrs[fronts[i].zone] # {}
                 PROVE  fronts'[i].type = fronts[i].type
      OBVIOUS
    <3>2. fronts'[i] \in Advanced(c, graph, fronts[i])
      BY <2>1, <3>1, TickFronts
    <3>3. graph \in Graphs /\ fronts[i] \in Front
      BY DEF TypeOK
    <3> QED
      BY <3>2, <3>3, AdvancedRerolls
  <2>3. CASE ForceSpawn
    <3>1. \A i \in DOMAIN fronts : fronts'[i] = fronts[i]
      BY <2>1, <2>3 DEF ForceSpawn, Extend
    <3> QED
      BY <3>1
  <2>4. CASE ClearAll \/ \E z \in graph.nodes : ClearZone(z)
    <3>1. CASE ClearAll
      BY <3>1 DEF ClearAll
    <3>2. ASSUME NEW z \in graph.nodes, ClearZone(z) PROVE Kept
      <4> DEFINE kept == DOMAIN fronts \ CoveringIds(graph, fronts, z)
      <4>1. fronts' = [i \in DOMAIN fronts \cap kept |-> fronts[i]]
        BY <3>2 DEF ClearZone, Keep
      <4> HIDE DEF kept
      <4> QED
        BY <4>1
    <3> QED
      BY <2>4, <3>1, <3>2
  <2>5. CASE Rebuild \/ Reconfigure
    BY <2>5 DEF Rebuild, Reconfigure, simState
  <2> QED
    BY <2>2, <2>3, <2>4, <2>5 DEF Next
<1> QED
  BY <1>1, TypeCorrect, PTL DEF Spec, RerollOnlyMoversOrStranded

=============================================================================
