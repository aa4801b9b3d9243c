--------------------------- MODULE SeasonTracksProofs ---------------------------
(***************************************************************************)
(* Proofs about SeasonTracks, for any calendars, any files and any weight  *)
(* of the biome's own.  The invariant says what a loaded track is: seasons *)
(* that part the year among them, each a single run of months from its     *)
(* start.  From it and from a few facts about the engine's months follow   *)
(* where a track stands, how it goes on from day to day, and how the odds  *)
(* move; what parseTrack accepts is shown to be the files that go round    *)
(* the year.                                                               *)
(***************************************************************************)
EXTENDS SeasonTracks, FiniteSetTheorems, SequenceTheorems, WellFoundedInduction, TLAPS

---------------------------------------------------------------------------
(***************************************************************************)
(* Arithmetic                                                              *)
(***************************************************************************)
\* A quotient of naturals, and the remainder it leaves.
LEMMA Quotient ==
    ASSUME NEW a \in Nat, NEW b \in Nat \ {0}
    PROVE  a \div b \in Nat /\ b * (a \div b) <= a /\ a < b * (a \div b) + b
  OBVIOUS

LEMMA TimesMonotone ==
    ASSUME NEW a \in Nat, NEW b \in Nat, NEW c \in Nat, a <= b
    PROVE  a * c <= b * c /\ c * a <= c * b
  OBVIOUS

LEMMA Distribute ==
    ASSUME NEW a \in Nat, NEW b \in Nat
    PROVE  a * b \in Nat /\ (a + 1) * b \in Nat /\ (a + 1) * b = a * b + b
  OBVIOUS

LEMMA QuotientMonotone ==
    ASSUME NEW a \in Nat, NEW b \in Nat, NEW c \in Nat \ {0}, a <= b
    PROVE  a \div c <= b \div c
<1> DEFINE p == a \div c
           q == b \div c
<1>1. p \in Nat /\ c * p <= a
  BY Quotient
<1>2. q \in Nat /\ b < c * q + c
  BY Quotient
<1> HIDE DEF p, q
<1>3. SUFFICES ASSUME q + 1 <= p PROVE FALSE
  BY <1>1, <1>2 DEF p, q
<1>4. c * (q + 1) <= c * p
  BY <1>1, <1>2, <1>3, TimesMonotone
<1>5. c * (q + 1) = c * q + c
  BY <1>2
<1>6. c * p \in Nat /\ c * q \in Nat
  BY <1>1, <1>2
<1> QED  BY <1>1, <1>2, <1>4, <1>5, <1>6

\* Going on by no more than the divisor raises a quotient by one at most.
LEMMA QuotientStep ==
    ASSUME NEW a \in Nat, NEW b \in Nat, NEW c \in Nat \ {0}, b <= a + c
    PROVE  b \div c <= (a \div c) + 1
<1> DEFINE p == a \div c
           q == b \div c
<1>1. p \in Nat /\ a < c * p + c
  BY Quotient
<1>2. q \in Nat /\ c * q <= b
  BY Quotient
<1> HIDE DEF p, q
<1>3. SUFFICES ASSUME p + 2 <= q PROVE FALSE
  BY <1>1, <1>2 DEF p, q
<1>4. c * (p + 2) <= c * q
  BY <1>1, <1>2, <1>3, TimesMonotone
<1>5. c * (p + 2) = c * p + c + c
  BY <1>1
<1>6. c * p \in Nat /\ c * q \in Nat
  BY <1>1, <1>2
<1> QED  BY <1>1, <1>2, <1>4, <1>5, <1>6

\* Remainders near the divisor.
LEMMA Remainder ==
    ASSUME NEW n \in Nat \ {0}, NEW a \in Nat
    PROVE  /\ a % n \in 0..(n - 1)
           /\ a < n => a % n = a
           /\ n <= a /\ a < n + n => a % n = a - n
  OBVIOUS

\* A blend of two weights i parts of w of the way from a to c.
LEMMA BlendBetween ==
    ASSUME NEW a \in Nat, NEW c \in Nat, NEW w \in Nat, NEW i \in 0..w
    PROVE  LET x == a * w + (c - a) * i
           IN  /\ x \in Nat
               /\ (a * w <= x /\ x <= c * w) \/ (c * w <= x /\ x <= a * w)
<1>1. i \in Nat /\ i <= w
  OBVIOUS
<1>2. ASSUME NEW p \in Nat, NEW k \in Nat
      PROVE  /\ k * i \in Nat /\ k * w \in Nat /\ k * i <= k * w /\ p * w \in Nat
             /\ (p + k) * w = p * w + k * w
  BY <1>1, TimesMonotone
<1>3. CASE a <= c
  <2> DEFINE k == c - a
  <2>1. k \in Nat /\ c = a + k
    BY <1>3
  <2> HIDE DEF k
  <2>2. (c - a) * i = k * i
    BY <2>1
  <2> QED  BY <1>2, <2>1, <2>2
<1>4. CASE c < a
  <2> DEFINE k == a - c
  <2>1. k \in Nat /\ a = c + k
    BY <1>4
  <2> HIDE DEF k
  <2>2. (c - a) * i = -(k * i)
    BY <2>1
  <2> QED  BY <1>2, <2>1, <2>2
<1> QED  BY <1>3, <1>4

\* Blending the factor and the extra is blending the whole weight.
LEMMA BlendLinear ==
    ASSUME NEW b \in Int, NEW p \in Int, NEW c \in Int, NEW q \in Int, NEW d \in Int,
           NEW w \in Int, NEW i \in Int
    PROVE  b * (p * w + (c - p) * i) + (q * w + (d - q) * i)
             = (b * p + q) * w + ((b * c + d) - (b * p + q)) * i
  OBVIOUS

---------------------------------------------------------------------------
(***************************************************************************)
(* The calendar                                                            *)
(***************************************************************************)
IsCalendar == calendar.months \in Nat \ {0} /\ calendar.days \in Nat \ {0}

Days == 1..calendar.days

\* Of a set of naturals that is not empty, one is the least.
LEMMA Least ==
    ASSUME NEW S \in SUBSET Nat, S # {}
    PROVE  \E k \in S : \A j \in S : k <= j
<1>1. PICK k \in S : \A j \in S : <<j, k>> \notin OpToRel(<, Nat)
  BY NatLessThanWellFounded, WFMin, Zenon
<1>2. \A j \in S : ~(j < k)
  BY <1>1 DEF OpToRel
<1> QED  BY <1>2

\* Every day has a month; months do not go back, and the year ends in its last.
LEMMA MonthRange ==
    ASSUME IsCalendar, NEW d \in Days PROVE MonthOfDay(d) \in Month
<1>1. d * calendar.months \in Nat
  BY DEF IsCalendar, Days
<1>2. (d * calendar.months) \div calendar.days \in Nat
  BY <1>1, Quotient DEF IsCalendar
<1> QED  BY <1>2 DEF MonthOfDay, Month, IsCalendar

LEMMA MonthMonotone ==
    ASSUME IsCalendar, NEW d \in Days, NEW e \in Days, d <= e
    PROVE  MonthOfDay(d) <= MonthOfDay(e)
<1> DEFINE p == d * calendar.months
           q == e * calendar.months
<1>1. p \in Nat /\ q \in Nat /\ p <= q
  BY TimesMonotone DEF IsCalendar, Days
<1>2. p \div calendar.days <= q \div calendar.days
  BY <1>1, QuotientMonotone DEF IsCalendar
<1>3. p \div calendar.days \in Nat /\ q \div calendar.days \in Nat
  BY <1>1, Quotient DEF IsCalendar
<1> QED  BY <1>2, <1>3 DEF MonthOfDay, IsCalendar

LEMMA LastMonth ==
    ASSUME IsCalendar PROVE MonthOfDay(calendar.days) = calendar.months
<1> DEFINE D == calendar.days
           M == calendar.months
           q == (D * M) \div D
<1>1. D \in Nat \ {0} /\ M \in Nat \ {0} /\ D * M \in Nat
  BY DEF IsCalendar
<1>2. q \in Nat /\ D * M < D * q + D
  BY <1>1, Quotient
<1>3. q >= M
  <2> SUFFICES ASSUME q + 1 <= M PROVE FALSE
    BY <1>1, <1>2
  <2> HIDE DEF q, D, M
  <2>1. D * (q + 1) <= D * M
    BY <1>1, <1>2, TimesMonotone
  <2>2. D * (q + 1) = D * q + D /\ D * q \in Nat
    BY <1>1, <1>2
  <2> QED  BY <1>1, <1>2, <2>1, <2>2
<1>4. 1 + q > M
  BY <1>1, <1>2, <1>3
<1> QED  BY <1>4 DEF MonthOfDay

\* With more days than months the year starts in the first one, and no day
\* skips a month.
LEMMA FirstMonth ==
    ASSUME IsCalendar, EveryMonthHasADay PROVE MonthOfDay(1) = 1
<1> DEFINE D == calendar.days
           M == calendar.months
           q == (1 * M) \div D
<1>1. D \in Nat \ {0} /\ M \in Nat \ {0} /\ 1 * M = M /\ M < D
  BY DEF IsCalendar, EveryMonthHasADay
<1>2. q \in Nat /\ D * q <= M
  BY <1>1, Quotient
<1>3. q = 0
  <2> SUFFICES ASSUME 1 <= q PROVE FALSE
    BY <1>2
  <2> HIDE DEF q, D, M
  <2>1. D * 1 <= D * q
    BY <1>1, <1>2, TimesMonotone
  <2> QED  BY <1>1, <1>2, <2>1
<1> QED  BY <1>1, <1>3 DEF MonthOfDay

LEMMA NextMonth ==
    ASSUME IsCalendar, EveryMonthHasADay, NEW d \in Days, d + 1 \in Days
    PROVE  MonthOfDay(d + 1) \in {MonthOfDay(d), MonthOfDay(d) + 1}
<1> DEFINE p == d * calendar.months
           q == (d + 1) * calendar.months
<1>1. p \in Nat /\ q \in Nat /\ q = p + calendar.months
  <2>1. d \in Nat /\ calendar.months \in Nat
    BY DEF IsCalendar, Days
  <2> QED  BY <2>1, Distribute, Zenon
<1>2. q <= p + calendar.days
  BY <1>1 DEF IsCalendar, EveryMonthHasADay
<1>3. q \div calendar.days <= (p \div calendar.days) + 1
  BY <1>1, <1>2, QuotientStep DEF IsCalendar
<1>4. p \div calendar.days \in Nat /\ q \div calendar.days \in Nat
  BY <1>1, Quotient DEF IsCalendar
<1>5. MonthOfDay(d + 1) <= MonthOfDay(d) + 1
  BY <1>3, <1>4 DEF MonthOfDay, IsCalendar
<1>6. MonthOfDay(d) <= MonthOfDay(d + 1)
  BY MonthMonotone DEF Days
<1> QED  BY <1>5, <1>6, MonthRange DEF Month, IsCalendar

\* The first day of a month parts the days before it from those that are not.
LEMMA FirstDay ==
    ASSUME IsCalendar, NEW m \in Month
    PROVE  /\ FirstDayOfMonth(m) \in Days
           /\ \A d \in Days : FirstDayOfMonth(m) <= d <=> m <= MonthOfDay(d)
<1>1. CASE m <= 1
  <2>1. FirstDayOfMonth(m) = 1
    BY <1>1 DEF FirstDayOfMonth
  <2>2. \A d \in Days : 1 <= MonthOfDay(d) /\ 1 <= d
    BY MonthRange DEF Month, Days
  <2> QED  BY <1>1, <2>1, <2>2 DEF Days, Month, IsCalendar
<1>2. CASE ~(m <= 1)
  <2> DEFINE S == {d \in Days : MonthOfDay(d) >= m}
  <2>1. calendar.days \in S /\ S \in SUBSET Nat
    BY LastMonth DEF Days, Month, IsCalendar
  <2>2. PICK k \in S : \A j \in S : k <= j
    BY <2>1, Least
  <2>3. \A e \in 1..(k - 1) : MonthOfDay(e) < m
    <3> SUFFICES ASSUME NEW e \in 1..(k - 1), ~(MonthOfDay(e) < m) PROVE FALSE
      OBVIOUS
    <3>1. e \in Days /\ e < k
      BY DEF Days, IsCalendar
    <3>2. e \in S
      BY <3>1, MonthRange DEF Month, IsCalendar
    <3> QED  BY <2>2, <3>1, <3>2, <2>1
  <2>4. \E d \in 1..calendar.days :
            MonthOfDay(d) >= m /\ \A e \in 1..(d - 1) : MonthOfDay(e) < m
    BY <2>3 DEF Days
  <2> DEFINE f == FirstDayOfMonth(m)
  <2>5. f \in Days /\ MonthOfDay(f) >= m /\ \A e \in 1..(f - 1) : MonthOfDay(e) < m
    BY <1>2, <2>4 DEF FirstDayOfMonth, Days
  <2> HIDE DEF f
  <2>6. ASSUME NEW d \in Days PROVE f <= d <=> m <= MonthOfDay(d)
    <3>1. CASE f <= d
      <4>1. MonthOfDay(f) <= MonthOfDay(d)
        BY <2>5, <3>1, MonthMonotone
      <4> QED  BY <3>1, <4>1, <2>5, MonthRange DEF Month, IsCalendar
    <3>2. CASE ~(f <= d)
      <4>1. d \in 1..(f - 1)
        BY <2>5, <3>2 DEF Days, IsCalendar
      <4> QED  BY <3>2, <4>1, <2>5, MonthRange DEF Month, IsCalendar
    <3> QED  BY <3>1, <3>2
  <2> QED  BY <2>5, <2>6 DEF f
<1> QED  BY <1>1, <1>2

LEMMA DaysIntoRange ==
    ASSUME IsCalendar, NEW s, s.start \in Month, NEW d \in Days
    PROVE  DaysInto(s, d) \in 0..(calendar.days - 1)
  BY FirstDay DEF DaysInto, Days, IsCalendar

LEMMA BeforeRange == ASSUME IsCalendar, NEW m \in Month PROVE Before(m) \in Month
  BY DEF Before, Month, IsCalendar

---------------------------------------------------------------------------
(***************************************************************************)
(* Tracks                                                                  *)
(***************************************************************************)
\* A parsed season: its name, what it claims, where its run starts, and its factors.
Season == [name : STRING, claims : SUBSET Month, start : Month, window : Nat, factor : Nat, extra : Nat]

\* What the resolver relies on: seasons that part the year among them, each
\* one run from its start.
IsTrack(T) ==
    /\ T \in Seq(Season) /\ T # <<>>
    /\ \A n, k \in DOMAIN T : n # k => T[n].claims \cap T[k].claims = {}
    /\ \A m \in Month : \E n \in DOMAIN T : m \in T[n].claims
    /\ \A n \in DOMAIN T : T[n].start \in T[n].claims
    /\ \A n \in DOMAIN T : T[n].claims # Month =>
        \A m \in T[n].claims : Before(m) \notin T[n].claims <=> m = T[n].start

LEMMA MonthsFinite ==
    ASSUME IsCalendar
    PROVE  IsFiniteSet(Month) /\ Cardinality(Month) = calendar.months
<1>1. 1 \in Int /\ calendar.months \in Int /\ ~(1 > calendar.months)
  BY DEF IsCalendar
<1>2. IsFiniteSet(1..calendar.months) /\ Cardinality(1..calendar.months) = calendar.months - 1 + 1
  BY <1>1, FS_Interval
<1> QED  BY <1>1, <1>2 DEF Month, IsCalendar

\* contiguousStart finds the one month at which the run of the season starts.
LEMMA StartOfRun ==
    ASSUME IsCalendar, NEW s \in SeasonFile, ValidSeason(s)
    PROVE  LET C == ToSet(s.months)
               start == ContiguousStart(s.months)
           IN  /\ C \in SUBSET Month /\ start \in C
               /\ C # Month => \A m \in C : Before(m) \notin C <=> m = start
<1> DEFINE C == ToSet(s.months)
           starts == {m \in C : Before(m) \notin C}
           start == ContiguousStart(s.months)
<1>1. C \in SUBSET Month /\ s.months \in Seq(Int) /\ s.months # <<>> /\ start # NoRun
  BY DEF ValidSeason, Month, SeasonFile
<1>2. 1 \in DOMAIN s.months /\ s.months[1] \in C
  <2>1. Len(s.months) \in Nat \ {0} /\ DOMAIN s.months = 1..Len(s.months)
    BY <1>1, EmptySeq, LenProperties
  <2> QED  BY <2>1 DEF ToSet
<1>3. IsFiniteSet(C) /\ (Cardinality(C) = calendar.months => C = Month)
  BY <1>1, MonthsFinite, FS_Subset
<1>4. CASE Cardinality(C) = calendar.months
  BY <1>1, <1>2, <1>3, <1>4 DEF ContiguousStart
<1>5. CASE Cardinality(C) # calendar.months
  <2>1. Cardinality(starts) = 1 /\ start = CHOOSE m \in starts : TRUE
    BY <1>1, <1>5 DEF ContiguousStart
  <2>2. IsFiniteSet(starts)
    BY <1>3, FS_Subset
  <2>3. PICK x : starts = {x}
    BY <2>1, <2>2, FS_Singleton
  <2>4. start = x
    BY <2>1, <2>3
  <2> QED  BY <1>1, <2>3, <2>4
<1> QED  BY <1>4, <1>5

\* A file that parseTrack accepts makes a track.
LEMMA ParsedIsTrack ==
    ASSUME IsCalendar, NEW seasons \in Seq(SeasonFile), Valid(seasons)
    PROVE  IsTrack(Parsed(seasons))
<1> DEFINE T == Parsed(seasons)
           N == Len(seasons)
<1>1. N \in Nat \ {0} /\ DOMAIN seasons = 1..N
  BY EmptySeq, LenProperties DEF Valid
<1>2. \A n \in 1..N : seasons[n] \in SeasonFile /\ ValidSeason(seasons[n])
  BY <1>1, ElementOfSeq DEF Valid
<1>3. ASSUME NEW n \in 1..N
      PROVE  /\ T[n] \in Season /\ T[n].start \in T[n].claims
             /\ T[n].claims = ToSet(seasons[n].months)
             /\ T[n].claims # Month =>
                    \A m \in T[n].claims : Before(m) \notin T[n].claims <=> m = T[n].start
  <2>1. /\ T[n].claims = ToSet(seasons[n].months)
        /\ T[n].start = ContiguousStart(seasons[n].months)
    BY <1>1 DEF Parsed
  <2>2. /\ T[n].claims \in SUBSET Month /\ T[n].start \in T[n].claims
        /\ T[n].claims # Month =>
               \A m \in T[n].claims : Before(m) \notin T[n].claims <=> m = T[n].start
    BY <1>2, <2>1, StartOfRun, Zenon
  <2>3. T[n] = [name |-> seasons[n].name, claims |-> T[n].claims, start |-> T[n].start,
                window |-> IF seasons[n].window < 0 THEN 0 ELSE seasons[n].window,
                factor |-> seasons[n].factor, extra |-> seasons[n].extra]
    BY <1>1, <2>1 DEF Parsed
  <2>4. /\ (IF seasons[n].window < 0 THEN 0 ELSE seasons[n].window) \in Nat
        /\ seasons[n].factor \in Nat /\ seasons[n].extra \in Nat /\ seasons[n].name \in STRING
    BY <1>2 DEF SeasonFile, ValidSeason
  <2> HIDE DEF T
  <2>5. T[n] \in Season
    BY <2>2, <2>3, <2>4 DEF Season
  <2> QED  BY <2>1, <2>2, <2>5
<1>4. DOMAIN T = 1..N
  BY <1>1 DEF Parsed
<1>5. T = [n \in 1..N |-> T[n]]
  BY <1>1 DEF Parsed
<1> HIDE DEF T
<1>6. T \in Seq(Season)
  BY <1>1, <1>3, <1>5
<1>7. T # <<>>
  BY <1>1, <1>4
<1>8. \A n, k \in 1..N : n # k => T[n].claims \cap T[k].claims = {}
  <2>1. \A n \in 1..N : T[n].claims = ToSet(seasons[n].months)
    BY <1>3
  <2>2. \A n, k \in 1..N :
            n # k => ToSet(seasons[n].months) \cap ToSet(seasons[k].months) = {}
    BY <1>1 DEF Valid
  <2> QED  BY <2>1, <2>2
<1>9. \A m \in Month : \E n \in 1..N : m \in T[n].claims
  BY <1>1, <1>3 DEF Valid, Month
<1> QED  BY <1>3, <1>4, <1>6, <1>7, <1>8, <1>9 DEF IsTrack, T

\* A month has one season.
LEMMA OneSeason ==
    ASSUME NEW T, IsTrack(T), NEW m \in Month
    PROVE  /\ SeasonOf(T, m) \in DOMAIN T /\ m \in T[SeasonOf(T, m)].claims
           /\ \A n \in DOMAIN T : m \in T[n].claims => n = SeasonOf(T, m)
<1>1. \E n \in DOMAIN T : m \in T[n].claims
  BY DEF IsTrack
<1>2. SeasonOf(T, m) \in DOMAIN T /\ m \in T[SeasonOf(T, m)].claims
  BY <1>1 DEF SeasonOf
<1> QED  BY <1>2 DEF IsTrack

\* Where there are several seasons none has the whole year.
LEMMA NoneWhole ==
    ASSUME NEW T, IsTrack(T), Len(T) # 1, NEW n \in DOMAIN T
    PROVE  T[n].claims # Month
<1>1. Len(T) \in Nat \ {0, 1} /\ DOMAIN T = 1..Len(T)
  BY EmptySeq, LenProperties DEF IsTrack
<1>2. PICK k \in DOMAIN T : k # n
  BY <1>1
<1>3. T[k].start \in T[k].claims /\ T[k].claims \cap T[n].claims = {} /\ T[k] \in Season
  BY <1>1, <1>2, ElementOfSeq DEF IsTrack
<1> QED  BY <1>3 DEF Season

---------------------------------------------------------------------------
(***************************************************************************)
(* The invariant                                                           *)
(***************************************************************************)
Resolvable(t) == IsTrack(tracks[t])

FilesType == files \in Seq([track : STRING, seasons : Seq(SeasonFile)])

IInv ==
    /\ IsCalendar /\ day \in Days /\ FilesType
    /\ \A t \in DOMAIN tracks : Resolvable(t)

\* Nothing that a track must be depends on the day or on other tracks.
LEMMA TrackFrame ==
    ASSUME NEW T, IsTrack(T), calendar' = calendar PROVE IsTrack(T)'
  BY DEF IsTrack, Season, Month, Before

LEMMA InitInvariant == Init => IInv
<1> SUFFICES ASSUME Init PROVE IInv
  OBVIOUS
<1>1. IsCalendar /\ day \in Days
  BY CalendarsAssumption DEF Init, IsCalendar, Days
<1>2. files \in FileLists /\ DOMAIN tracks = {}
  BY DEF Init
<1>3. FilesType
  BY <1>2, FilesAssumption DEF FilesType
<1> QED  BY <1>1, <1>2, <1>3 DEF IInv

LEMMA StepInvariant == IInv /\ [Next]_vars => IInv'
<1> SUFFICES ASSUME IInv, [Next]_vars PROVE IInv'
  OBVIOUS
<1>1. CASE LoadFile
  <2> DEFINE f == Head(files)
  <2>1. f \in [track : STRING, seasons : Seq(SeasonFile)] /\ FilesType'
    BY <1>1, HeadTailProperties DEF LoadFile, IInv, FilesType
  <2>2. calendar' = calendar /\ day' = day
    BY <1>1 DEF LoadFile
  <2>3. tracks' = IF f.track # NoName /\ Valid(f.seasons) /\ f.track \notin DOMAIN tracks
                  THEN [t \in DOMAIN tracks \cup {f.track} |->
                          IF t = f.track THEN Parsed(f.seasons) ELSE tracks[t]]
                  ELSE tracks
    BY <1>1 DEF LoadFile
  <2> HIDE DEF f
  <2>4. ASSUME NEW t \in DOMAIN tracks' PROVE IsTrack(tracks'[t])
    <3>1. CASE t \in DOMAIN tracks /\ tracks'[t] = tracks[t]
      BY <3>1 DEF IInv, Resolvable
    <3>2. CASE tracks'[t] = Parsed(f.seasons) /\ Valid(f.seasons)
      BY <2>1, <3>2, ParsedIsTrack DEF IInv
    <3> QED  BY <2>3, <2>4, <3>1, <3>2
  <2>5. \A t \in DOMAIN tracks' : Resolvable(t)'
    BY <2>2, <2>4, TrackFrame DEF Resolvable
  <2> QED  BY <2>1, <2>2, <2>5 DEF IInv, IsCalendar, Days
<1>2. CASE NextDay
  <2>1. calendar' = calendar /\ tracks' = tracks /\ files' = files
    BY <1>2 DEF NextDay
  <2>2. day' \in Days
    BY <1>2 DEF NextDay, IInv, IsCalendar, Days
  <2>3. \A t \in DOMAIN tracks' : Resolvable(t)'
    BY <2>1, TrackFrame DEF IInv, Resolvable
  <2> QED  BY <2>1, <2>2, <2>3 DEF IInv, IsCalendar, Days, FilesType
<1>3. CASE UNCHANGED vars
  <2>1. \A t \in DOMAIN tracks' : Resolvable(t)'
    BY <1>3, TrackFrame DEF vars, IInv, Resolvable
  <2> QED  BY <1>3, <2>1 DEF vars, IInv, IsCalendar, Days, FilesType
<1> QED  BY <1>1, <1>2, <1>3 DEF Next

LEMMA InvariantHolds == Spec => []IInv
  BY InitInvariant, StepInvariant, PTL DEF Spec

---------------------------------------------------------------------------
(***************************************************************************)
(* Resolving a day                                                         *)
(***************************************************************************)
\* A resolution finds two seasons of the track, the current one the season of
\* the day's month, and a blend of at most the window.
LEMMA ResolveFinds ==
    ASSUME IsCalendar, NEW T, IsTrack(T), NEW d \in Days
    PROVE  LET now == Standing(T, d)
           IN  /\ now.cur \in DOMAIN T /\ now.prev \in DOMAIN T
               /\ MonthOfDay(d) \in T[now.cur].claims
               /\ now.blend.window \in Nat \ {0}
               /\ now.blend.into \in 0..now.blend.window
<1> DEFINE m == MonthOfDay(d)
           cur == SeasonOf(T, m)
<1>1. m \in Month
  BY MonthRange
<1>2. T \in Seq(Season) /\ T # <<>> /\ Len(T) \in Nat \ {0} /\ DOMAIN T = 1..Len(T)
  BY EmptySeq, LenProperties DEF IsTrack
<1>3. CASE Len(T) = 1
  <2>1. PICK n \in DOMAIN T : m \in T[n].claims
    BY <1>1 DEF IsTrack
  <2>2. n = 1
    BY <1>2, <1>3
  <2> QED  BY <1>2, <1>3, <2>1, <2>2 DEF Standing
<1>4. CASE Len(T) # 1
  <2>1. cur \in DOMAIN T /\ m \in T[cur].claims
    BY <1>1, OneSeason
  <2>2. T[cur] \in Season
    BY <1>2, <2>1, ElementOfSeq
  <2>3. T[cur].start \in Month /\ T[cur].window \in Nat
    BY <2>2 DEF Season
  <2>4. Previous(T, cur) \in DOMAIN T
    BY <2>3, BeforeRange, OneSeason DEF Previous
  <2>5. DaysInto(T[cur], d) \in Nat
    BY <2>3, DaysIntoRange DEF IsCalendar
  <2>6. Blend(T[cur], d).window \in Nat \ {0} /\ Blend(T[cur], d).into \in 0..Blend(T[cur], d).window
    BY <2>3, <2>5 DEF Blend
  <2>7. Standing(T, d) = [cur |-> cur, prev |-> Previous(T, cur), blend |-> Blend(T[cur], d)]
    BY <1>4 DEF Standing
  <2> HIDE DEF cur, m
  <2> QED  BY <2>1, <2>4, <2>6, <2>7 DEF m
<1> QED  BY <1>3, <1>4

\* A season's name finds a season of that name, itself when it is the only one.
LEMMA NamedFinds ==
    ASSUME NEW T, IsTrack(T), NEW n \in DOMAIN T
    PROVE  LET found == Named(T, T[n].name)
           IN  /\ \E k \in DOMAIN T : found = T[k] /\ T[k].name = T[n].name
               /\ found \in Season
               /\ DistinctNames(T) => found = T[n]
<1> DEFINE name == T[n].name
           bearers == {k \in DOMAIN T : T[k].name = name}
           First(k) == T[k].name = name /\ \A j \in 1..(k - 1) : T[j].name # name
           x == CHOOSE k \in DOMAIN T : First(k)
<1>1. T \in Seq(Season) /\ Len(T) \in Nat /\ DOMAIN T = 1..Len(T)
  BY LenProperties DEF IsTrack
<1>2. \E k \in DOMAIN T : First(k)
  <2>1. bearers \in SUBSET Nat /\ n \in bearers
    BY <1>1
  <2>2. PICK k \in bearers : \A j \in bearers : k <= j
    BY <2>1, Least
  <2>3. ASSUME NEW j \in 1..(k - 1) PROVE T[j].name # name
    <3>1. k \in 1..Len(T)
      BY <1>1
    <3>2. j \in DOMAIN T /\ ~(k <= j)
      BY <1>1, <3>1
    <3> QED  BY <2>2, <3>2
  <2> QED  BY <2>2, <2>3
<1>3. x \in DOMAIN T /\ First(x)
  BY <1>2
<1>4. Named(T, name) = T[x]
  BY DEF Named
<1>5. T[x] \in Season
  BY <1>1, <1>3, ElementOfSeq
<1> HIDE DEF x
<1> QED  BY <1>3, <1>4, <1>5 DEF DistinctNames

\* The indexing of Resolve, unchecked in the code, always finds a season that
\* claims the day's month and one before it, and the two names it hands out are
\* found again among the track's seasons (Track.season's "load-time validation
\* guarantees presence").
THEOREM ResolvesEveryDay ==
    Spec => [](\A t \in DOMAIN tracks :
                LET T == tracks[t]
                    at == Standing(T, day)
                    now == Resolve(T, day)
                IN  /\ at.cur \in DOMAIN T /\ at.prev \in DOMAIN T
                    /\ MonthOfDay(day) \in T[at.cur].claims
                    /\ \E n \in DOMAIN T : Named(T, now.cur) = T[n] /\ T[n].name = now.cur
                    /\ \E n \in DOMAIN T : Named(T, now.prev) = T[n] /\ T[n].name = now.prev)
<1>1. IInv => \A t \in DOMAIN tracks :
                LET T == tracks[t]
                    at == Standing(T, day)
                    now == Resolve(T, day)
                IN  /\ at.cur \in DOMAIN T /\ at.prev \in DOMAIN T
                    /\ MonthOfDay(day) \in T[at.cur].claims
                    /\ \E n \in DOMAIN T : Named(T, now.cur) = T[n] /\ T[n].name = now.cur
                    /\ \E n \in DOMAIN T : Named(T, now.prev) = T[n] /\ T[n].name = now.prev
  <2> SUFFICES ASSUME IInv, NEW t \in DOMAIN tracks
               PROVE  LET T == tracks[t]
                          at == Standing(T, day)
                          now == Resolve(T, day)
                      IN  /\ at.cur \in DOMAIN T /\ at.prev \in DOMAIN T
                          /\ MonthOfDay(day) \in T[at.cur].claims
                          /\ \E n \in DOMAIN T : Named(T, now.cur) = T[n] /\ T[n].name = now.cur
                          /\ \E n \in DOMAIN T : Named(T, now.prev) = T[n] /\ T[n].name = now.prev
    OBVIOUS
  <2> DEFINE T == tracks[t]
             at == Standing(T, day)
             now == Resolve(T, day)
  <2>1. IsCalendar /\ IsTrack(T) /\ day \in Days
    BY DEF IInv, Resolvable
  <2>2. at.cur \in DOMAIN T /\ at.prev \in DOMAIN T /\ MonthOfDay(day) \in T[at.cur].claims
    BY <2>1, ResolveFinds
  <2>3. now.cur = T[at.cur].name /\ now.prev = T[at.prev].name
    BY DEF Resolve
  <2> HIDE DEF T, at, now
  <2>4. \E n \in DOMAIN T : Named(T, now.cur) = T[n] /\ T[n].name = now.cur
    BY <2>1, <2>2, <2>3, NamedFinds
  <2>5. \E n \in DOMAIN T : Named(T, now.prev) = T[n] /\ T[n].name = now.prev
    BY <2>1, <2>2, <2>3, NamedFinds
  <2> QED  BY <2>2, <2>4, <2>5 DEF T, at, now
<1> QED  BY <1>1, InvariantHolds, PTL

\* The effective weight is the blend of the full weights of the two seasons
\* found by name.
LEMMA EffectiveBlends ==
    ASSUME IsCalendar, NEW T, IsTrack(T), NEW d \in Days
    PROVE  LET at == Standing(T, d)
               p == Named(T, T[at.prev].name)
               c == Named(T, T[at.cur].name)
           IN  /\ FullOdds(p) \in Nat /\ FullOdds(c) \in Nat
               /\ Effective(T, d).over = at.blend.window
               /\ Effective(T, d).odds = FullOdds(p) * at.blend.window
                                            + (FullOdds(c) - FullOdds(p)) * at.blend.into
               /\ DistinctNames(T) => p = T[at.prev] /\ c = T[at.cur]
<1> DEFINE at == Standing(T, d)
           p == Named(T, T[at.prev].name)
           c == Named(T, T[at.cur].name)
           w == at.blend.window
           i == at.blend.into
<1>0. w \in Int /\ i \in Int
  BY ResolveFinds
<1>1. at.prev \in DOMAIN T /\ at.cur \in DOMAIN T
  BY ResolveFinds
<1>2. /\ p \in Season /\ c \in Season
      /\ DistinctNames(T) => p = T[at.prev] /\ c = T[at.cur]
  <2> HIDE DEF at
  <2> QED  BY <1>1, NamedFinds
<1>3. p.factor \in Nat /\ p.extra \in Nat /\ c.factor \in Nat /\ c.extra \in Nat
  BY <1>2 DEF Season
<1>4. FullOdds(p) = BaseWeight * p.factor + p.extra /\ FullOdds(c) = BaseWeight * c.factor + c.extra
  BY DEF FullOdds
<1>5. FullOdds(p) \in Nat /\ FullOdds(c) \in Nat
  BY <1>3, <1>4, BaseAssumption
<1>6. /\ Effective(T, d).over = w
      /\ Effective(T, d).odds = BaseWeight * (p.factor * w + (c.factor - p.factor) * i)
                                  + (p.extra * w + (c.extra - p.extra) * i)
  BY DEF Effective, Resolve, Lerp
<1> HIDE DEF p, c, w, i
<1>7. Effective(T, d).odds = FullOdds(p) * w + (FullOdds(c) - FullOdds(p)) * i
  BY <1>0, <1>3, <1>4, <1>6, BlendLinear, BaseAssumption
<1> QED  BY <1>2, <1>5, <1>6, <1>7 DEF p, c, w, i

\* The effective weight of a track is never negative, whatever names its seasons
\* bear, and where they are distinct it stays between what the season of the
\* day and the one before make of it alone (EffectiveClimate, lerp, clamp).
THEOREM OddsBetween == Spec => []OddsStayBetween
<1>1. IInv => OddsStayBetween
  <2> SUFFICES ASSUME IInv, NEW t \in DOMAIN tracks
               PROVE  LET at == Standing(tracks[t], day)
                          e == Effective(tracks[t], day)
                          a == FullOdds(tracks[t][at.prev]) * e.over
                          b == FullOdds(tracks[t][at.cur]) * e.over
                      IN  /\ e.odds >= 0
                          /\ DistinctNames(tracks[t]) =>
                                (a <= e.odds /\ e.odds <= b) \/ (b <= e.odds /\ e.odds <= a)
    BY DEF OddsStayBetween
  <2> DEFINE T == tracks[t]
             at == Standing(T, day)
             p == Named(T, T[at.prev].name)
             q == Named(T, T[at.cur].name)
             a == FullOdds(p)
             c == FullOdds(q)
             w == at.blend.window
             i == at.blend.into
  <2>1. IsCalendar /\ IsTrack(T) /\ day \in Days
    BY DEF IInv, Resolvable
  <2>2. /\ a \in Nat /\ c \in Nat
        /\ Effective(T, day).over = w /\ Effective(T, day).odds = a * w + (c - a) * i
        /\ DistinctNames(T) => p = T[at.prev] /\ q = T[at.cur]
    BY <2>1, EffectiveBlends
  <2>3. w \in Nat /\ i \in 0..w
    BY <2>1, ResolveFinds
  <2> HIDE DEF p, q, w, i
  <2>4. /\ a * w + (c - a) * i \in Nat
        /\ \/ a * w <= a * w + (c - a) * i /\ a * w + (c - a) * i <= c * w
           \/ c * w <= a * w + (c - a) * i /\ a * w + (c - a) * i <= a * w
    BY <2>2, <2>3, BlendBetween
  <2>5. DistinctNames(T) => a = FullOdds(T[at.prev]) /\ c = FullOdds(T[at.cur])
    BY <2>2
  <2> HIDE DEF a, c, T, at
  <2>6. Effective(T, day).odds >= 0
    BY <2>2, <2>4
  <2>7. ASSUME DistinctNames(T)
        PROVE  LET e == Effective(T, day)
                   x == FullOdds(T[at.prev]) * e.over
                   y == FullOdds(T[at.cur]) * e.over
               IN  (x <= e.odds /\ e.odds <= y) \/ (y <= e.odds /\ e.odds <= x)
    BY <2>2, <2>4, <2>5, <2>7
  <2> QED  BY <2>6, <2>7 DEF T, at
<1> QED  BY <1>1, InvariantHolds, PTL

---------------------------------------------------------------------------
(***************************************************************************)
(* From day to day                                                         *)
(***************************************************************************)
DayAfter(d) == IF d = calendar.days THEN 1 ELSE d + 1

\* The day after is in the same month, or on the first day of the next one.
LEMMA MonthTurns ==
    ASSUME IsCalendar, EveryMonthHasADay, NEW d \in Days
    PROVE  LET e == DayAfter(d)
               m == MonthOfDay(e)
           IN  /\ e \in Days
               /\ \/ m = MonthOfDay(d) /\ FirstDayOfMonth(m) # e
                  \/ Before(m) = MonthOfDay(d) /\ FirstDayOfMonth(m) = e
<1>1. CASE d = calendar.days
  <2>1. DayAfter(d) = 1 /\ 1 \in Days
    BY <1>1 DEF DayAfter, Days, IsCalendar
  <2>2. MonthOfDay(1) = 1 /\ Before(1) = calendar.months /\ FirstDayOfMonth(1) = 1
    BY FirstMonth DEF Before, FirstDayOfMonth
  <2>3. MonthOfDay(d) = calendar.months
    BY <1>1, LastMonth
  <2> QED  BY <2>1, <2>2, <2>3
<1>2. CASE d # calendar.days
  <2> DEFINE m == MonthOfDay(d + 1)
  <2>1. DayAfter(d) = d + 1 /\ d + 1 \in Days
    BY <1>2 DEF DayAfter, Days, IsCalendar
  <2>2. m \in Month /\ MonthOfDay(d) \in Month /\ m \in {MonthOfDay(d), MonthOfDay(d) + 1}
    BY <2>1, NextMonth, MonthRange
  <2>3. ASSUME m = MonthOfDay(d) + 1
        PROVE  Before(m) = MonthOfDay(d) /\ FirstDayOfMonth(m) = d + 1
    <3>1. FirstDayOfMonth(m) \in Days /\ FirstDayOfMonth(m) <= d + 1 /\ ~(FirstDayOfMonth(m) <= d)
      BY <2>1, <2>2, <2>3, FirstDay DEF Month, IsCalendar
    <3> QED  BY <3>1, <2>2, <2>3 DEF Before, Month, Days, IsCalendar
  <2>4. ASSUME m = MonthOfDay(d) PROVE FirstDayOfMonth(m) # d + 1
    <3>1. FirstDayOfMonth(m) <= d
      BY <2>2, <2>4, FirstDay DEF Month, IsCalendar
    <3> QED  BY <3>1, <2>2, FirstDay DEF Days, IsCalendar
  <2> QED  BY <2>1, <2>2, <2>3, <2>4
<1> QED  BY <1>1, <1>2

\* With more days than months a month's first day is its own.
LEMMA FirstOfMonth ==
    ASSUME IsCalendar, EveryMonthHasADay, NEW m \in Month
    PROVE  MonthOfDay(FirstDayOfMonth(m)) = m
<1> DEFINE f == FirstDayOfMonth(m)
<1>1. f \in Days /\ m <= MonthOfDay(f) /\ MonthOfDay(f) \in Month
  BY FirstDay, MonthRange DEF Days, IsCalendar
<1>2. CASE f = 1
  BY <1>1, <1>2, FirstMonth DEF Month, IsCalendar
<1>3. CASE f # 1
  <2>1. f - 1 \in Days /\ (f - 1) + 1 = f /\ ~(f <= f - 1)
    BY <1>1, <1>3 DEF Days, IsCalendar
  <2>2. ~(m <= MonthOfDay(f - 1)) /\ MonthOfDay(f - 1) \in Month
    BY <2>1, FirstDay, MonthRange
  <2>3. MonthOfDay(f) \in {MonthOfDay(f - 1), MonthOfDay(f - 1) + 1}
    BY <1>1, <2>1, NextMonth
  <2> QED  BY <1>1, <2>2, <2>3 DEF Month, IsCalendar
<1> QED  BY <1>2, <1>3

\* The days into a season count up, unless the day after is the first of its
\* first month.
LEMMA DaysCount ==
    ASSUME IsCalendar, NEW s, s.start \in Month, NEW d \in Days,
           FirstDayOfMonth(s.start) # DayAfter(d)
    PROVE  DaysInto(s, DayAfter(d)) = DaysInto(s, d) + 1
<1>1. FirstDayOfMonth(s.start) \in Days
  BY FirstDay
<1> QED  BY <1>1 DEF DaysInto, DayAfter, Days, IsCalendar

LEMMA FirstDayCounts ==
    ASSUME IsCalendar, NEW s, s.start \in Month
    PROVE  DaysInto(s, FirstDayOfMonth(s.start)) = 0
  BY FirstDay DEF DaysInto, Days, IsCalendar

\* A day after another is in the same season, one day further into it, or on
\* the first day of the season that follows.
LEMMA SeasonTurns ==
    ASSUME IsCalendar, EveryMonthHasADay, NEW T, IsTrack(T), Len(T) # 1, NEW d \in Days
    PROVE  LET e == DayAfter(d)
               now == SeasonOf(T, MonthOfDay(d))
               next == SeasonOf(T, MonthOfDay(e))
           IN  IF next = now THEN DaysInto(T[next], e) = DaysInto(T[now], d) + 1
               ELSE /\ Previous(T, next) = now /\ DaysInto(T[next], e) = 0
                    /\ MonthOfDay(e) \notin T[now].claims
                    /\ MonthOfDay(e) # MonthOfDay(d) /\ Before(MonthOfDay(e)) = MonthOfDay(d)
<1> DEFINE e == DayAfter(d)
           k == MonthOfDay(d)
           m == MonthOfDay(e)
           now == SeasonOf(T, k)
           next == SeasonOf(T, m)
<1>1. /\ e \in Days
      /\ (m = k /\ FirstDayOfMonth(m) # e) \/ (Before(m) = k /\ FirstDayOfMonth(m) = e)
  BY MonthTurns
<1>2. k \in Month /\ m \in Month
  BY <1>1, MonthRange
<1>3. /\ now \in DOMAIN T /\ k \in T[now].claims
      /\ \A n \in DOMAIN T : k \in T[n].claims => n = now
      /\ next \in DOMAIN T /\ m \in T[next].claims
      /\ \A n \in DOMAIN T : m \in T[n].claims => n = next
  BY <1>2, OneSeason
<1>4. T[next] \in Season
  BY <1>3, ElementOfSeq, LenProperties DEF IsTrack
<1>5. T[next].start \in Month
  BY <1>4 DEF Season
<1>6. \A x \in T[next].claims : Before(x) \notin T[next].claims <=> x = T[next].start
  BY <1>3, NoneWhole DEF IsTrack
<1>7. CASE next = now
  <2>1. FirstDayOfMonth(T[next].start) # e
    <3> SUFFICES ASSUME FirstDayOfMonth(T[next].start) = e PROVE FALSE
      OBVIOUS
    <3>1. T[next].start = m
      BY <1>5, FirstOfMonth
    <3>2. Before(m) \notin T[next].claims
      BY <1>3, <1>6, <3>1
    <3>3. Before(m) = k
      BY <1>1, <3>1
    <3> QED  BY <3>2, <3>3, <1>3, <1>7
  <2> QED  BY <2>1, <1>5, <1>7, DaysCount
<1>8. CASE next # now
  <2>1. m # k /\ Before(m) = k /\ FirstDayOfMonth(m) = e
    BY <1>1, <1>8
  <2>2. k \notin T[next].claims /\ m \notin T[now].claims
    BY <1>3, <1>8
  <2>3. T[next].start = m
    BY <1>6, <1>3, <2>1, <2>2
  <2>4. Previous(T, next) = now
    BY <2>1, <2>3 DEF Previous
  <2>5. DaysInto(T[next], e) = 0
    BY <1>5, <2>1, <2>3, FirstDayCounts
  <2> QED  BY <1>8, <2>1, <2>2, <2>4, <2>5
<1> QED  BY <1>7, <1>8

\* As the days pass, a season gives way to the one that resolves it as its
\* predecessor, and the days into it count up by one from 0 (Resolve, daysInto,
\* previousSeason).
THEOREM SeasonsInOrder == Spec => SeasonsTurnInOrder
<1>1. IInv /\ [Next]_vars =>
        [EveryMonthHasADay /\ day' # day =>
            \A t \in DOMAIN tracks : Len(tracks[t]) > 1 =>
                LET now == Current(t, day)
                    next == Current(t, day')
                IN  IF next = now
                    THEN DaysInto(tracks[t][next], day') = DaysInto(tracks[t][now], day) + 1
                    ELSE /\ Previous(tracks[t], next) = now
                         /\ DaysInto(tracks[t][next], day') = 0]_vars
  <2> SUFFICES ASSUME IInv, Next, EveryMonthHasADay, day' # day,
                      NEW t \in DOMAIN tracks, Len(tracks[t]) > 1
               PROVE  LET now == Current(t, day)
                          next == Current(t, day')
                      IN  IF next = now
                          THEN DaysInto(tracks[t][next], day') = DaysInto(tracks[t][now], day) + 1
                          ELSE /\ Previous(tracks[t], next) = now
                               /\ DaysInto(tracks[t][next], day') = 0
    OBVIOUS
  <2> DEFINE T == tracks[t]
  <2>1. day' = DayAfter(day)
    BY DEF Next, LoadFile, NextDay, DayAfter
  <2>2. IsCalendar /\ IsTrack(T) /\ day \in Days
    BY DEF IInv, Resolvable
  <2>3. Len(T) # 1
    BY <2>2, LenProperties DEF IsTrack
  <2>4. ASSUME NEW d PROVE Current(t, d) = SeasonOf(T, MonthOfDay(d))
    BY <2>3 DEF Current, Standing
  <2> HIDE DEF T
  <2> DEFINE now == SeasonOf(T, MonthOfDay(day))
             next == SeasonOf(T, MonthOfDay(DayAfter(day)))
  <2>5. IF next = now THEN DaysInto(T[next], DayAfter(day)) = DaysInto(T[now], day) + 1
        ELSE Previous(T, next) = now /\ DaysInto(T[next], DayAfter(day)) = 0
    BY <2>2, <2>3, SeasonTurns
  <2> QED  BY <2>1, <2>4, <2>5 DEF T
<1> QED  BY <1>1, InvariantHolds, PTL DEF Spec, SeasonsTurnInOrder

---------------------------------------------------------------------------
(***************************************************************************)
(* Runs of months                                                          *)
(***************************************************************************)
\* How many months it takes to go from s on to m, round the year if need be.
Off(s, m) == IF m >= s THEN m - s ELSE m - s + calendar.months

LEMMA OffRange ==
    ASSUME IsCalendar, NEW s \in Month, NEW m \in Month
    PROVE  Off(s, m) \in 0..(calendar.months - 1)
  BY DEF Off, Month, IsCalendar

LEMMA OffInjective ==
    ASSUME IsCalendar, NEW s \in Month, NEW m \in Month, NEW x \in Month, Off(s, m) = Off(s, x)
    PROVE  m = x
  BY DEF Off, Month, IsCalendar

LEMMA OffBefore ==
    ASSUME IsCalendar, NEW s \in Month, NEW m \in Month, m # s
    PROVE  Off(s, m) = Off(s, Before(m)) + 1
  BY DEF Off, Before, Month, IsCalendar

LEMMA HasAfter ==
    ASSUME IsCalendar, NEW m \in Month PROVE \E n \in Month : Before(n) = m
<1>1. CASE m = calendar.months
  BY <1>1 DEF Before, Month, IsCalendar
<1>2. CASE m # calendar.months
  <2>1. m + 1 \in Month /\ m + 1 # 1 /\ (m + 1) - 1 = m
    BY <1>2 DEF Month, IsCalendar
  <2>2. Before(m + 1) = m
    BY <2>1 DEF Before
  <2> QED  BY <2>1, <2>2
<1> QED  BY <1>1, <1>2

\* Months of which only s may lack its predecessor are a run from s: with a
\* month they hold all those on the way to it.
LEMMA RunFromStart ==
    ASSUME IsCalendar, NEW C \in SUBSET Month, NEW s \in Month,
           \A m \in C : Before(m) \notin C => m = s,
           NEW m \in C, NEW x \in Month, Off(s, x) <= Off(s, m)
    PROVE  x \in C
<1> SUFFICES ASSUME x \notin C PROVE FALSE
  OBVIOUS
<1> DEFINE Missing == {y \in Month : y \notin C /\ Off(s, y) <= Off(s, m)}
           S == {k \in Nat : \E y \in Missing : k = Off(s, m) - Off(s, y)}
<1>1. \A y \in Missing : Off(s, m) - Off(s, y) \in Nat
  BY OffRange
<1>2. S # {} /\ S \in SUBSET Nat
  BY <1>1
<1>3. PICK k \in S : \A j \in S : k <= j
  BY <1>2, Least
<1>4. PICK y \in Missing : k = Off(s, m) - Off(s, y)
  BY <1>3
<1>5. PICK n \in Month : Before(n) = y
  BY <1>4, HasAfter
<1>6. y # m /\ Off(s, y) # Off(s, m)
  BY <1>4, OffInjective
<1>7. /\ Off(s, y) \in 0..(calendar.months - 1) /\ Off(s, m) \in 0..(calendar.months - 1)
      /\ Off(s, n) \in 0..(calendar.months - 1)
      /\ Off(s, y) < Off(s, m)
  BY <1>4, <1>6, OffRange DEF IsCalendar
<1>8. n # s
  <2> SUFFICES ASSUME n = s PROVE FALSE
    OBVIOUS
  <2>1. Off(s, y) = calendar.months - 1
    BY <1>5 DEF Off, Before, Month, IsCalendar
  <2> QED  BY <2>1, <1>7 DEF IsCalendar
<1>9. Off(s, n) = Off(s, y) + 1
  BY <1>5, <1>8, OffBefore
<1>10. n \notin C
  BY <1>4, <1>5, <1>8
<1>11. Off(s, m) - Off(s, n) \in S
  BY <1>7, <1>9, <1>10
<1> QED  BY <1>3, <1>4, <1>7, <1>9, <1>11

\* Of two days counted from day f, round the year if need be.
LEMMA Wrapped ==
    ASSUME NEW n \in Nat, NEW f \in 1..n, NEW x \in 1..n, NEW d \in 1..n,
           \/ f <= x /\ f <= d /\ x <= d
           \/ ~(f <= x) /\ ~(f <= d) /\ x <= d
           \/ f <= x /\ ~(f <= d)
    PROVE  (IF x - f < 0 THEN x - f + n ELSE x - f) <= (IF d - f < 0 THEN d - f + n ELSE d - f)
  OBVIOUS

\* The season's last day is the furthest into it.
LEMMA LastDayFurthest ==
    ASSUME IsCalendar, EveryMonthHasADay, NEW T, IsTrack(T), Len(T) # 1, NEW d \in Days,
           SeasonOf(T, MonthOfDay(DayAfter(d))) # SeasonOf(T, MonthOfDay(d)),
           NEW x \in Days, MonthOfDay(x) \in T[SeasonOf(T, MonthOfDay(d))].claims
    PROVE  DaysInto(T[SeasonOf(T, MonthOfDay(d))], x)
             <= DaysInto(T[SeasonOf(T, MonthOfDay(d))], d)
<1> DEFINE now == SeasonOf(T, MonthOfDay(d))
           C == T[now].claims
           s == T[now].start
           k == MonthOfDay(d)
           y == MonthOfDay(x)
           e == DayAfter(d)
           n == MonthOfDay(e)
           F == FirstDayOfMonth(s)
<1>1. e \in Days /\ k \in Month /\ y \in Month /\ n \in Month
  BY MonthTurns, MonthRange
<1>2. now \in DOMAIN T /\ k \in C
  BY <1>1, OneSeason
<1>3. n \notin C /\ n # k /\ Before(n) = k
  BY SeasonTurns
<1>4. T[now] \in Season /\ s \in C
  BY <1>2, ElementOfSeq, LenProperties DEF IsTrack
<1>5. C \in SUBSET Month /\ s \in Month
  BY <1>4 DEF Season
<1>6. \A m \in C : Before(m) \notin C => m = s
  BY <1>2, NoneWhole DEF IsTrack
<1>7. F \in Days /\ (F <= x <=> s <= y) /\ (F <= d <=> s <= k)
  BY <1>5, FirstDay
<1>8. x <= d => y <= k
  BY MonthMonotone
<1>9. d <= x => k <= y
  BY MonthMonotone
<1>10. y = k => x <= d
  <2> SUFFICES ASSUME y = k, ~(x <= d) PROVE FALSE
    BY DEF Days, IsCalendar
  <2>1. e = d + 1 /\ d <= e /\ e <= x
    BY <1>1 DEF DayAfter, Days, IsCalendar
  <2>2. k <= n /\ n <= y
    BY <2>1, <1>1, MonthMonotone
  <2> QED  BY <2>2, <1>1, <1>3 DEF Month, IsCalendar
<1> HIDE DEF now, C, s, k, y, e, n, F
<1>11. Off(s, y) <= Off(s, k)
  <2> SUFFICES ASSUME Off(s, k) < Off(s, y) PROVE FALSE
    BY <1>1, <1>5, OffRange
  <2>1. Off(s, k) < calendar.months - 1
    BY <1>1, <1>5, OffRange DEF IsCalendar
  <2>2. n # s
    BY <1>3, <1>4
  <2>3. Off(s, n) = Off(s, k) + 1
    BY <1>1, <1>3, <1>5, <2>2, OffBefore
  <2>4. Off(s, n) <= Off(s, y)
    BY <2>3, <1>1, <1>5, OffRange
  <2>5. y \in C
    BY DEF y, C, now
  <2>6. n \in C
    BY <2>4, <2>5, <1>1, <1>5, <1>6, RunFromStart
  <2> QED  BY <2>6, <1>3
<1>12. \/ F <= x /\ F <= d /\ x <= d
       \/ ~(F <= x) /\ ~(F <= d) /\ x <= d
       \/ F <= x /\ ~(F <= d)
  <2>1. CASE y = k
    BY <1>7, <1>10, <2>1
  <2>2. CASE y < k
    <3>1. x <= d
      BY <1>1, <1>9, <2>2 DEF Days, Month, IsCalendar
    <3>2. s <= y \/ k < s
      BY <1>11, <2>2, <1>1, <1>5 DEF Off, Month, IsCalendar
    <3> QED  BY <3>1, <3>2, <1>7, <1>1, <1>5, <2>2 DEF Month, IsCalendar
  <2>3. CASE k < y
    <3>1. s <= y /\ k < s
      BY <1>11, <2>3, <1>1, <1>5 DEF Off, Month, IsCalendar
    <3> QED  BY <3>1, <1>7, <1>1, <1>5 DEF Month, IsCalendar
  <2> QED  BY <2>1, <2>2, <2>3, <1>1 DEF Month, IsCalendar
<1>13. /\ DaysInto(T[now], x) = IF x - F < 0 THEN x - F + calendar.days ELSE x - F
       /\ DaysInto(T[now], d) = IF d - F < 0 THEN d - F + calendar.days ELSE d - F
  BY DEF DaysInto, F, s
<1>14. DaysInto(T[now], x) <= DaysInto(T[now], d)
  BY <1>7, <1>12, <1>13, Wrapped DEF IsCalendar, Days
<1> QED  BY <1>14 DEF now

\* On its last day a season is as many days old as it has, less one.
LEMMA LastDayCounts ==
    ASSUME IsCalendar, EveryMonthHasADay, NEW T, IsTrack(T), Len(T) # 1, NEW d \in Days,
           SeasonOf(T, MonthOfDay(DayAfter(d))) # SeasonOf(T, MonthOfDay(d))
    PROVE  LET now == SeasonOf(T, MonthOfDay(d))
           IN  DaysOf(T, now) \in Nat /\ DaysOf(T, now) <= DaysInto(T[now], d) + 1
<1> DEFINE now == SeasonOf(T, MonthOfDay(d))
           S == {x \in 1..calendar.days : MonthOfDay(x) \in T[now].claims}
           i == DaysInto(T[now], d)
           count == [x \in S |-> DaysInto(T[now], x)]
<1>1. now \in DOMAIN T
  BY MonthRange, OneSeason
<1>2. T[now] \in Season
  BY <1>1, ElementOfSeq, LenProperties DEF IsTrack
<1>3. T[now].start \in Month
  BY <1>2 DEF Season
<1>4. i \in Nat /\ \A x \in S : DaysInto(T[now], x) \in Nat
  BY <1>3, DaysIntoRange DEF Days, IsCalendar
<1>5. \A x \in S : DaysInto(T[now], x) <= i
  BY LastDayFurthest DEF Days
<1>6. \A x, z \in S : DaysInto(T[now], x) = DaysInto(T[now], z) => x = z
  <2>1. FirstDayOfMonth(T[now].start) \in Days
    BY <1>3, FirstDay
  <2> QED  BY <2>1 DEF DaysInto, Days, IsCalendar
<1> HIDE DEF i, now
<1>7. count \in Injection(S, 0..i)
  <2>1. count \in [S -> 0..i]
    BY <1>4, <1>5
  <2>2. \A x, z \in S : count[x] = count[z] => x = z
    BY <1>6
  <2> HIDE DEF count, S
  <2> QED  BY <2>1, <2>2 DEF Injection, IsInjective
<1>8. IsFiniteSet(0..i) /\ Cardinality(0..i) = i + 1
  <2>1. IsFiniteSet(0..i) /\ Cardinality(0..i) = IF 0 > i THEN 0 ELSE i - 0 + 1
    BY <1>4, FS_Interval
  <2> QED  BY <2>1, <1>4
<1> HIDE DEF count, S
<1>9. IsFiniteSet(S) /\ Cardinality(S) <= i + 1
  BY <1>7, <1>8, FS_Injection
<1>10. Cardinality(S) \in Nat
  BY <1>9, FS_CardinalityType
<1> QED  BY <1>9, <1>10 DEF DaysOf, S, i, now

---------------------------------------------------------------------------
(***************************************************************************)
(* How far the odds move in a day                                          *)
(***************************************************************************)
LEMMA GapNat == ASSUME NEW x \in Int, NEW y \in Int PROVE Gap(x, y) \in Nat
  BY DEF Gap

\* Two weights that are both the full weight c do not differ.
LEMMA NoMove ==
    ASSUME NEW c \in Nat, NEW v \in Nat, NEW w \in Nat
    PROVE  Gap((c * v) * w, (c * w) * v) = 0
<1>1. (c * v) * w = (c * w) * v /\ (c * v) * w \in Nat
  OBVIOUS
<1> QED  BY <1>1 DEF Gap

\* Weights that differ by one share of the way from a to c.
LEMMA OneShare ==
    ASSUME NEW a \in Nat, NEW c \in Nat, NEW w \in Nat, NEW v \in Nat,
           NEW x \in Int, NEW y \in Int, y = x + (c - a) * v
    PROVE  Gap(x, y) * w <= (Gap(a, c) * w) * v
<1>1. Gap(x, y) = Gap(a, c) * v
  <2>1. CASE a < c
    <3> DEFINE k == c - a
    <3>1. k \in Nat /\ Gap(a, c) = k
      BY <2>1 DEF Gap
    <3> HIDE DEF k
    <3>2. k * v \in Nat
      BY <3>1
    <3>3. y = x + k * v
      BY DEF k
    <3> QED  BY <3>1, <3>2, <3>3 DEF Gap
  <2>2. CASE ~(a < c)
    <3> DEFINE k == a - c
    <3>1. k \in Nat /\ Gap(a, c) = k /\ c - a = -k
      BY <2>2 DEF Gap
    <3> HIDE DEF k
    <3>2. k * v \in Nat /\ (c - a) * v = -(k * v)
      BY <3>1
    <3> QED  BY <3>1, <3>2 DEF Gap
  <2> QED  BY <2>1, <2>2
<1>2. Gap(a, c) \in Nat
  BY GapNat
<1> HIDE DEF Gap
<1>3. (Gap(a, c) * v) * w = (Gap(a, c) * w) * v /\ (Gap(a, c) * w) * v \in Nat
  BY <1>2
<1> QED  BY <1>1, <1>3

\* Where the track stands on a day of the season with n days into it.
LEMMA BlendOf ==
    ASSUME IsCalendar, NEW T, IsTrack(T), Len(T) # 1, NEW d \in Days
    PROVE  LET now == Standing(T, d)
               cur == SeasonOf(T, MonthOfDay(d))
               w == T[cur].window
               n == DaysInto(T[cur], d)
           IN  /\ now.cur = cur /\ now.prev = Previous(T, cur) /\ w \in Nat /\ n \in Nat
               /\ cur \in DOMAIN T
               /\ now.blend.into = IF w = 0 \/ n > w THEN 1 ELSE n
               /\ now.blend.window = IF w = 0 \/ n > w THEN 1 ELSE w
<1> DEFINE cur == SeasonOf(T, MonthOfDay(d))
<1>1. cur \in DOMAIN T
  BY MonthRange, OneSeason
<1>2. T[cur] \in Season
  BY <1>1, ElementOfSeq, LenProperties DEF IsTrack
<1>3. T[cur].start \in Month /\ T[cur].window \in Nat
  BY <1>2 DEF Season
<1>4. DaysInto(T[cur], d) \in Nat
  BY <1>3, DaysIntoRange DEF IsCalendar
<1>5. Standing(T, d) = [cur |-> cur, prev |-> Previous(T, cur), blend |-> Blend(T[cur], d)]
  BY DEF Standing
<1> HIDE DEF cur
<1> QED  BY <1>1, <1>3, <1>4, <1>5 DEF Blend, cur

\* Identities of blends: at the end of the window the season has its full
\* weight, and a day is one share.
LEMMA BlendEnds ==
    ASSUME NEW a \in Int, NEW c \in Int, NEW w \in Int
    PROVE  a * w + (c - a) * w = c * w
  OBVIOUS

LEMMA LastShare ==
    ASSUME NEW a \in Int, NEW c \in Int, NEW w \in Int, NEW v \in Int
    PROVE  (c * v) * w = (a * w + (c - a) * (w - 1)) * v + (c - a) * v
  OBVIOUS

LEMMA AnotherShare ==
    ASSUME NEW a \in Int, NEW c \in Int, NEW w \in Int, NEW n \in Int
    PROVE  (a * w + (c - a) * (n + 1)) * w = (a * w + (c - a) * n) * w + (c - a) * w
  OBVIOUS

\* Odds x over v and y over u are at most one of w shares of the way from a to
\* c apart, none if there is no window.
Gentle(a, c, w, x, v, y, u) ==
    IF w = 0 THEN Gap(x * u, y * v) = 0 ELSE Gap(x * u, y * v) * w <= Gap(a, c) * v * u

LEMMA GentleIfFull ==
    ASSUME NEW a \in Nat, NEW c \in Nat, NEW w \in Nat, NEW v \in Nat, NEW u \in Nat
    PROVE  Gentle(a, c, w, c * v, v, c * u, u)
<1>1. Gap((c * v) * u, (c * u) * v) = 0
  BY NoMove
<1>2. Gap(a, c) \in Nat
  BY GapNat
<1>3. Gap(a, c) * v * u \in Nat
  BY <1>2
<1> QED  BY <1>1, <1>3 DEF Gentle

\* Into(w, n) over Over(w, n): the blend n days into a season of window w.
Into(w, n) == IF w = 0 \/ n > w THEN 1 ELSE n
Over(w, n) == IF w = 0 \/ n > w THEN 1 ELSE w
Odds(a, c, w, n) == a * Over(w, n) + (c - a) * Into(w, n)

LEMMA FullAfterWindow ==
    ASSUME NEW a \in Nat, NEW c \in Nat, NEW w \in Nat, NEW n \in Nat, w <= n
    PROVE  Odds(a, c, w, n) = c * Over(w, n) /\ Over(w, n) \in Nat
<1>1. Into(w, n) = Over(w, n) /\ Over(w, n) \in Nat
  BY DEF Into, Over
<1> QED  BY <1>1, BlendEnds DEF Odds

\* From one day of a season to the next.
LEMMA GentleWithin ==
    ASSUME NEW a \in Nat, NEW c \in Nat, NEW w \in Nat, NEW n \in Nat
    PROVE  Gentle(a, c, w, Odds(a, c, w, n), Over(w, n), Odds(a, c, w, n + 1), Over(w, n + 1))
<1>1. CASE w <= n
  <2> DEFINE k == n + 1
  <2>1. w <= k /\ k \in Nat
    BY <1>1
  <2> HIDE DEF k
  <2>2. Odds(a, c, w, n) = c * Over(w, n) /\ Over(w, n) \in Nat
    BY <1>1, FullAfterWindow
  <2>3. Odds(a, c, w, k) = c * Over(w, k) /\ Over(w, k) \in Nat
    BY <2>1, FullAfterWindow
  <2>4. Gentle(a, c, w, c * Over(w, n), Over(w, n), c * Over(w, k), Over(w, k))
    BY <2>2, <2>3, GentleIfFull
  <2> QED  BY <2>2, <2>3, <2>4 DEF k
<1>2. CASE n < w
  <2>1. Over(w, n) = w /\ Into(w, n) = n /\ Over(w, n + 1) = w /\ Into(w, n + 1) = n + 1
    BY <1>2 DEF Over, Into
  <2> DEFINE x == a * w + (c - a) * n
             y == a * w + (c - a) * (n + 1)
  <2>2. x \in Int /\ y \in Int /\ x * w \in Int /\ y * w \in Int
    OBVIOUS
  <2>3. y * w = x * w + (c - a) * w
    BY AnotherShare
  <2>4. Odds(a, c, w, n) = x /\ Odds(a, c, w, n + 1) = y
    BY <2>1 DEF Odds
  <2> HIDE DEF x, y
  <2>5. Gap(x * w, y * w) * w <= (Gap(a, c) * w) * w
    BY <2>2, <2>3, OneShare
  <2> QED  BY <1>2, <2>1, <2>4, <2>5 DEF Gentle
<1> QED  BY <1>1, <1>2

\* From the last day of a season, of which the window does not stick out, to
\* the first of one that starts from its full weight.
LEMMA GentleAcross ==
    ASSUME NEW a \in Nat, NEW c \in Nat, NEW w \in Nat, NEW n \in Nat, w <= n + 1, NEW u \in Nat
    PROVE  Gentle(a, c, w, Odds(a, c, w, n), Over(w, n), c * u, u)
<1>1. CASE w <= n
  <2>1. Odds(a, c, w, n) = c * Over(w, n) /\ Over(w, n) \in Nat
    BY <1>1, FullAfterWindow
  <2>2. Gentle(a, c, w, c * Over(w, n), Over(w, n), c * u, u)
    BY <2>1, GentleIfFull
  <2> QED  BY <2>1, <2>2
<1>2. CASE n < w
  <2>1. w = n + 1 /\ n = w - 1 /\ Over(w, n) = w /\ Into(w, n) = w - 1
    BY <1>2 DEF Over, Into
  <2> DEFINE x == a * w + (c - a) * (w - 1)
             y == c * u
  <2>2. x \in Int /\ y \in Int /\ x * u \in Int /\ y * w \in Int
    OBVIOUS
  <2>3. y * w = x * u + (c - a) * u
    BY LastShare
  <2>4. Odds(a, c, w, n) = x
    BY <2>1 DEF Odds
  <2> HIDE DEF x, y
  <2>5. Gap(x * u, y * w) * w <= (Gap(a, c) * w) * u
    BY <2>2, <2>3, OneShare
  <2> QED  BY <1>2, <2>1, <2>4, <2>5 DEF Gentle, y
<1> QED  BY <1>1, <1>2

\* The odds of a day, by the days into its season.
LEMMA OddsOfDay ==
    ASSUME IsCalendar, NEW T, IsTrack(T), Len(T) # 1, DistinctNames(T), NEW d \in Days
    PROVE  LET cur == SeasonOf(T, MonthOfDay(d))
               a == FullOdds(T[Previous(T, cur)])
               c == FullOdds(T[cur])
               w == T[cur].window
               n == DaysInto(T[cur], d)
           IN  /\ a \in Nat /\ c \in Nat /\ w \in Nat /\ n \in Nat /\ cur \in DOMAIN T
               /\ Standing(T, d).cur = cur /\ Standing(T, d).prev = Previous(T, cur)
               /\ Effective(T, d).odds = Odds(a, c, w, n) /\ Effective(T, d).over = Over(w, n)
<1> DEFINE now == Standing(T, d)
           cur == SeasonOf(T, MonthOfDay(d))
           w == T[cur].window
           n == DaysInto(T[cur], d)
<1>1. /\ now.cur = cur /\ now.prev = Previous(T, cur) /\ w \in Nat /\ n \in Nat /\ cur \in DOMAIN T
      /\ now.blend.into = Into(w, n) /\ now.blend.window = Over(w, n)
  BY BlendOf DEF Into, Over
<1>2. LET a == FullOdds(T[now.prev])
          c == FullOdds(T[now.cur])
      IN  /\ a \in Nat /\ c \in Nat
          /\ Effective(T, d).over = now.blend.window
          /\ Effective(T, d).odds = a * now.blend.window + (c - a) * now.blend.into
  BY EffectiveBlends
<1> HIDE DEF now, cur, w, n
<1> QED  BY <1>1, <1>2 DEF Odds, now, cur, w, n

\* A day moves the odds of a track whose windows fit by one share at most.
LEMMA OddsStep ==
    ASSUME IsCalendar, EveryMonthHasADay, NEW T, IsTrack(T), Len(T) # 1, WindowsFit(T),
           DistinctNames(T), NEW d \in Days
    PROVE  LET e == DayAfter(d)
               was == Effective(T, d)
               is == Effective(T, e)
               now == Standing(T, d)
               next == Standing(T, e)
           IN  next.cur = now.cur \/ T[next.cur].window > 0 =>
                    Gentle(FullOdds(T[now.prev]), FullOdds(T[now.cur]), T[now.cur].window,
                           was.odds, was.over, is.odds, is.over)
<1> DEFINE e == DayAfter(d)
           cur == SeasonOf(T, MonthOfDay(d))
           nxt == SeasonOf(T, MonthOfDay(e))
           a == FullOdds(T[Previous(T, cur)])
           c == FullOdds(T[cur])
           b == FullOdds(T[nxt])
           w == T[cur].window
           u == T[nxt].window
           n == DaysInto(T[cur], d)
           k == DaysInto(T[nxt], e)
<1>1. e \in Days
  BY MonthTurns
<1>2. /\ a \in Nat /\ c \in Nat /\ w \in Nat /\ n \in Nat /\ cur \in DOMAIN T
      /\ Standing(T, d).cur = cur /\ Standing(T, d).prev = Previous(T, cur)
      /\ Effective(T, d).odds = Odds(a, c, w, n) /\ Effective(T, d).over = Over(w, n)
  BY OddsOfDay
<1>3. /\ FullOdds(T[Previous(T, nxt)]) \in Nat /\ b \in Nat /\ u \in Nat /\ k \in Nat
      /\ Standing(T, e).cur = nxt
      /\ Effective(T, e).odds = Odds(FullOdds(T[Previous(T, nxt)]), b, u, k)
      /\ Effective(T, e).over = Over(u, k)
  BY <1>1, OddsOfDay
<1>4. IF nxt = cur THEN k = n + 1 ELSE Previous(T, nxt) = cur /\ k = 0
  BY SeasonTurns
<1>5. CASE nxt = cur
  <2>1. /\ Effective(T, e).odds = Odds(a, c, w, n + 1)
        /\ Effective(T, e).over = Over(w, n + 1)
    BY <1>3, <1>4, <1>5
  <2>2. Gentle(a, c, w, Odds(a, c, w, n), Over(w, n), Odds(a, c, w, n + 1), Over(w, n + 1))
    BY <1>2, GentleWithin
  <2> QED  BY <1>2, <2>1, <2>2
<1>6. CASE nxt # cur
  <2> SUFFICES ASSUME u > 0
               PROVE  Gentle(a, c, w, Effective(T, d).odds, Effective(T, d).over,
                             Effective(T, e).odds, Effective(T, e).over)
    BY <1>2, <1>3, <1>6
  <2>1. Over(u, k) = u /\ Into(u, k) = 0
    BY <1>3, <1>4, <1>6 DEF Over, Into
  <2>2. Effective(T, e).odds = c * u + (b - c) * 0 /\ Effective(T, e).over = u
    BY <1>3, <1>4, <1>6, <2>1 DEF Odds
  <2>3. Effective(T, e).odds = c * u
    BY <2>2, <1>2, <1>3
  <2>4. DaysOf(T, cur) \in Nat /\ DaysOf(T, cur) <= n + 1
    BY <1>6, LastDayCounts
  <2>5. w <= DaysOf(T, cur)
    BY <1>2 DEF WindowsFit
  <2>6. w <= n + 1
    BY <1>2, <2>4, <2>5
  <2>7. Gentle(a, c, w, Odds(a, c, w, n), Over(w, n), c * u, u)
    BY <1>2, <1>3, <2>6, GentleAcross
  <2> QED  BY <1>2, <2>2, <2>3, <2>7
<1> QED  BY <1>5, <1>6

\* No jumps: when every window fits in its season and no two seasons share a
\* name, a day moves the effective weight by one share at most, in the season
\* and across its end (daysInto, clamp, lerp).
THEOREM OddsGentle == Spec => OddsMoveGently
<1>1. IInv /\ [Next]_vars =>
        [EveryMonthHasADay /\ day' # day =>
            \A t \in DOMAIN tracks :
              WindowsFit(tracks[t]) /\ DistinctNames(tracks[t]) /\ Len(tracks[t]) > 1 =>
                LET was == Effective(tracks[t], day)
                    is == Effective(tracks[t], day')
                    now == Standing(tracks[t], day)
                    next == Standing(tracks[t], day')
                    way == Gap(FullOdds(tracks[t][now.prev]), FullOdds(tracks[t][now.cur]))
                    shares == tracks[t][now.cur].window
                    moved == Gap(was.odds * is.over, is.odds * was.over)
                IN  next.cur = now.cur \/ tracks[t][next.cur].window > 0 =>
                        IF shares = 0 THEN moved = 0
                        ELSE moved * shares <= way * was.over * is.over]_vars
  <2> SUFFICES ASSUME IInv, Next, EveryMonthHasADay, day' # day,
                      NEW t \in DOMAIN tracks, WindowsFit(tracks[t]),
                      DistinctNames(tracks[t]), Len(tracks[t]) > 1
               PROVE  LET was == Effective(tracks[t], day)
                          is == Effective(tracks[t], day')
                          now == Standing(tracks[t], day)
                          next == Standing(tracks[t], day')
                      IN  next.cur = now.cur \/ tracks[t][next.cur].window > 0 =>
                            Gentle(FullOdds(tracks[t][now.prev]), FullOdds(tracks[t][now.cur]),
                                   tracks[t][now.cur].window,
                                   was.odds, was.over, is.odds, is.over)
    BY DEF Gentle
  <2>1. day' = DayAfter(day)
    BY DEF Next, LoadFile, NextDay, DayAfter
  <2>2. IsCalendar /\ IsTrack(tracks[t]) /\ day \in Days
    BY DEF IInv, Resolvable
  <2>3. Len(tracks[t]) # 1
    BY <2>2, LenProperties DEF IsTrack
  <2> QED  BY <2>1, <2>2, <2>3, OddsStep
<1> QED  BY <1>1, InvariantHolds, PTL DEF Spec, OddsMoveGently

---------------------------------------------------------------------------
(***************************************************************************)
(* What parseTrack accepts                                                 *)
(***************************************************************************)
LEMMA MonthsOnRange ==
    ASSUME IsCalendar, NEW s \in Month, NEW k \in Nat PROVE MonthsOn(s, k) \in Month
<1>1. s - 1 + k \in Nat
  BY DEF Month, IsCalendar
<1>2. (s - 1 + k) % calendar.months \in 0..(calendar.months - 1)
  BY <1>1, Remainder DEF IsCalendar
<1> QED  BY <1>2 DEF MonthsOn, Month, IsCalendar

\* Within a year, going on and measuring how far undo each other.
LEMMA MonthsOnOff ==
    ASSUME IsCalendar, NEW s \in Month, NEW k \in 0..(calendar.months - 1)
    PROVE  Off(s, MonthsOn(s, k)) = k
<1> DEFINE a == s - 1 + k
           r == a % calendar.months
<1>1. a \in Nat /\ a < calendar.months + calendar.months
  BY DEF Month, IsCalendar
<1>2. /\ a < calendar.months => r = a
      /\ calendar.months <= a => r = a - calendar.months
  BY <1>1, Remainder DEF IsCalendar
<1>3. MonthsOn(s, k) = r + 1
  BY DEF MonthsOn
<1> HIDE DEF r
<1> QED  BY <1>1, <1>2, <1>3 DEF Off, Month, IsCalendar

LEMMA OffMonthsOn ==
    ASSUME IsCalendar, NEW s \in Month, NEW m \in Month
    PROVE  MonthsOn(s, Off(s, m)) = m
<1>1. Off(s, m) \in 0..(calendar.months - 1)
  BY OffRange
<1>2. MonthsOn(s, Off(s, m)) \in Month
  BY <1>1, MonthsOnRange
<1> QED  BY <1>1, <1>2, MonthsOnOff, OffInjective

LEMMA MonthsOnNone == ASSUME IsCalendar, NEW s \in Month PROVE Off(s, s) = 0 /\ MonthsOn(s, 0) = s
<1>1. Off(s, s) = 0
  BY DEF Off, Month, IsCalendar
<1> QED  BY <1>1, OffMonthsOn

LEMMA UpTo == ASSUME NEW k \in Nat PROVE IsFiniteSet(0..(k - 1)) /\ Cardinality(0..(k - 1)) = k
<1>1. 0 \in Int /\ k - 1 \in Int
  OBVIOUS
<1>2. IsFiniteSet(0..(k - 1)) /\ Cardinality(0..(k - 1)) = IF 0 > k - 1 THEN 0 ELSE (k - 1) - 0 + 1
  BY <1>1, FS_Interval
<1> QED  BY <1>2

\* A run is as long as it has months.
LEMMA RunLength ==
    ASSUME IsCalendar, NEW C \in SUBSET Month, NEW s \in C,
           \A m \in C : Before(m) \notin C => m = s
    PROVE  /\ IsFiniteSet(C) /\ Cardinality(C) \in Nat /\ Cardinality(C) <= calendar.months
           /\ C = {m \in Month : Off(s, m) < Cardinality(C)}
<1>1. IsFiniteSet(C) /\ Cardinality(C) \in Nat /\ Cardinality(C) <= calendar.months
  BY MonthsFinite, FS_Subset, FS_CardinalityType
<1> DEFINE S == {j \in Nat : \A m \in C : Off(s, m) # j}
<1>2. calendar.months \in S /\ S \in SUBSET Nat
  BY OffRange DEF IsCalendar
<1>3. PICK k \in S : \A j \in S : k <= j
  BY <1>2, Least
<1>4. k \in Nat /\ k <= calendar.months
  BY <1>2, <1>3 DEF IsCalendar
<1>5. ASSUME NEW m \in C PROVE Off(s, m) < k
  <2> SUFFICES ASSUME k <= Off(s, m) PROVE FALSE
    BY <1>4, OffRange
  <2>1. Off(s, m) \in 0..(calendar.months - 1) /\ k \in 0..(calendar.months - 1)
    BY <1>4, OffRange DEF IsCalendar
  <2>2. MonthsOn(s, k) \in Month /\ Off(s, MonthsOn(s, k)) = k
    BY <1>4, <2>1, MonthsOnRange, MonthsOnOff
  <2>3. MonthsOn(s, k) \in C
    BY <2>2, RunFromStart
  <2> QED  BY <1>3, <2>2, <2>3
<1>6. ASSUME NEW j \in 0..(k - 1) PROVE \E m \in C : Off(s, m) = j
  <2>1. j \in Nat /\ ~(k <= j)
    BY <1>4
  <2>2. j \notin S
    BY <1>3, <2>1
  <2> QED  BY <2>1, <2>2
<1>7. ASSUME NEW m \in Month, Off(s, m) < k PROVE m \in C
  <2>1. Off(s, m) \in 0..(k - 1)
    BY <1>4, <1>7, OffRange DEF IsCalendar
  <2>2. PICK x \in C : Off(s, x) = Off(s, m)
    BY <1>6, <2>1
  <2> QED  BY <2>2, OffInjective
<1> DEFINE f == [m \in C |-> Off(s, m)]
<1>8. f \in Bijection(C, 0..(k - 1))
  <2>1. f \in [C -> 0..(k - 1)]
    BY <1>4, <1>5, OffRange DEF IsCalendar
  <2>2. \A m, x \in C : f[m] = f[x] => m = x
    BY OffInjective
  <2>3. \A j \in 0..(k - 1) : \E m \in C : f[m] = j
    BY <1>6
  <2> HIDE DEF f
  <2> QED  BY <2>1, <2>2, <2>3 DEF Bijection, Injection, Surjection, IsInjective
<1>9. Cardinality(0..(k - 1)) = Cardinality(C)
  BY <1>1, <1>8, FS_Bijection DEF ExistsBijection
<1>10. Cardinality(C) = k
  BY <1>4, <1>9, UpTo
<1> QED  BY <1>1, <1>5, <1>7, <1>10

\* Places are finitely many.
LEMMA PlacesFinite ==
    ASSUME NEW seasons \in Seq(SeasonFile) PROVE IsFiniteSet(Places(seasons))
<1> DEFINE N == Len(seasons)
           row(n) == {n} \X (0..(Len(seasons[n].months) - 1))
           Rows == {row(n) : n \in 1..N}
           f == [n \in 1..N |-> row(n)]
<1>1. N \in Nat /\ DOMAIN seasons = 1..N
  BY LenProperties
<1>2. IsFiniteSet(1..N)
  BY <1>1, FS_Interval
<1>3. f \in Surjection(1..N, Rows)
  BY DEF Surjection
<1>4. IsFiniteSet(Rows)
  <2> HIDE DEF f, Rows
  <2> QED  BY <1>2, <1>3, FS_Surjection
<1>5. ASSUME NEW n \in 1..N PROVE IsFiniteSet(row(n))
  <2>1. seasons[n].months \in Seq(Int)
    <3>1. seasons[n] \in SeasonFile
      BY <1>5, ElementOfSeq
    <3> QED  BY <3>1 DEF SeasonFile
  <2>2. IsFiniteSet(0..(Len(seasons[n].months) - 1))
    BY <2>1, LenProperties, UpTo
  <2>3. IsFiniteSet({n})
    BY FS_Singleton
  <2> QED  BY <2>2, <2>3, FS_Product
<1>6. \A R \in Rows : IsFiniteSet(R)
  BY <1>5
<1>7. IsFiniteSet(UNION Rows)
  <2> HIDE DEF Rows
  <2> QED  BY <1>4, <1>6, FS_UNION
<1> QED  BY <1>1, <1>7 DEF Places

\* A file's months, by season.
LEMMA MonthsOfFile ==
    ASSUME NEW seasons \in Seq(SeasonFile), NEW n \in DOMAIN seasons
    PROVE  /\ seasons[n] \in SeasonFile /\ seasons[n].months \in Seq(Int)
           /\ seasons[n].factor \in Int /\ seasons[n].extra \in Int
           /\ Len(seasons[n].months) \in Nat
           /\ DOMAIN seasons[n].months = 1..Len(seasons[n].months)
           /\ seasons[n].months # <<>> => seasons[n].months[1] \in ToSet(seasons[n].months)
<1>1. seasons[n] \in SeasonFile
  BY LenProperties, ElementOfSeq
<1>2. seasons[n].months \in Seq(Int) /\ seasons[n].factor \in Int /\ seasons[n].extra \in Int
  BY <1>1 DEF SeasonFile
<1>3. /\ Len(seasons[n].months) \in Nat
      /\ DOMAIN seasons[n].months = 1..Len(seasons[n].months)
  BY <1>2, LenProperties
<1>4. seasons[n].months # <<>> => 1 \in DOMAIN seasons[n].months
  BY <1>2, <1>3, EmptySeq
<1> QED  BY <1>1, <1>2, <1>3, <1>4 DEF ToSet

\* What is accepted goes round: laid from where contiguousStart says.
LEMMA ValidGoesRound ==
    ASSUME IsCalendar, NEW seasons \in Seq(SeasonFile), Valid(seasons)
    PROVE  GoesRound(seasons)
<1> DEFINE C(n) == ToSet(seasons[n].months)
           L(n) == Len(seasons[n].months)
           starts == [n \in DOMAIN seasons |-> ContiguousStart(seasons[n].months)]
<1>1. ASSUME NEW n \in DOMAIN seasons
      PROVE  /\ C(n) \in SUBSET Month /\ starts[n] \in C(n) /\ L(n) = Cardinality(C(n))
             /\ L(n) \in Nat /\ L(n) <= calendar.months
             /\ C(n) = {m \in Month : Off(starts[n], m) < L(n)}
  <2>1. seasons[n] \in SeasonFile /\ ValidSeason(seasons[n])
    BY <1>1, MonthsOfFile DEF Valid
  <2>2. starts[n] = ContiguousStart(seasons[n].months)
    BY <1>1
  <2>3. /\ C(n) \in SUBSET Month /\ starts[n] \in C(n)
        /\ C(n) # Month => \A m \in C(n) : Before(m) \notin C(n) <=> m = starts[n]
    BY <2>1, <2>2, StartOfRun, Zenon
  <2>4. L(n) = Cardinality(C(n))
    BY <2>1 DEF ValidSeason
  <2> HIDE DEF C, L, starts
  <2>5. \A m \in C(n) : Before(m) \notin C(n) => m = starts[n]
    BY <2>3, BeforeRange
  <2> QED  BY <2>3, <2>4, <2>5, RunLength
<1>2. \A n, k \in DOMAIN seasons : n # k => C(n) \cap C(k) = {}
  BY DEF Valid
<1>3. \A m \in Month : \E n \in DOMAIN seasons : m \in C(n)
  BY DEF Valid, Month
<1>4. ASSUME NEW n \in DOMAIN seasons
      PROVE  {MonthsOn(starts[n], k) : k \in 0..(L(n) - 1)} = C(n)
  <2> DEFINE s == starts[n]
  <2>1. s \in Month
    BY <1>1, <1>4
  <2>2. ASSUME NEW k \in 0..(L(n) - 1) PROVE MonthsOn(s, k) \in C(n)
    <3>1. k \in Nat /\ k < L(n) /\ k \in 0..(calendar.months - 1)
      BY <1>1, <1>4 DEF IsCalendar
    <3>2. MonthsOn(s, k) \in Month /\ Off(s, MonthsOn(s, k)) = k
      BY <2>1, <3>1, MonthsOnRange, MonthsOnOff
    <3> QED  BY <1>1, <1>4, <3>1, <3>2
  <2>3. ASSUME NEW m \in C(n) PROVE \E k \in 0..(L(n) - 1) : m = MonthsOn(s, k)
    <3>1. m \in Month /\ Off(s, m) < L(n)
      BY <1>1, <1>4
    <3>2. Off(s, m) \in 0..(L(n) - 1) /\ MonthsOn(s, Off(s, m)) = m
      BY <1>1, <1>4, <2>1, <3>1, OffRange, OffMonthsOn DEF IsCalendar
    <3> QED  BY <3>2
  <2> HIDE DEF C, L, s
  <2> QED  BY <2>2, <2>3 DEF s
<1>5. ASSUME NEW m \in Month
      PROVE  Cardinality({at \in Places(seasons) : MonthsOn(starts[at[1]], at[2]) = m}) = 1
  <2>1. PICK n \in DOMAIN seasons : m \in C(n)
    BY <1>3
  <2> DEFINE k == Off(starts[n], m)
             At == {at \in Places(seasons) : MonthsOn(starts[at[1]], at[2]) = m}
  <2>2. k \in 0..(L(n) - 1) /\ MonthsOn(starts[n], k) = m /\ starts[n] \in Month
    <3>1. starts[n] \in Month /\ L(n) \in Nat /\ k < L(n)
      BY <1>1, <2>1
    <3>2. k \in 0..(calendar.months - 1) /\ MonthsOn(starts[n], k) = m
      BY <3>1, OffRange, OffMonthsOn
    <3> HIDE DEF k, L, starts
    <3> QED  BY <3>1, <3>2 DEF IsCalendar
  <2>3. <<n, k>> \in At
    BY <2>2 DEF Places
  <2>4. ASSUME NEW at \in At PROVE at = <<n, k>>
    <3>1. PICK x \in DOMAIN seasons : at \in {x} \X (0..(L(x) - 1))
      BY DEF Places
    <3>2. at[1] = x /\ at[2] \in 0..(L(x) - 1) /\ at = <<x, at[2]>> /\ MonthsOn(starts[x], at[2]) = m
      BY <3>1
    <3>3. m \in C(x)
      BY <1>4, <3>2
    <3>4. x = n
      BY <1>2, <2>1, <3>3
    <3>5. at[2] \in 0..(calendar.months - 1)
      BY <1>1, <3>2 DEF IsCalendar
    <3>6. at[2] = k
      BY <2>2, <3>2, <3>4, <3>5, MonthsOnOff
    <3> QED  BY <3>2, <3>4, <3>6
  <2> HIDE DEF At, k
  <2>5. At = {<<n, k>>}
    BY <2>3, <2>4
  <2>6. Cardinality(At) = 1
    BY <2>5, FS_Singleton, Zenon
  <2> QED  BY <2>6 DEF At
<1>6. starts \in [DOMAIN seasons -> Month]
  BY <1>1
<1>7. seasons # <<>> /\ \A n \in DOMAIN seasons : seasons[n].months # <<>>
  BY DEF Valid, ValidSeason
<1> HIDE DEF starts
<1> QED  BY <1>4, <1>5, <1>6, <1>7 DEF GoesRound

\* The sign of a season's factors that a climate can bear.
Bearable(seasons) ==
    \A n \in DOMAIN seasons : seasons[n].factor >= 0 /\ seasons[n].extra >= 0

\* The one place of a set of one.
LEMMA SamePlace ==
    ASSUME NEW S, IsFiniteSet(S), Cardinality(S) = 1 PROVE \E x : S = {x}
  BY FS_Singleton

Nameable(seasons) == \A n \in DOMAIN seasons : seasons[n].name # NoName

\* Whatever has names and goes round is accepted, if the climate can bear it.
LEMMA GoesRoundValid ==
    ASSUME IsCalendar, NEW seasons \in Seq(SeasonFile), GoesRound(seasons), Bearable(seasons),
           Nameable(seasons)
    PROVE  Valid(seasons)
<1> DEFINE C(n) == ToSet(seasons[n].months)
           L(n) == Len(seasons[n].months)
<1>1. PICK starts \in [DOMAIN seasons -> Month] :
        /\ \A n \in DOMAIN seasons : {MonthsOn(starts[n], k) : k \in 0..(L(n) - 1)} = C(n)
        /\ \A m \in Month :
            Cardinality({at \in Places(seasons) : MonthsOn(starts[at[1]], at[2]) = m}) = 1
  BY DEF GoesRound
<1>2. ASSUME NEW n \in DOMAIN seasons
      PROVE  L(n) \in Nat \ {0} /\ starts[n] \in Month /\ seasons[n].months # <<>>
  BY <1>1, <1>2, MonthsOfFile, EmptySeq DEF GoesRound
<1>3. ASSUME NEW n \in DOMAIN seasons, NEW k \in 0..(L(n) - 1)
      PROVE  <<n, k>> \in Places(seasons) /\ MonthsOn(starts[n], k) \in C(n)
             /\ MonthsOn(starts[n], k) \in Month
  <2>1. <<n, k>> \in Places(seasons)
    BY <1>3 DEF Places
  <2>2. MonthsOn(starts[n], k) \in C(n)
    BY <1>1, <1>3
  <2>3. k \in Nat /\ starts[n] \in Month
    BY <1>2, <1>3
  <2> QED  BY <2>1, <2>2, <2>3, MonthsOnRange
<1>4. ASSUME NEW n \in DOMAIN seasons, NEW m \in C(n)
      PROVE  m \in Month /\ \E k \in 0..(L(n) - 1) : m = MonthsOn(starts[n], k)
  <2>1. m \in {MonthsOn(starts[n], k) : k \in 0..(L(n) - 1)}
    BY <1>1, <1>4
  <2>2. PICK k \in 0..(L(n) - 1) : m = MonthsOn(starts[n], k)
    BY <2>1
  <2> QED  BY <1>3, <1>4, <2>2
<1>5. ASSUME NEW n \in DOMAIN seasons, NEW k \in 0..(L(n) - 1),
             NEW x \in DOMAIN seasons, NEW j \in 0..(L(x) - 1),
             MonthsOn(starts[n], k) = MonthsOn(starts[x], j)
      PROVE  n = x /\ k = j
  <2> DEFINE m == MonthsOn(starts[n], k)
             At == {at \in Places(seasons) : MonthsOn(starts[at[1]], at[2]) = m}
  <2>1. <<n, k>> \in At /\ <<x, j>> \in At
    BY <1>3, <1>5
  <2>2. IsFiniteSet(At) /\ Cardinality(At) = 1
    BY <1>1, <1>3, <1>5, PlacesFinite, FS_Subset
  <2> HIDE DEF At
  <2>3. <<n, k>> = <<x, j>>
    BY <2>1, <2>2, SamePlace
  <2> QED  BY <2>3
<1>6. \A m \in Month : \E n \in DOMAIN seasons : m \in C(n)
  <2> SUFFICES ASSUME NEW m \in Month PROVE \E n \in DOMAIN seasons : m \in C(n)
    OBVIOUS
  <2> DEFINE At == {at \in Places(seasons) : MonthsOn(starts[at[1]], at[2]) = m}
  <2>1. IsFiniteSet(At) /\ Cardinality(At) = 1
    BY <1>1, PlacesFinite, FS_Subset
  <2>2. PICK at : At = {at}
    BY <2>1, SamePlace
  <2>3. at \in Places(seasons) /\ MonthsOn(starts[at[1]], at[2]) = m
    BY <2>2
  <2>4. PICK n \in DOMAIN seasons : at \in {n} \X (0..(L(n) - 1))
    BY <2>3 DEF Places
  <2>5. at[1] = n /\ at[2] \in 0..(L(n) - 1)
    BY <2>4
  <2> QED  BY <1>3, <2>3, <2>5
<1>7. ASSUME NEW n \in DOMAIN seasons
      PROVE  IsFiniteSet(C(n)) /\ Cardinality(C(n)) = L(n) /\ L(n) <= calendar.months
  <2> DEFINE f == [k \in 0..(L(n) - 1) |-> MonthsOn(starts[n], k)]
  <2>1. C(n) \in SUBSET Month
    BY <1>4, <1>7
  <2>2. f \in Bijection(0..(L(n) - 1), C(n))
    <3>1. f \in [0..(L(n) - 1) -> C(n)]
      BY <1>3, <1>7
    <3>2. \A k, j \in 0..(L(n) - 1) : f[k] = f[j] => k = j
      BY <1>5, <1>7
    <3>3. \A m \in C(n) : \E k \in 0..(L(n) - 1) : f[k] = m
      BY <1>4, <1>7
    <3> HIDE DEF f, C
    <3> QED  BY <3>1, <3>2, <3>3 DEF Bijection, Injection, Surjection, IsInjective
  <2>3. IsFiniteSet(0..(L(n) - 1)) /\ Cardinality(0..(L(n) - 1)) = L(n)
    BY <1>2, <1>7, UpTo
  <2> HIDE DEF C, L, f
  <2>4. IsFiniteSet(C(n)) /\ Cardinality(C(n)) = L(n)
    BY <2>2, <2>3, FS_Bijection DEF ExistsBijection
  <2> QED  BY <2>1, <2>4, MonthsFinite, FS_Subset
<1>8. ASSUME NEW n \in DOMAIN seasons PROVE ContiguousStart(seasons[n].months) # NoRun
  <2> DEFINE s == starts[n]
             firsts == {m \in C(n) : Before(m) \notin C(n)}
  <2>1. s \in Month /\ L(n) \in Nat \ {0} /\ L(n) <= calendar.months
    BY <1>2, <1>7, <1>8
  <2>2. CASE L(n) = calendar.months
    <3>1. seasons[n].months[1] \in Month
      BY <1>2, <1>4, <1>8, MonthsOfFile
    <3>2. ContiguousStart(seasons[n].months) = seasons[n].months[1]
      BY <2>2, <1>7, <1>8 DEF ContiguousStart
    <3> QED  BY <3>1, <3>2 DEF Month, NoRun
  <2>3. CASE L(n) # calendar.months
    <3>1. s \in C(n)
      <4>1. 0 \in 0..(L(n) - 1) /\ MonthsOn(s, 0) = s
        BY <2>1, MonthsOnNone
      <4>2. MonthsOn(s, 0) \in C(n)
        BY <1>3, <1>8, <4>1
      <4> QED  BY <4>1, <4>2
    <3>2. Before(s) \notin C(n)
      <4> SUFFICES ASSUME Before(s) \in C(n) PROVE FALSE
        OBVIOUS
      <4>1. PICK k \in 0..(L(n) - 1) : Before(s) = MonthsOn(s, k)
        BY <1>4, <1>8
      <4>2. k \in 0..(calendar.months - 1) /\ k < calendar.months - 1
        BY <2>1, <2>3 DEF IsCalendar
      <4>3. Off(s, Before(s)) = k
        BY <2>1, <4>1, <4>2, MonthsOnOff
      <4>4. Off(s, Before(s)) = calendar.months - 1
        BY <2>1 DEF Off, Before, Month, IsCalendar
      <4> QED  BY <4>2, <4>3, <4>4
    <3>3. ASSUME NEW m \in C(n), m # s PROVE Before(m) \in C(n)
      <4>1. PICK k \in 0..(L(n) - 1) : m = MonthsOn(s, k)
        BY <1>4, <1>8, <3>3
      <4>2. m \in Month /\ k \in 0..(calendar.months - 1)
        BY <1>4, <1>8, <3>3, <2>1 DEF IsCalendar
      <4>3. Off(s, m) = k /\ Off(s, m) = Off(s, Before(m)) + 1
        BY <2>1, <3>3, <4>1, <4>2, MonthsOnOff, OffBefore
      <4>4. Before(m) \in Month /\ Off(s, Before(m)) \in 0..(calendar.months - 1)
        BY <2>1, <4>2, BeforeRange, OffRange
      <4>5. Off(s, Before(m)) \in 0..(L(n) - 1)
        BY <2>1, <4>3, <4>4 DEF IsCalendar
      <4>6. MonthsOn(s, Off(s, Before(m))) = Before(m)
        BY <2>1, <4>4, OffMonthsOn
      <4> QED  BY <1>3, <1>8, <4>5, <4>6
    <3>4. firsts = {s}
      BY <3>1, <3>2, <3>3
    <3>5. Cardinality(firsts) = 1
      BY <3>4, FS_Singleton, Zenon
    <3>6. Cardinality(C(n)) # calendar.months
      BY <1>7, <1>8, <2>3
    <3>7. ContiguousStart(seasons[n].months) = CHOOSE m \in firsts : TRUE
      BY <3>5, <3>6 DEF ContiguousStart
    <3> HIDE DEF firsts, s
    <3>8. ContiguousStart(seasons[n].months) = s
      BY <3>4, <3>7
    <3> QED  BY <3>8, <2>1 DEF Month, NoRun
  <2> QED  BY <2>2, <2>3
<1>9. ASSUME NEW n \in DOMAIN seasons PROVE ValidSeason(seasons[n])
  <2>1. C(n) \subseteq 1..calendar.months
    BY <1>4, <1>9 DEF Month
  <2>2. seasons[n].factor >= 0 /\ seasons[n].extra >= 0 /\ seasons[n].name # NoName
    BY <1>9 DEF Bearable, Nameable
  <2> QED  BY <1>2, <1>7, <1>8, <1>9, <2>1, <2>2 DEF ValidSeason
<1>10. \A n, k \in DOMAIN seasons : n # k => C(n) \cap C(k) = {}
  <2> SUFFICES ASSUME NEW n \in DOMAIN seasons, NEW x \in DOMAIN seasons, n # x,
                      NEW m \in C(n), m \in C(x)
               PROVE  FALSE
    OBVIOUS
  <2>1. PICK k \in 0..(L(n) - 1) : m = MonthsOn(starts[n], k)
    BY <1>4
  <2>2. PICK j \in 0..(L(x) - 1) : m = MonthsOn(starts[x], j)
    BY <1>4
  <2>3. MonthsOn(starts[n], k) = MonthsOn(starts[x], j)
    BY <2>1, <2>2
  <2> QED  BY <1>5, <2>3
<1>11. seasons # <<>>
  BY DEF GoesRound
<1> QED  BY <1>6, <1>9, <1>10, <1>11 DEF Valid, Month

\* parseTrack accepts exactly what has names, goes round and can be borne.
LEMMA ValidIffGoesRound ==
    ASSUME IsCalendar, NEW seasons \in Seq(SeasonFile)
    PROVE  Valid(seasons) <=> Nameable(seasons) /\ GoesRound(seasons) /\ Bearable(seasons)
<1>1. Valid(seasons) => Bearable(seasons) /\ Nameable(seasons)
  BY DEF Valid, ValidSeason, Bearable, Nameable
<1> QED  BY <1>1, ValidGoesRound, GoesRoundValid

\* So a file whose name is free becomes a track exactly if the file and its
\* seasons have names and the seasons go round the year, whatever the order of its months and of its seasons, in years of
\* any length (parseTrack, contiguousStart).
THEOREM AcceptsRounds == Spec => AcceptsWhatGoesRound
<1>1. IInv /\ [Next]_vars =>
        [files # <<>> /\ files' = Tail(files) =>
            LET f == Head(files)
                named == \A n \in DOMAIN f.seasons : f.seasons[n].name # NoName
                bearable == \A n \in DOMAIN f.seasons :
                                f.seasons[n].factor >= 0 /\ f.seasons[n].extra >= 0
            IN  f.track \notin DOMAIN tracks =>
                    (f.track \in DOMAIN tracks' <=>
                        f.track # NoName /\ named /\ GoesRound(f.seasons) /\ bearable)]_vars
  <2> DEFINE f == Head(files)
  <2> SUFFICES ASSUME IInv, Next, files # <<>>, files' = Tail(files), f.track \notin DOMAIN tracks
               PROVE  f.track \in DOMAIN tracks' <=>
                        /\ f.track # NoName /\ Nameable(f.seasons)
                        /\ GoesRound(f.seasons) /\ Bearable(f.seasons)
    BY DEF Bearable, Nameable
  <2>1. LoadFile
    BY DEF Next, NextDay
  <2>2. f.seasons \in Seq(SeasonFile)
    <3>1. f \in [track : STRING, seasons : Seq(SeasonFile)]
      BY HeadTailProperties DEF IInv, FilesType
    <3> HIDE DEF f
    <3> QED  BY <3>1
  <2>3. tracks' = IF f.track # NoName /\ Valid(f.seasons)
                  THEN [t \in DOMAIN tracks \cup {f.track} |->
                          IF t = f.track THEN Parsed(f.seasons) ELSE tracks[t]]
                  ELSE tracks
    BY <2>1 DEF LoadFile
  <2>4. IsCalendar
    BY DEF IInv
  <2> HIDE DEF f
  <2>5. f.track \in DOMAIN tracks' <=> f.track # NoName /\ Valid(f.seasons)
    BY <2>3
  <2> QED  BY <2>2, <2>4, <2>5, ValidIffGoesRound
<1> QED  BY <1>1, InvariantHolds, PTL DEF Spec, AcceptsWhatGoesRound
=============================================================================
