------------------------------ MODULE SeasonTracks ------------------------------
(***************************************************************************)
(* Season tracks: which files are accepted against the world's calendar    *)
(* (track.go), where an accepted track stands on a day of the year         *)
(* (resolve.go), and what that makes of a biome's climate (apply.go),      *)
(* while the calendar goes round.                                          *)
(*                                                                         *)
(* Abstractions.  One weather type stands for all: the spawn weight and    *)
(* the influence deltas are interpolated the same way.  Multipliers and    *)
(* weights are integers; a blend is the pair of the days into the season   *)
(* and the length of the window, and interpolated odds are kept over that  *)
(* length.  The quotients of monthOfDay are exact.  A season is resolved by*)
(* its name, and found again by its name: the first of that name, if a file*)
(* gives two seasons the same one, which parseTrack lets pass.             *)
(***************************************************************************)
EXTENDS Integers, Sequences, FiniteSets, SequencesExt

CONSTANTS
    Calendars,  \* the shapes a world can have: [months, days]
    FileLists,  \* what the seasons directory can hold: files in name order
    BaseWeight  \* the biome's own weight of the weather type

ASSUME CalendarsAssumption ==
    \A c \in Calendars : c.months \in Nat \ {0} /\ c.days \in Nat \ {0}
ASSUME BaseAssumption == BaseWeight \in Nat

NoName == ""    \* a missing key

\* What a season of a track file says.
SeasonFile == [name : STRING, months : Seq(Int), window : Int, factor : Int, extra : Int]

ASSUME FilesAssumption ==
    \A l \in FileLists : l \in Seq([track : STRING, seasons : Seq(SeasonFile)])

VARIABLES
    calendar,   \* the active calendar
    files,      \* the track files not parsed yet
    tracks,     \* Tracks: track name -> its seasons, in file order
    day         \* CalendarNow().DayOfYear

vars == <<calendar, files, tracks, day>>

-----------------------------------------------------------------------------
(* Loading.                                                                *)

Before(m) == IF m = 1 THEN calendar.months ELSE m - 1

NoRun == 0      \* contiguousStart found no single run

\* Mutated form: the month before the first one is not the year's last.
ContiguousStartNoWrap(months) ==
    LET starts == {m \in ToSet(months) : m - 1 \notin ToSet(months)}
    IN  IF Cardinality(ToSet(months)) = calendar.months THEN months[1]
        ELSE IF Cardinality(starts) = 1 THEN CHOOSE m \in starts : TRUE ELSE NoRun

\* A run starts at its one month whose predecessor is not claimed; the whole
\* year starts at the month listed first.
ContiguousStart(months) ==
    LET starts == {m \in ToSet(months) : Before(m) \notin ToSet(months)}
    IN  IF Cardinality(ToSet(months)) = calendar.months THEN months[1]
        ELSE IF Cardinality(starts) = 1 THEN CHOOSE m \in starts : TRUE ELSE NoRun

ValidSeason(s) ==
    /\ s.name # NoName
    /\ s.months # <<>>
    /\ ToSet(s.months) \subseteq 1..calendar.months
    /\ Cardinality(ToSet(s.months)) = Len(s.months)
    /\ ContiguousStart(s.months) # NoRun
    /\ s.factor >= 0 /\ s.extra >= 0

\* parseTrack accepts seasons that are valid and claim every month once.
Valid(seasons) ==
    /\ seasons # <<>>
    /\ \A n \in DOMAIN seasons : ValidSeason(seasons[n])
    /\ \A n, k \in DOMAIN seasons :
        n # k => ToSet(seasons[n].months) \cap ToSet(seasons[k].months) = {}
    /\ \A m \in 1..calendar.months : \E n \in DOMAIN seasons : m \in ToSet(seasons[n].months)

\* A season keeps its name, its months, its first month, its window and its factors.
Parsed(seasons) ==
    [n \in DOMAIN seasons |->
        [name |-> seasons[n].name,
         claims |-> ToSet(seasons[n].months), start |-> ContiguousStart(seasons[n].months),
         window |-> IF seasons[n].window < 0 THEN 0 ELSE seasons[n].window,
         factor |-> seasons[n].factor, extra |-> seasons[n].extra]]

-----------------------------------------------------------------------------
(* Where a track stands on a day.                                          *)

\* The engine's formula: the month turns after day/days of the year.
MonthOfDay(d) ==
    LET m == 1 + (d * calendar.months) \div calendar.days
    IN  IF m > calendar.months THEN calendar.months ELSE m

\* The first day that is not before month m.
FirstDayOfMonth(m) ==
    IF m <= 1 THEN 1
    ELSE CHOOSE d \in 1..calendar.days :
            MonthOfDay(d) >= m /\ \A e \in 1..(d - 1) : MonthOfDay(e) < m

SeasonOf(track, m) == CHOOSE n \in DOMAIN track : m \in track[n].claims

Previous(track, n) == SeasonOf(track, Before(track[n].start))

\* Mutated form: a season that wraps the year starts over at new year.
DaysIntoNoWrap(season, d) ==
    LET into == d - FirstDayOfMonth(season.start) IN IF into < 0 THEN d - 1 ELSE into

DaysInto(season, d) ==
    LET into == d - FirstDayOfMonth(season.start)
    IN  IF into < 0 THEN into + calendar.days ELSE into

\* Mutated form: the blend goes on past the window.
BlendUnclamped(season, d) ==
    IF season.window = 0 THEN [into |-> 1, window |-> 1]
    ELSE [into |-> DaysInto(season, d), window |-> season.window]

\* clamp(daysInto / transitionDays, 0, 1), 1 without a window.
Blend(season, d) ==
    IF season.window = 0 \/ DaysInto(season, d) > season.window
    THEN [into |-> 1, window |-> 1]
    ELSE [into |-> DaysInto(season, d), window |-> season.window]

\* Where the track stands: the places of the current season and of the one
\* before it, and the blend.
Standing(track, d) ==
    IF Len(track) = 1 THEN [cur |-> 1, prev |-> 1, blend |-> [into |-> 1, window |-> 1]]
    ELSE LET cur == SeasonOf(track, MonthOfDay(d))
         IN  [cur |-> cur, prev |-> Previous(track, cur), blend |-> Blend(track[cur], d)]

\* Resolve hands out the names of the two.
Resolve(track, d) ==
    LET at == Standing(track, d)
    IN  [cur |-> track[at.cur].name, prev |-> track[at.prev].name, blend |-> at.blend]

\* Track.season: the first season of that name.
Named(track, name) ==
    track[CHOOSE n \in DOMAIN track :
            track[n].name = name /\ \A k \in 1..(n - 1) : track[k].name # name]

-----------------------------------------------------------------------------
(* The climate.                                                            *)

\* lerp over the window's length.
Lerp(p, c, blend) == p * blend.window + (c - p) * blend.into

\* Mutated form: the season that ends and the one that begins are swapped.
EffectiveSwapped(track, d) ==
    LET now == Resolve(track, d)
        cur == Named(track, now.cur)
        prev == Named(track, now.prev)
    IN  [odds |-> BaseWeight * Lerp(cur.factor, prev.factor, now.blend)
                    + Lerp(cur.extra, prev.extra, now.blend),
         over |-> now.blend.window]

\* EffectiveClimate of the one type: odds/over.
Effective(track, d) ==
    LET now == Resolve(track, d)
        cur == Named(track, now.cur)
        prev == Named(track, now.prev)
    IN  [odds |-> BaseWeight * Lerp(prev.factor, cur.factor, now.blend)
                    + Lerp(prev.extra, cur.extra, now.blend),
         over |-> now.blend.window]

-----------------------------------------------------------------------------

\* Load parses one file: a track without a name, an invalid one, or one whose
\* name is already taken is dropped.
LoadFile ==
    /\ files # <<>>
    /\ LET f == Head(files)
       IN  tracks' = IF f.track # NoName /\ Valid(f.seasons) /\ f.track \notin DOMAIN tracks
                     THEN [t \in DOMAIN tracks \cup {f.track} |->
                             IF t = f.track THEN Parsed(f.seasons) ELSE tracks[t]]
                     ELSE tracks
    /\ files' = Tail(files)
    /\ UNCHANGED <<calendar, day>>

\* The engine's calendar.
NextDay ==
    /\ files = <<>>
    /\ day' = IF day = calendar.days THEN 1 ELSE day + 1
    /\ UNCHANGED <<calendar, files, tracks>>

Init ==
    /\ calendar \in Calendars
    /\ files \in FileLists
    /\ tracks = <<>>
    /\ day \in 1..calendar.days

Next == LoadFile \/ NextDay

Spec == Init /\ [][Next]_vars

-----------------------------------------------------------------------------

Month == 1..calendar.months

\* The month k months on from month s.
MonthsOn(s, k) == ((s - 1 + k) % calendar.months) + 1

\* The places of a file's months: the season, and how many months into it.
Places(seasons) ==
    UNION {{n} \X (0..(Len(seasons[n].months) - 1)) : n \in DOMAIN seasons}

\* The seasons of a file go round the year: months laid end to end from each
\* season's first one, every month laid once.
GoesRound(seasons) ==
    /\ seasons # <<>>
    /\ \A n \in DOMAIN seasons : seasons[n].months # <<>>
    /\ \E starts \in [DOMAIN seasons -> Month] :
        /\ \A n \in DOMAIN seasons :
            {MonthsOn(starts[n], k) : k \in 0..(Len(seasons[n].months) - 1)}
                = ToSet(seasons[n].months)
        /\ \A m \in Month :
            Cardinality({at \in Places(seasons) : MonthsOn(starts[at[1]], at[2]) = m}) = 1

\* parseTrack's checks, made season by season, accept exactly the named files
\* whose seasons have names, go round the year and weigh no weather negatively,
\* so that Resolve, which indexes the season of the day unchecked, always finds
\* one.
AcceptsWhatGoesRound ==
    [][files # <<>> /\ files' = Tail(files) =>
        LET f == Head(files)
            named == \A n \in DOMAIN f.seasons : f.seasons[n].name # NoName
            bearable == \A n \in DOMAIN f.seasons :
                            f.seasons[n].factor >= 0 /\ f.seasons[n].extra >= 0
        IN  f.track \notin DOMAIN tracks =>
                (f.track \in DOMAIN tracks' <=>
                    f.track # NoName /\ named /\ GoesRound(f.seasons) /\ bearable)]_vars

Current(t, d) == Standing(tracks[t], d).cur

\* On a calendar with more days than months no month is skipped.
EveryMonthHasADay == calendar.months < calendar.days

\* As the days pass, across new year too, a season gives way to the one that
\* resolves it as its predecessor, and the days into a season count up by one
\* from 0: the blend rises through the window once and is never set back.
SeasonsTurnInOrder ==
    [][EveryMonthHasADay /\ day' # day =>
        \A t \in DOMAIN tracks : Len(tracks[t]) > 1 =>
            LET now == Current(t, day)
                next == Current(t, day')
            IN  IF next = now
                THEN DaysInto(tracks[t][next], day') = DaysInto(tracks[t][now], day) + 1
                ELSE /\ Previous(tracks[t], next) = now
                     /\ DaysInto(tracks[t][next], day') = 0]_vars

Gap(x, y) == IF x < y THEN y - x ELSE x - y

FullOdds(s) == BaseWeight * s.factor + s.extra

DistinctNames(track) ==
    \A n, k \in DOMAIN track : track[n].name = track[k].name => n = k

\* The effective weight is never negative, sim draws with it as a weight; and it
\* stays between what the season of the day and the one before make of it alone.
\* The second half is for seasons of distinct names: EffectiveClimate finds them
\* by name, so of two with one name the later never gets its own odds.
OddsStayBetween ==
    \A t \in DOMAIN tracks :
        LET at == Standing(tracks[t], day)
            e == Effective(tracks[t], day)
            a == FullOdds(tracks[t][at.prev]) * e.over
            b == FullOdds(tracks[t][at.cur]) * e.over
        IN  /\ e.odds >= 0
            /\ DistinctNames(tracks[t]) =>
                    (a <= e.odds /\ e.odds <= b) \/ (b <= e.odds /\ e.odds <= a)

DaysOf(track, n) == Cardinality({d \in 1..calendar.days : MonthOfDay(d) \in track[n].claims})

WindowsFit(track) == \A n \in DOMAIN track : track[n].window <= DaysOf(track, n)

\* No jumps: when every window fits in its season, a day moves the weight by at
\* most one share of the way to the season it falls in, a share per day of that
\* season's window, be it a day within the window, after it, or the season's
\* last.  Only a season without a window comes at a jump, or one that shares its
\* name with another.
OddsMoveGently ==
    [][EveryMonthHasADay /\ day' # day =>
        \A t \in DOMAIN tracks :
          WindowsFit(tracks[t]) /\ DistinctNames(tracks[t]) /\ Len(tracks[t]) > 1 =>
            LET was == Effective(tracks[t], day)
                is == Effective(tracks[t], day')
                now == Standing(tracks[t], day)
                next == Standing(tracks[t], day')
                way == Gap(FullOdds(tracks[t][now.prev]), FullOdds(tracks[t][now.cur]))
                shares == tracks[t][now.cur].window
                moved == Gap(was.odds * is.over, is.odds * was.over)
            IN  next.cur = now.cur \/ tracks[t][next.cur].window > 0 =>
                    IF shares = 0 THEN moved = 0
                    ELSE moved * shares <= way * was.over * is.over]_vars
=============================================================================
