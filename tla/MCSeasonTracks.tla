---------------------------- MODULE MCSeasonTracks ----------------------------
(***************************************************************************)
(* Small instances of SeasonTracks: years of three and four months, the    *)
(* months of uneven length or shorter than a day, and every way to claim   *)
(* them by one, two or three seasons, right or wrong.                      *)
(***************************************************************************)
EXTENDS SeasonTracks

\* Months 1..4 are claimed in order, wrapped or out of order, twice, or beyond
\* the year.
Claimed == {<<>>, <<1>>, <<2>>, <<3>>, <<4>>, <<1, 2>>, <<2, 3>>, <<3, 4>>, <<4, 1>>,
            <<1, 3>>, <<2, 2>>, <<3, 1>>, <<1, 2, 3>>, <<3, 4, 1>>, <<4, 2, 1>>, <<2, 4>>,
            <<1, 2, 3, 4>>, <<2, 1, 3, 4>>, <<0, 1>>}

\* The first season opens with a window of two days, the second with a negative
\* one, the third with one day; the third is like the first, so that the way to
\* it is shorter than a share of the way to the first.
First(months) == [name |-> "first", months |-> months, window |-> 2, factor |-> 3, extra |-> 0]
Second(months) == [name |-> "second", months |-> months, window |-> -1, factor |-> 0, extra |-> 2]
Third(months) == [name |-> "third", months |-> months, window |-> 1, factor |-> 2, extra |-> 1]
Negative(months) == [name |-> "negative", months |-> months, window |-> 1, factor |-> -1, extra |-> 0]

FileOf(seasons) == <<[track |-> "t", seasons |-> seasons]>>

Ones == {<<First(a)>> : a \in Claimed}
Twos == {<<First(a), Second(b)>> : a \in Claimed, b \in Claimed}
Threes == {<<First(a), Second(b), Third(c)>> : a \in Claimed, b \in Claimed, c \in Claimed}
Signed == {<<First(<<1, 2>>), Negative(<<3, 4>>)>>, <<First(<<4, 1>>), Negative(<<2, 3>>)>>}

\* The third season under the name of the first; seasons and a file without one.
Again(months) == [Third(months) EXCEPT !.name = "first"]
Nameless(months) == [Third(months) EXCEPT !.name = NoName]
Names == {<<First(<<1>>), Second(<<2>>), Again(<<3, 4>>)>>,
          <<First(<<1>>), Second(<<2>>), Again(<<3>>)>>,
          <<First(<<1, 2>>), Nameless(<<3, 4>>)>>, <<Nameless(<<1, 2, 3>>)>>}
Trackless == {<<[track |-> NoName, seasons |-> <<First(<<1, 2, 3>>)>>]>>,
              <<[track |-> NoName, seasons |-> <<First(<<1, 2, 3, 4>>)>>]>>}

\* Two files of one name, the later one valid too.
Twice == {FileOf(<<First(<<1, 2>>), Third(<<3, 4>>)>>) \o FileOf(<<Second(<<1, 2, 3, 4>>)>>)}

MCFiles == {FileOf(s) : s \in {<<>>} \cup Ones \cup Twos \cup Threes \cup Signed \cup Names}
           \cup Trackless \cup Twice

MCCalendars == {[months |-> 4, days |-> 10], [months |-> 3, days |-> 8],
                [months |-> 4, days |-> 3]}
=============================================================================
