-------------------------------- MODULE MCTui ---------------------------------
\* What an operator may type, for TLC.
EXTENDS Tui

Up == <<"esc", "[", "A">>
PgUp == <<"esc", "[", "5", "~">>
PgDn == <<"esc", "[", "6", "~">>

MCCode ==
  [b \in {"^C", "tab", "cr", "esc", "/", "1", "2", "3", "5", "6", ";", "?", "A", "B", "O", "S", "[", "a",
          "b", "c", "e", "g", "j", "k", "l", "n", "p", "q", "r", "x", "y", "~", "del"} |->
     CASE b = "^C"  -> 3   [] b = "tab" -> 9   [] b = "cr" -> 13  [] b = "esc" -> 27
       [] b = "/"   -> 47  [] b = "1"   -> 49  [] b = "2"  -> 50  [] b = "3"   -> 51
       [] b = "5"   -> 53  [] b = "6"   -> 54
       [] b = ";"   -> 59  [] b = "?"   -> 63  [] b = "A"  -> 65  [] b = "B"   -> 66
       [] b = "O"   -> 79  [] b = "S"   -> 83  [] b = "["  -> 91  [] b = "a"   -> 97
       [] b = "b"   -> 98  [] b = "c"   -> 99  [] b = "e"  -> 101 [] b = "g"   -> 103
       [] b = "j"   -> 106 [] b = "k"   -> 107 [] b = "l"  -> 108 [] b = "n"   -> 110
       [] b = "p"   -> 112 [] b = "q"   -> 113 [] b = "r"  -> 114 [] b = "x"   -> 120
       [] b = "y"   -> 121 [] b = "~"   -> 126 [] b = "del" -> 127]

MCMatches(text, filter) == Len(filter) = 0 \/ (Len(filter) = 1 /\ text = filter[1])

MCServices == <<"a", "b">>
MCTargets == {"", "a", "b"} \X {"logs", "events"}

MCWritten ==
  LET Entry(id, kind, text) == << <<id, kind>>, text>>
  IN  <<Entry("a", "logs", "a"), Entry("", "events", "a"), Entry("a", "logs", "c"),
        Entry("a", "logs", "a"), Entry("", "events", "a"), Entry("a", "logs", "a")>>

\* Three of heron's own, while no service passes the filter.
MCOwnWritten == [i \in 1..3 |-> << <<"", "events">>, "a">>]
MCOwnInputs == {<<"/", "c", "cr", "e">> \o Up}

MCInputs ==
  { <<"k", "y", "x">>, <<"k", "x", "y">>, <<"/", "k", "y">>, <<"S", "r">>, <<"1", "j", "x">>,
    <<"/", "b", "b", "cr", "x">>, <<"/", "c", "del">>, <<"/", "a", "esc", "x">>, <<"q", "y">>,
    <<"tab", "2", "k", "n">>, <<"esc", "^C">>, PgDn \o CtrlC,
    <<"esc", "[", "?", "1", ";", "/", "S">>, <<"esc", "O", "B", "x">>,
    <<"3">> \o Up \o <<"g">>, <<"l">> \o PgUp \o <<"j">>, <<"e">> \o Up,
    <<"l">> \o Up \o <<"/", "a">> }

=============================================================================
