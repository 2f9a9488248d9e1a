--------------------------- MODULE MCAvailability ---------------------------
(* The release channel, with and without its name, and a beta channel; items *)
(* with a title and a minimum system, the host's or a newer one; versions    *)
(* with a revision, a tilde, an epoch, and numbers too large for their type. *)
(* On the console, whose polls multiply the states, the documents are those  *)
(* of at most four events, and the versions two.                             *)
EXTENDS Availability

Channels == {"", "release", "beta"}
Fields   == <<"title", "minimumSystemVersion">>
Digits   == {2}

Num(n) == [digits |-> TRUE, value |-> n]
Chr(n) == [digits |-> FALSE, value |-> n]
Dot    == Chr(46)

VersionTexts ==
  { <<Num(1)>>,
    <<Num(1), Dot>>,
    <<Num(1), Dot, Num(0)>>,
    <<Num(1), Dot, Num(2)>>,
    <<Num(1), Dot, Num(21)>>,
    <<Num(1), Dot, Num(22)>>,
    <<Num(1), Tilde, Chr(98)>>,
    <<Num(1), Chr(98)>>,
    <<Num(1), Dot, Tilde>>,
    <<Num(1), Hyphen, Num(0)>>,
    <<Num(1), Hyphen, Chr(98)>>,
    <<Num(1), Colon, Num(0), Dot, Num(1)>> }

ConsoleIsShort ==
  console => events <= 4 /\ {current, offer} \subseteq {<<>>, <<Num(1)>>, <<Num(1), Dot>>}

(* What AutoVersionTest.cpp:23-63 expects; a letter stands for a word. *)
Point(x, y) == <<Num(x), Dot, Num(y)>>
Alpha == <<Chr(97)>>
Beta  == <<Chr(98)>>
Below(text1, text2) == Compare(text1, text2) < 0 /\ Compare(text2, text1) > 0

ASSUME AutoVersionTest ==
  /\ Parsed(<<Num(10), Colon>> \o Point(4, 0) \o <<Tilde>> \o Alpha
            \o <<Hyphen, Num(4), Hyphen, Num(5)>>)
       = [epoch    |-> 10,
          upstream |-> Point(4, 0) \o <<Tilde>> \o Alpha \o <<Hyphen, Num(4)>>,
          revision |-> <<Num(5)>>]
  /\ Below(<<Num(1)>>, <<Num(2)>>) /\ Below(<<Num(9)>>, <<Num(10)>>)
  /\ Compare(<<Num(10)>>, <<Num(10)>>) = 0
  /\ Below(<<Num(1), Colon, Num(2)>>, <<Num(2), Colon, Num(1)>>)
  /\ Below(<<Num(10)>>, <<Num(1), Colon, Num(2)>>)
  /\ Below(Alpha, Beta) /\ Below(Alpha \o <<Num(2)>>, Alpha \o <<Num(10)>>)
  /\ Below(Point(3, 0) \o <<Tilde>> \o Beta, Point(3, 0))
  /\ Below(Point(3, 0) \o <<Tilde, Tilde>> \o Alpha, Point(3, 0) \o <<Tilde>> \o Beta)
  /\ Below(Point(3, 0) \o <<Tilde>> \o Alpha \o <<Num(4)>>, Point(3, 0) \o <<Tilde>> \o Beta)
  /\ Below(Point(3, 0) \o <<Hyphen, Num(2)>>, Point(3, 0) \o <<Hyphen, Num(10)>>)
=============================================================================
