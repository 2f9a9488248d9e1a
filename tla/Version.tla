------------------------------- MODULE Version ------------------------------
(***************************************************************************)
(* AutoVersion: how two version numbers are taken apart and compared.  A    *)
(* text is a sequence of tokens: a run of digits, with its value, or one    *)
(* other character, with its code.  No two runs of digits are neighbours.   *)
(***************************************************************************)
EXTENDS Integers, Sequences, SequencesExt

CONSTANT MaxLong   \* the greatest long and int of the build; strtol saturates at it

ASSUME VersionAssumption == MaxLong \in Nat

Token == [digits : BOOLEAN, value : Nat]

Tilde  == [digits |-> FALSE, value |-> 126]
Colon  == [digits |-> FALSE, value |-> 58]
Hyphen == [digits |-> FALSE, value |-> 45]
Plus   == [digits |-> FALSE, value |-> 43]
Zero   == [digits |-> TRUE, value |-> 0]

Saturated(n) == IF n > MaxLong THEN MaxLong ELSE n

(* strtol and atoi: the value of a sign and digits, or of digits, and their  *)
(* length. *)
Leading(rest) ==
  CASE rest[1].digits -> [value |-> Saturated(rest[1].value), length |-> 1]
    [] rest[1] \in {Plus, Hyphen} /\ Len(rest) > 1 /\ rest[2].digits ->
         [value |-> IF rest[1] = Plus THEN Saturated(rest[2].value)
                                     ELSE -Saturated(rest[2].value), length |-> 2]
    [] OTHER -> [value |-> 0, length |-> 0]

(* The constructor: [epoch:]upstream[-revision], cut at the first colon and  *)
(* at the last hyphen after it. *)
Upstream(text) == SubSeq(text, SelectInSeq(text, LAMBDA t : t = Colon) + 1, Len(text))

Parsed(text) ==
  LET rest == Upstream(text)
      cut  == SelectLastInSeq(rest, LAMBDA t : t = Hyphen)
  IN [epoch    |-> IF rest = text THEN 0 ELSE Leading(text).value,
      upstream |-> IF cut = 0 THEN rest ELSE SubSeq(rest, 1, cut - 1),
      revision |-> IF cut = 0 THEN <<Zero>> ELSE SubSeq(rest, cut + 1, Len(rest))]

-----------------------------------------------------------------------------
Sign(before, after) == IF before THEN -1 ELSE IF after THEN 1 ELSE 0

TildeAfterNumber(s, t) ==
  CASE s.digits /\ t.digits   -> Sign(Saturated(s.value) < Saturated(t.value),
                                      Saturated(s.value) > Saturated(t.value))
    [] ~s.digits /\ ~t.digits -> Sign(s # t /\ (s = Tilde \/ (t # Tilde /\ s.value < t.value)),
                                      s # t)
    [] OTHER                  -> Sign(s = Tilde \/ s.digits, TRUE)

(* A tilde comes before everything, the end included; a number before any    *)
(* other character. *)
CompareToken(s, t) ==
  CASE s.digits /\ t.digits   -> Sign(Saturated(s.value) < Saturated(t.value),
                                      Saturated(s.value) > Saturated(t.value))
    [] ~s.digits /\ ~t.digits -> Sign(s # t /\ (s = Tilde \/ (t # Tilde /\ s.value < t.value)),
                                      s # t)
    [] OTHER                  -> Sign(s = Tilde \/ (t # Tilde /\ s.digits), TRUE)

AfterEnd(rest) == IF rest = <<>> THEN 0 ELSE IF rest[1] = Tilde THEN 1 ELSE -1

(* Component c has ended and the other goes on with `rest'.  If it ended     *)
(* among characters that are no digits, nothing is compared with a number.   *)
EndBefore(c, rest) ==
  IF c = <<>> \/ rest = <<>> \/ Last(c).digits THEN AfterEnd(rest)
  ELSE LET number == Leading(rest)
       IN IF number.value # 0 THEN Sign(number.value > 0, TRUE)
          ELSE AfterEnd(SubSeq(rest, number.length + 1, Len(rest)))

CompareEnds(a, b) ==
  LET Rest(c, d) == SubSeq(c, Len(d) + 1, Len(c))
  IN IF Len(a) <= Len(b) THEN EndBefore(a, Rest(b, a)) ELSE -EndBefore(b, Rest(a, b))

(* The first pair of tokens that differs decides, or else the end. *)
CompareComponent(a, b) ==
  LET differ == {i \in DOMAIN a \cap DOMAIN b : CompareToken(a[i], b[i]) # 0}
  IN IF differ = {} THEN CompareEnds(a, b)
     ELSE LET i == CHOOSE j \in differ : \A k \in differ : j <= k
          IN CompareToken(a[i], b[i])

CompareVersion(v, w) ==
  IF v.epoch # w.epoch THEN Sign(v.epoch < w.epoch, TRUE)
  ELSE IF CompareComponent(v.upstream, w.upstream) # 0
         THEN CompareComponent(v.upstream, w.upstream)
         ELSE CompareComponent(v.revision, w.revision)

Compare(text1, text2) == CompareVersion(Parsed(text1), Parsed(text2))
=============================================================================
