---------------------------- MODULE VersionProofs ----------------------------
(***************************************************************************)
(* The comparison of AutoVersion says the same whichever version is given   *)
(* first, for all versions and every width of a long; and it is an order,   *)
(* but for texts in which a sign stands between a character and a number.   *)
(***************************************************************************)
EXTENDS Version, SequenceTheorems, WellFoundedInduction, TLAPS

Component     == Seq(Token)
VersionRecord == [epoch : Int, upstream : Component, revision : Component]

(* A set of numbers that is not empty has a least one. *)
LEMMA Least ==
  ASSUME NEW S \in SUBSET Nat, S # {}
  PROVE  \E j \in S : \A k \in S : j <= k
<1> DEFINE Below == {p \in Nat \X Nat : p[1] < p[2]}
<1>1. IsWellFoundedOn(Below, Nat)
  BY NatLessThanWellFounded DEF OpToRel
<1>2. PICK j \in S : \A k \in S : ~(<<k, j>> \in Below)
  <2> HIDE DEF Below
  <2> QED
    BY <1>1, WFMin
<1>3. \A k, l \in Nat : k < l => <<k, l>> \in Below
  OBVIOUS
<1>4. ASSUME NEW k \in S PROVE j <= k
  <2>1. <<k, j>> \notin Below
    BY <1>2
  <2> HIDE DEF Below
  <2>2. k \in Nat /\ j \in Nat
    OBVIOUS
  <2>3. ~(k < j)
    BY <1>3, <2>1, <2>2
  <2> QED
    BY <2>2, <2>3
<1> QED
  BY <1>4

LEMMA Greatest ==
  ASSUME NEW n \in Nat, NEW I \in SUBSET (1..n), I # {}
  PROVE  \E j \in I : \A k \in I : j >= k
<1> DEFINE S == {k \in Nat : n - k \in I}
<1>1. S \in SUBSET Nat /\ S # {}
  <2>1. PICK i \in I : TRUE
    OBVIOUS
  <2>2. n - i \in Nat /\ n - (n - i) = i
    BY <2>1
  <2>3. n - i \in S
    BY <2>1, <2>2
  <2> QED
    BY <2>3
<1>2. PICK m \in S : \A k \in S : m <= k
  <2> HIDE DEF S
  <2> QED
    BY <1>1, Least
<1>3. PICK j \in I : m = n - j
  <2>1. m \in Nat /\ n - m \in I
    OBVIOUS
  <2>2. m = n - (n - m)
    BY <2>1
  <2> QED
    BY <2>1, <2>2
<1>4. ASSUME NEW k \in I PROVE j >= k
  <2>1. n - k \in Nat /\ n - (n - k) = k
    OBVIOUS
  <2>3. n - k \in S
    BY <2>1
  <2>2. j \in Int /\ k \in Int
    OBVIOUS
  <2> HIDE DEF S
  <2>4. n - j <= n - k
    BY <1>2, <1>3, <2>3
  <2> QED
    BY <2>2, <2>4
<1> QED
  BY <1>4

(* The places where a text may be cut; SelectInSeq and SelectLastInSeq take  *)
(* the first and the last. *)
Places(s, e) == {i \in 1..Len(s) : s[i] = e}

LEMMA PlaceType ==
  ASSUME NEW s \in Component, NEW e, Places(s, e) # {}
  PROVE  Min(Places(s, e)) \in 1..Len(s) /\ Max(Places(s, e)) \in 1..Len(s)
<1>1. Len(s) \in Nat /\ Places(s, e) \in SUBSET (1..Len(s))
  BY DEF Component, Places
<1>2. Places(s, e) \in SUBSET Nat
  BY <1>1
<1>3. Min(Places(s, e)) \in Places(s, e)
  BY <1>2, Least DEF Min
<1>4. Max(Places(s, e)) \in Places(s, e)
  BY <1>1, Greatest DEF Max
<1> QED
  BY <1>1, <1>3, <1>4

(* Of two tokens, equal or not, one comes before the other or neither does. *)
LEMMA TokenAntisymmetric ==
  ASSUME NEW s \in Token, NEW t \in Token
  PROVE  /\ CompareToken(s, t) \in {-1, 0, 1}
         /\ CompareToken(t, s) = -CompareToken(s, t)
<1>1. CASE s.digits /\ t.digits
  BY <1>1, VersionAssumption DEF CompareToken, Token, Sign, Saturated
<1>2. CASE ~s.digits /\ ~t.digits
  <2>1. s # t => s.value # t.value
    BY <1>2 DEF Token
  <2> QED
    BY <1>2, <2>1 DEF CompareToken, Token, Sign, Tilde
<1>3. CASE s.digits /\ ~t.digits
  <2>1. s # Tilde
    BY <1>3 DEF Tilde
  <2> QED
    BY <1>3, <2>1 DEF CompareToken, Token, Sign
<1>4. CASE ~s.digits /\ t.digits
  <2>1. t # Tilde
    BY <1>4 DEF Tilde
  <2> QED
    BY <1>4, <2>1 DEF CompareToken, Token, Sign
<1> QED
  BY <1>1, <1>2, <1>3, <1>4 DEF Token

LEMMA EndType ==
  ASSUME NEW c, NEW rest
  PROVE  EndBefore(c, rest) \in {-1, 0, 1}
<1>1. \A r : AfterEnd(r) \in {-1, 0, 1}
  BY DEF AfterEnd
<1> QED
  BY <1>1 DEF EndBefore, Sign

(* The shorter component is the one that has ended, on either side. *)
LEMMA EndsAntisymmetric ==
  ASSUME NEW a \in Component, NEW b \in Component
  PROVE  /\ CompareEnds(a, b) \in {-1, 0, 1}
         /\ CompareEnds(b, a) = -CompareEnds(a, b)
<1> DEFINE Rest(c, d) == SubSeq(c, Len(d) + 1, Len(c))
<1>1. Len(a) \in Nat /\ Len(b) \in Nat
  BY DEF Component
<1>2. /\ EndBefore(a, Rest(b, a)) \in {-1, 0, 1}
      /\ EndBefore(b, Rest(a, b)) \in {-1, 0, 1}
  BY EndType
<1>3. CompareEnds(a, b) = IF Len(a) <= Len(b) THEN EndBefore(a, Rest(b, a))
                                              ELSE -EndBefore(b, Rest(a, b))
  BY DEF CompareEnds
<1>4. CompareEnds(b, a) = IF Len(b) <= Len(a) THEN EndBefore(b, Rest(a, b))
                                              ELSE -EndBefore(a, Rest(b, a))
  BY DEF CompareEnds
<1>5. CASE Len(a) = Len(b)
  <2>1. Rest(b, a) = <<>> /\ Rest(a, b) = <<>>
    BY <1>1, <1>5, SubSeqEmpty
  <2>2. \A c : EndBefore(c, <<>>) = 0
    BY DEF EndBefore, AfterEnd
  <2> HIDE DEF Rest
  <2> QED
    BY <1>1, <1>3, <1>4, <1>5, <2>1, <2>2
<1>6. CASE Len(a) # Len(b)
  <2> HIDE DEF Rest
  <2> QED
    BY <1>1, <1>2, <1>3, <1>4, <1>6
<1> QED
  BY <1>5, <1>6

LEMMA ComponentAntisymmetric ==
  ASSUME NEW a \in Component, NEW b \in Component
  PROVE  /\ CompareComponent(a, b) \in {-1, 0, 1}
         /\ CompareComponent(b, a) = -CompareComponent(a, b)
<1> DEFINE differ(c, d) == {i \in DOMAIN c \cap DOMAIN d : CompareToken(c[i], d[i]) # 0}
           first(S)     == CHOOSE j \in S : \A k \in S : j <= k
<1>1. \A i \in DOMAIN a \cap DOMAIN b : a[i] \in Token /\ b[i] \in Token
  BY DEF Component
<1>2. differ(a, b) = differ(b, a)
  BY <1>1, TokenAntisymmetric
<1>3. CASE differ(a, b) = {}
  <2>1. /\ CompareComponent(a, b) = CompareEnds(a, b)
        /\ CompareComponent(b, a) = CompareEnds(b, a)
    BY <1>2, <1>3 DEF CompareComponent
  <2> QED
    BY <2>1, EndsAntisymmetric
<1>4. CASE differ(a, b) # {}
  <2> DEFINE i == first(differ(a, b))
  <2>1. /\ CompareComponent(a, b) = CompareToken(a[i], b[i])
        /\ CompareComponent(b, a) = CompareToken(b[i], a[i])
    BY <1>2, <1>4 DEF CompareComponent
  <2>2. differ(a, b) \in SUBSET Nat
    BY DEF Component
  <2>3. i \in differ(a, b)
    <3> HIDE DEF differ
    <3> QED
      BY <1>4, <2>2, Least
  <2>4. a[i] \in Token /\ b[i] \in Token
    BY <1>1, <2>3
  <2> HIDE DEF i
  <2> QED
    BY <2>1, <2>4, TokenAntisymmetric
<1> QED
  BY <1>3, <1>4

LEMMA VersionAntisymmetric ==
  ASSUME NEW v \in VersionRecord, NEW w \in VersionRecord
  PROVE  CompareVersion(w, v) = -CompareVersion(v, w)
<1>1. v.epoch \in Int /\ w.epoch \in Int
  BY DEF VersionRecord
<1>2. /\ CompareComponent(v.upstream, w.upstream) \in {-1, 0, 1}
      /\ CompareComponent(w.upstream, v.upstream) = -CompareComponent(v.upstream, w.upstream)
      /\ CompareComponent(v.revision, w.revision) \in {-1, 0, 1}
      /\ CompareComponent(w.revision, v.revision) = -CompareComponent(v.revision, w.revision)
  BY ComponentAntisymmetric DEF VersionRecord
<1> QED
  BY <1>1, <1>2 DEF CompareVersion, Sign

LEMMA LeadingType ==
  ASSUME NEW rest \in Component, rest # <<>>
  PROVE  Leading(rest).value \in Int
<1>1. rest[1] \in Token /\ (Len(rest) > 1 => rest[2] \in Token)
  BY DEF Component
<1>2. \A n \in Nat : Saturated(n) \in Int
  BY VersionAssumption DEF Saturated
<1>3. CASE rest[1].digits
  BY <1>1, <1>2, <1>3 DEF Leading, Token
<1>4. CASE ~rest[1].digits /\ rest[1] \in {Plus, Hyphen} /\ Len(rest) > 1 /\ rest[2].digits
  BY <1>1, <1>2, <1>4 DEF Leading, Token
<1>5. CASE ~rest[1].digits /\ ~(rest[1] \in {Plus, Hyphen} /\ Len(rest) > 1 /\ rest[2].digits)
  BY <1>5 DEF Leading
<1> QED
  BY <1>3, <1>4, <1>5

(* Every text is taken apart into an epoch and two components. *)
LEMMA ParsedType ==
  ASSUME NEW text \in Component
  PROVE  Parsed(text) \in VersionRecord
<1> DEFINE start == SelectInSeq(text, LAMBDA t : t = Colon)
           rest  == Upstream(text)
           cut   == SelectLastInSeq(rest, LAMBDA t : t = Hyphen)
<1>1. Len(text) \in Nat /\ \A i \in 1..Len(text) : text[i] \in Token
  BY DEF Component
<1>2. start \in 0..Len(text)
  <2>1. start = IF Places(text, Colon) # {} THEN Min(Places(text, Colon)) ELSE 0
    BY DEF SelectInSeq, Places
  <2> HIDE DEF start
  <2> QED
    BY <1>1, <2>1, PlaceType
<1>3. rest = SubSeq(text, start + 1, Len(text))
  BY DEF Upstream
<1> HIDE DEF start
<1>4. rest \in Component
  <2> HIDE DEF rest
  <2> QED
    BY <1>1, <1>2, <1>3, SubSeqProperties DEF Component
<1>5. rest = text \/ text # <<>>
  <2> HIDE DEF rest
  <2>1. CASE text = <<>>
    BY <1>2, <1>3, <2>1, SubSeqEmpty
  <2> QED
    BY <2>1
<1>6. Len(rest) \in Nat /\ \A i \in 1..Len(rest) : rest[i] \in Token
  BY <1>4 DEF Component
<1>7. cut \in 0..Len(rest)
  <2> HIDE DEF rest
  <2>1. cut = IF Places(rest, Hyphen) # {} THEN Max(Places(rest, Hyphen)) ELSE 0
    BY DEF SelectLastInSeq, Places
  <2> HIDE DEF cut
  <2> QED
    BY <1>4, <1>6, <2>1, PlaceType
<1>8. Parsed(text) = [epoch |-> IF rest = text THEN 0 ELSE Leading(text).value,
                      upstream |-> IF cut = 0 THEN rest ELSE SubSeq(rest, 1, cut - 1),
                      revision |-> IF cut = 0 THEN <<Zero>> ELSE SubSeq(rest, cut + 1, Len(rest))]
  BY DEF Parsed
<1> HIDE DEF rest, cut
<1>9. /\ SubSeq(rest, 1, cut - 1) \in Component
      /\ SubSeq(rest, cut + 1, Len(rest)) \in Component
  BY <1>6, <1>7, SubSeqProperties DEF Component
<1>10. <<Zero>> \in Component
  BY DEF Zero, Component, Token
<1> QED
  BY <1>4, <1>5, <1>8, <1>9, <1>10, LeadingType DEF VersionRecord

LEMMA CompareType ==
  ASSUME NEW text1 \in Component, NEW text2 \in Component
  PROVE  Compare(text1, text2) \in {-1, 0, 1}
<1> DEFINE v == Parsed(text1)
           w == Parsed(text2)
<1>1. v \in VersionRecord /\ w \in VersionRecord
  BY ParsedType
<1> HIDE DEF v, w
<1>2. CompareVersion(v, w) \in {-1, 0, 1}
  BY <1>1, ComponentAntisymmetric DEF CompareVersion, Sign, VersionRecord
<1> QED
  BY <1>2 DEF Compare, v, w

(* Two versions compare the same from either side: a release that is newer   *)
(* than the application makes the application older than the release.       *)
(* AutoVersion.cpp:45-136.                                                   *)
THEOREM CompareIsAntisymmetric ==
  ASSUME NEW text1 \in Component, NEW text2 \in Component
  PROVE  Compare(text2, text1) = -Compare(text1, text2)
BY ParsedType, VersionAntisymmetric DEF Compare

-----------------------------------------------------------------------------
(* The order of versions.  A component is read as a sequence of numbers that *)
(* never ends, in which the end comes after a tilde and before all else, and *)
(* a component that ends among characters goes on with a zero; components    *)
(* compare as these sequences do, by the first place where they differ.      *)

TokenKey(t) == IF t = Tilde THEN 0
               ELSE IF t.digits THEN 2 + Saturated(t.value) ELSE MaxLong + 3 + t.value

EndsInCharacter(c) == c # <<>> /\ ~Last(c).digits

Key(c) == [i \in Nat \ {0} |->
            IF i <= Len(c) THEN TokenKey(c[i])
            ELSE IF i = Len(c) + 1 /\ EndsInCharacter(c) THEN 2 ELSE 1]

KeyType == [Nat \ {0} -> Nat]

LexBefore(f, g) == \E i \in Nat \ {0} : f[i] < g[i] /\ \A k \in 1..(i - 1) : f[k] = g[k]

(* No sign between a character and a number: there strtol would read the     *)
(* sign with the number, if the other component has just ended.              *)
Unsigned(c) ==
  \A i \in 1..(Len(c) - 2) :
    ~c[i].digits /\ c[i + 2].digits => c[i + 1] \notin {Plus, Hyphen}

LEMMA TokenKeys ==
  ASSUME NEW s \in Token, NEW t \in Token
  PROVE  /\ TokenKey(s) \in Nat /\ (TokenKey(s) = 0 <=> s = Tilde)
         /\ TokenKey(s) # 1
         /\ CompareToken(s, t) = 0 => TokenKey(s) = TokenKey(t) /\ s.digits = t.digits
         /\ CompareToken(s, t) < 0 => TokenKey(s) < TokenKey(t)
         /\ CompareToken(s, t) > 0 => TokenKey(t) < TokenKey(s)
<1>1. MaxLong \in Nat
  BY VersionAssumption
<1>2. \A n \in Nat : Saturated(n) \in Nat /\ Saturated(n) <= MaxLong
  BY <1>1 DEF Saturated
<1>3. s.digits \in BOOLEAN /\ t.digits \in BOOLEAN /\ s.value \in Nat /\ t.value \in Nat
  BY DEF Token
<1>4. /\ ~Tilde.digits
      /\ s.digits => TokenKey(s) = 2 + Saturated(s.value)
      /\ t.digits => TokenKey(t) = 2 + Saturated(t.value)
      /\ ~s.digits /\ s # Tilde => TokenKey(s) = MaxLong + 3 + s.value
      /\ ~t.digits /\ t # Tilde => TokenKey(t) = MaxLong + 3 + t.value
      /\ s = Tilde => TokenKey(s) = 0
      /\ t = Tilde => TokenKey(t) = 0
  BY DEF TokenKey, Tilde
<1>5. TokenKey(s) \in Nat /\ (TokenKey(s) = 0 <=> s = Tilde)
  BY <1>1, <1>2, <1>3, <1>4
<1>6. TokenKey(s) # 1
  BY <1>1, <1>2, <1>3, <1>4
<1>7. CASE s.digits /\ t.digits
  <2>1. CompareToken(s, t) = Sign(Saturated(s.value) < Saturated(t.value),
                                  Saturated(s.value) > Saturated(t.value))
    BY <1>7 DEF CompareToken
  <2> QED
    BY <1>2, <1>3, <1>4, <1>5, <1>6, <1>7, <2>1 DEF Sign
<1>8. CASE ~s.digits /\ ~t.digits
  <2>1. CompareToken(s, t) = Sign(s # t /\ (s = Tilde \/ (t # Tilde /\ s.value < t.value)), s # t)
    BY <1>8 DEF CompareToken
  <2>2. s # t => s.value # t.value
    BY <1>8 DEF Token
  <2> QED
    BY <1>1, <1>3, <1>4, <1>5, <1>6, <1>8, <2>1, <2>2 DEF Sign
<1>9. CASE s.digits # t.digits
  <2>1. CompareToken(s, t) = Sign(s = Tilde \/ (t # Tilde /\ s.digits), TRUE)
    <3>1. ~(s.digits /\ t.digits) /\ ~(~s.digits /\ ~t.digits)
      BY <1>3, <1>9
    <3> QED
      BY <3>1, Zenon DEF CompareToken
  <2> QED
    BY <1>1, <1>2, <1>3, <1>4, <1>5, <1>6, <1>9, <2>1 DEF Sign
<1> QED
  BY <1>3, <1>7, <1>8, <1>9

LEMMA KeyFacts ==
  ASSUME NEW c \in Component
  PROVE  /\ Key(c) \in KeyType /\ Len(c) \in Nat
         /\ \A i \in 1..Len(c) : c[i] \in Token /\ Key(c)[i] = TokenKey(c[i])
         /\ Key(c)[Len(c) + 1] = IF EndsInCharacter(c) THEN 2 ELSE 1
         /\ \A i \in Nat : i > Len(c) + 1 => Key(c)[i] = 1
         /\ EndsInCharacter(c) <=> Len(c) > 0 /\ ~c[Len(c)].digits
<1>1. Len(c) \in Nat /\ (c = <<>> <=> Len(c) = 0) /\ \A i \in 1..Len(c) : c[i] \in Token
  BY DEF Component
<1>2. EndsInCharacter(c) <=> Len(c) > 0 /\ ~c[Len(c)].digits
  BY <1>1 DEF EndsInCharacter, Last
<1>3. \A i \in 1..Len(c) : TokenKey(c[i]) \in Nat
  <2>1. \A t \in Token : TokenKey(t) \in Nat
    BY TokenKeys
  <2> QED
    BY <1>1, <2>1
<1>4. \A i \in Nat \ {0} : Key(c)[i] = IF i <= Len(c) THEN TokenKey(c[i])
                             ELSE IF i = Len(c) + 1 /\ EndsInCharacter(c) THEN 2 ELSE 1
  BY DEF Key
<1>5. \A i \in Nat \ {0} : (IF i <= Len(c) THEN TokenKey(c[i])
                             ELSE IF i = Len(c) + 1 /\ EndsInCharacter(c) THEN 2 ELSE 1) \in Nat
  BY <1>1, <1>3
<1>6. Key(c) \in KeyType
  BY <1>5 DEF Key, KeyType
<1>7. \A i \in 1..Len(c) : Key(c)[i] = TokenKey(c[i])
  BY <1>1, <1>4
<1>8. Key(c)[Len(c) + 1] = IF EndsInCharacter(c) THEN 2 ELSE 1
  BY <1>1, <1>4
<1>9. \A i \in Nat : i > Len(c) + 1 => Key(c)[i] = 1
  BY <1>1, <1>4
<1> QED
  BY <1>1, <1>2, <1>6, <1>7, <1>8, <1>9

(* Two keys are equal, or one is before the other. *)
LEMMA LexAsymmetric ==
  ASSUME NEW f \in KeyType, NEW g \in KeyType, LexBefore(f, g)
  PROVE  f # g /\ ~LexBefore(g, f)
<1>1. PICK i \in Nat \ {0} : f[i] < g[i] /\ \A k \in 1..(i - 1) : f[k] = g[k]
  BY DEF LexBefore
<1>2. f[i] \in Nat /\ g[i] \in Nat
  BY DEF KeyType
<1>3. f # g
  BY <1>1, <1>2
<1>4. ASSUME NEW j \in Nat \ {0}, g[j] < f[j], \A k \in 1..(j - 1) : g[k] = f[k] PROVE FALSE
  <2>1. f[j] \in Nat /\ g[j] \in Nat
    BY DEF KeyType
  <2>2. i \in 1..(j - 1) \/ j \in 1..(i - 1) \/ i = j
    OBVIOUS
  <2> QED
    BY <1>1, <1>2, <1>4, <2>1, <2>2
<1> QED
  BY <1>3, <1>4 DEF LexBefore

LEMMA LexTransitive ==
  ASSUME NEW f \in KeyType, NEW g \in KeyType, NEW h \in KeyType,
         LexBefore(f, g), LexBefore(g, h)
  PROVE  LexBefore(f, h)
<1>1. PICK i \in Nat \ {0} : f[i] < g[i] /\ \A k \in 1..(i - 1) : f[k] = g[k]
  BY DEF LexBefore
<1>2. PICK j \in Nat \ {0} : g[j] < h[j] /\ \A k \in 1..(j - 1) : g[k] = h[k]
  BY DEF LexBefore
<1>3. \A k \in Nat \ {0} : f[k] \in Nat /\ g[k] \in Nat /\ h[k] \in Nat
  BY DEF KeyType
<1>4. CASE i <= j
  <2>1. f[i] < h[i]
    <3>1. i = j \/ i \in 1..(j - 1)
      BY <1>4
    <3> QED
      BY <1>1, <1>2, <1>3, <3>1
  <2>2. \A k \in 1..(i - 1) : f[k] = h[k]
    <3>1. \A k \in 1..(i - 1) : k \in 1..(j - 1)
      BY <1>4
    <3> QED
      BY <1>1, <1>2, <3>1
  <2> QED
    BY <2>1, <2>2 DEF LexBefore
<1>5. CASE j < i
  <2>1. f[j] < h[j]
    <3>1. j \in 1..(i - 1)
      BY <1>5
    <3> QED
      BY <1>1, <1>2, <1>3, <3>1
  <2>2. \A k \in 1..(j - 1) : f[k] = h[k]
    <3>1. \A k \in 1..(j - 1) : k \in 1..(i - 1)
      BY <1>5
    <3> QED
      BY <1>1, <1>2, <3>1
  <2> QED
    BY <2>1, <2>2 DEF LexBefore
<1> QED
  BY <1>4, <1>5

(* The end of the shorter component, where it ends among characters: it goes *)
(* on with a zero. *)
LEMMA CharacterEndKeys ==
  ASSUME NEW a \in Component, NEW b \in Component, Unsigned(b), Len(a) < Len(b),
         \A i \in 1..Len(a) : Key(a)[i] = Key(b)[i],
         EndsInCharacter(a), ~b[Len(a)].digits
  PROVE  LET end == EndBefore(a, SubSeq(b, Len(a) + 1, Len(b)))
         IN /\ end < 0 => LexBefore(Key(a), Key(b))
            /\ end = 0 => Key(a) = Key(b)
            /\ end > 0 => LexBefore(Key(b), Key(a))
<1> DEFINE r == SubSeq(b, Len(a) + 1, Len(b))
           end == EndBefore(a, r)
<1>1. PICK n, m \in Nat : n = Len(a) /\ m = Len(b)
  BY KeyFacts
<1>2. /\ n > 0 /\ n < m /\ a # <<>> /\ ~Last(a).digits
      /\ Key(a) \in KeyType /\ Key(b) \in KeyType
      /\ Key(a)[n + 1] = 2 /\ \A i \in Nat : i > n + 1 => Key(a)[i] = 1
      /\ \A i \in 1..m : b[i] \in Token /\ Key(b)[i] = TokenKey(b[i])
      /\ \A i \in Nat : i > m + 1 => Key(b)[i] = 1
      /\ Key(b)[m + 1] = IF b[m].digits THEN 1 ELSE 2
  <2>1. n > 0 /\ n < m /\ a # <<>> /\ ~Last(a).digits
    BY <1>1, KeyFacts DEF EndsInCharacter
  <2>2. /\ Key(a) \in KeyType /\ Key(a)[n + 1] = 2 /\ \A i \in Nat : i > n + 1 => Key(a)[i] = 1
    BY <1>1, KeyFacts
  <2>3. /\ Key(b) \in KeyType /\ \A i \in 1..m : b[i] \in Token /\ Key(b)[i] = TokenKey(b[i])
        /\ \A i \in Nat : i > m + 1 => Key(b)[i] = 1
        /\ Key(b)[m + 1] = IF EndsInCharacter(b) THEN 2 ELSE 1
        /\ EndsInCharacter(b) <=> m > 0 /\ ~b[m].digits
    BY <1>1, KeyFacts
  <2> QED
    BY <2>1, <2>2, <2>3
<1>3. /\ r \in Component /\ Len(r) = m - n /\ r # <<>>
      /\ r[1] = b[n + 1] /\ (m > n + 1 => r[2] = b[n + 2])
  <2>1. n + 1 \in Int /\ m \in Int /\ \A i \in (n + 1)..m : b[i] \in Token
    BY <1>2
  <2>2. /\ r \in Component /\ Len(r) = m - n
        /\ \A i \in 1..(m - n) : r[i] = b[n + i]
    BY <1>1, <1>2, <2>1, SubSeqProperties DEF Component
  <2> HIDE DEF r
  <2>3. r # <<>>
    BY <1>2, <2>2
  <2>4. 1 \in 1..(m - n) /\ (m > n + 1 => 2 \in 1..(m - n))
    BY <1>2
  <2> QED
    BY <2>2, <2>3, <2>4
<1>4. \A i \in Nat \ {0} : Key(a)[i] \in Nat /\ Key(b)[i] \in Nat
  BY <1>2 DEF KeyType
<1>5. \A i \in 1..n : Key(a)[i] = Key(b)[i]
  BY <1>1
<1>6. /\ Key(b)[n + 1] = TokenKey(r[1]) /\ r[1] \in Token
      /\ m > n + 1 => Key(b)[n + 2] = TokenKey(r[2]) /\ r[2] \in Token
  <2>1. n + 1 \in 1..m /\ (m > n + 1 => n + 2 \in 1..m)
    BY <1>2
  <2> QED
    BY <1>2, <1>3, <2>1
<1>7. ASSUME Key(b)[n + 1] # 2
      PROVE  /\ Key(b)[n + 1] > 2 => LexBefore(Key(a), Key(b))
             /\ Key(b)[n + 1] < 2 => LexBefore(Key(b), Key(a))
  <2>1. n + 1 \in Nat \ {0} /\ \A k \in 1..((n + 1) - 1) : k \in 1..n
    BY <1>2
  <2> QED
    BY <1>2, <1>5, <2>1 DEF LexBefore
<1> HIDE DEF r
<1>8. end = LET number == Leading(r)
            IN IF number.value # 0 THEN Sign(number.value > 0, TRUE)
               ELSE AfterEnd(SubSeq(r, number.length + 1, Len(r)))
  BY <1>2, <1>3 DEF EndBefore
<1>9. CASE r[1].digits
  <2>1. Leading(r) = [value |-> Saturated(r[1].value), length |-> 1]
    <3>1. r[1] \notin {Plus, Hyphen}
      BY <1>9 DEF Plus, Hyphen
    <3> QED
      BY <1>9, <3>1 DEF Leading
  <2>2. PICK v \in Nat : v = Saturated(r[1].value)
    BY <1>6, VersionAssumption DEF Token, Saturated
  <2>3. Key(b)[n + 1] = 2 + v
    <3>1. r[1] # Tilde
      BY <1>9 DEF Tilde
    <3> QED
      BY <1>6, <1>9, <2>2, <3>1 DEF TokenKey
  <2>4. end = IF v # 0 THEN Sign(v > 0, TRUE) ELSE AfterEnd(SubSeq(r, 2, m - n))
    <3>1. Leading(r).value = v /\ Leading(r).length = 1
      BY <2>1, <2>2
    <3> QED
      BY <1>3, <1>8, <3>1
  <2> HIDE DEF end
  <2>5. CASE v # 0
    <3>1. end = -1
      BY <2>4, <2>5 DEF Sign
    <3> QED
      BY <1>7, <2>3, <2>5, <3>1 DEF end, r
  <2>6. CASE v = 0 /\ m = n + 1
    <3>1. end = 0
      <4>1. SubSeq(r, 2, m - n) = <<>>
        BY <2>6, SubSeqEmpty
      <4> QED
        BY <2>4, <2>6, <4>1 DEF AfterEnd
    <3>2. Key(b)[m + 1] = 1
      BY <1>2, <1>3, <1>9, <2>6
    <3>3. \A i \in Nat \ {0} : Key(a)[i] = Key(b)[i]
      <4> TAKE i \in Nat \ {0}
      <4>1. i \in 1..n \/ i = n + 1 \/ i = m + 1 \/ i > m + 1
        BY <1>2, <2>6
      <4> QED
        BY <1>2, <1>5, <2>3, <2>6, <3>2, <4>1
    <3>4. Key(a) = Key(b)
      BY <1>2, <3>3 DEF KeyType
    <3> QED
      BY <3>1, <3>4 DEF end, r
  <2>7. CASE v = 0 /\ m # n + 1
    <3> DEFINE t == SubSeq(r, 2, m - n)
    <3>1. m > n + 1
      BY <1>2, <2>7
    <3>2. t # <<>> /\ t[1] = r[2]
      <4>1. /\ 2 \in Int /\ m - n \in Int /\ \A i \in 2..(m - n) : r[i] \in Token
            /\ 2 <= m - n
        BY <1>2, <1>3, <3>1 DEF Component
      <4>2. Len(t) = (m - n) - 2 + 1 /\ t \in Seq(Token)
            /\ \A i \in 1..((m - n) - 2 + 1) : t[i] = r[2 + i - 1]
        BY <4>1, SubSeqProperties
      <4>3. 1 \in 1..((m - n) - 2 + 1)
        BY <3>1
      <4> HIDE DEF t
      <4>4. t[1] = r[2 + 1 - 1] /\ 2 + 1 - 1 = 2
        BY <4>2, <4>3
      <4> QED
        BY <3>1, <4>2, <4>4
    <3>3. end = IF r[2] = Tilde THEN 1 ELSE -1
      <4> HIDE DEF t
      <4>1. AfterEnd(t) = IF r[2] = Tilde THEN 1 ELSE -1
        BY <3>2 DEF AfterEnd
      <4> QED
        BY <2>4, <2>7, <4>1 DEF t
    <3>4. Key(b)[n + 2] = TokenKey(r[2]) /\ r[2] \in Token /\ Key(a)[n + 2] = 1
      BY <1>2, <1>6, <3>1
    <3>5. n + 2 \in Nat \ {0} /\ \A k \in 1..((n + 2) - 1) : Key(a)[k] = Key(b)[k]
      <4>1. \A k \in 1..((n + 2) - 1) : k \in 1..n \/ k = n + 1
        OBVIOUS
      <4> QED
        BY <1>2, <1>5, <2>3, <2>7, <4>1
    <3>6. (r[2] = Tilde => TokenKey(r[2]) = 0) /\ (r[2] # Tilde => TokenKey(r[2]) > 1)
      BY <3>4, TokenKeys
    <3>7. CASE r[2] = Tilde
      <4>1. Key(b)[n + 2] < Key(a)[n + 2]
        BY <3>4, <3>6, <3>7
      <4>2. LexBefore(Key(b), Key(a))
        BY <3>5, <4>1 DEF LexBefore
      <4>3. end = 1
        BY <3>3, <3>7
      <4> QED
        BY <4>2, <4>3 DEF end, r
    <3>8. CASE r[2] # Tilde
      <4>1. Key(a)[n + 2] < Key(b)[n + 2]
        BY <3>4, <3>6, <3>8
      <4>2. LexBefore(Key(a), Key(b))
        BY <3>5, <4>1 DEF LexBefore
      <4>3. end = -1
        BY <3>3, <3>8
      <4> QED
        BY <4>2, <4>3 DEF end, r
    <3> QED
      BY <3>7, <3>8
  <2> QED
    BY <2>5, <2>6, <2>7
<1>10. CASE ~r[1].digits
  <2>1. ~(r[1] \in {Plus, Hyphen} /\ Len(r) > 1 /\ r[2].digits)
    <3> SUFFICES ASSUME r[1] \in {Plus, Hyphen}, Len(r) > 1, r[2].digits PROVE FALSE
      OBVIOUS
    <3>1. m > n + 1 /\ n \in 1..(m - 2)
      BY <1>2, <1>3
    <3>2. b[n + 1] = r[1] /\ b[n + 2] = r[2]
      BY <1>3, <3>1
    <3>3. ~b[n].digits
      BY <1>1
    <3> QED
      BY <1>1, <3>1, <3>2, <3>3 DEF Unsigned
  <2>2. Leading(r) = [value |-> 0, length |-> 0]
    BY <1>10, <2>1 DEF Leading
  <2>3. end = AfterEnd(r)
    <3>1. SubSeq(r, 0 + 1, Len(r)) = r
      BY <1>3, SubSeqFull DEF Component
    <3>2. Leading(r).value = 0 /\ Leading(r).length = 0
      BY <2>2
    <3> QED
      BY <1>8, <3>1, <3>2
  <2>4. end = IF r[1] = Tilde THEN 1 ELSE -1
    BY <1>3, <2>3 DEF AfterEnd
  <2>5. (r[1] = Tilde => TokenKey(r[1]) = 0) /\ (r[1] # Tilde => TokenKey(r[1]) > 2)
    <3>1. r[1] # Tilde => TokenKey(r[1]) = MaxLong + 3 + r[1].value
      BY <1>10 DEF TokenKey
    <3>2. MaxLong \in Nat /\ r[1].value \in Nat
      BY <1>6, VersionAssumption DEF Token
    <3> QED
      BY <1>6, <3>1, <3>2, TokenKeys
  <2> HIDE DEF end
  <2>6. CASE r[1] = Tilde
    <3>1. LexBefore(Key(b), Key(a)) /\ end = 1
      BY <1>6, <1>7, <2>4, <2>5, <2>6
    <3> QED
      BY <3>1 DEF end, r
  <2>7. CASE r[1] # Tilde
    <3>1. TokenKey(r[1]) \in Nat
      BY <1>6, TokenKeys
    <3>2. LexBefore(Key(a), Key(b)) /\ end = -1
      BY <1>6, <1>7, <2>4, <2>5, <2>7, <3>1
    <3> QED
      BY <3>2 DEF end, r
  <2> QED
    BY <2>6, <2>7
<1> QED
  BY <1>9, <1>10

(* And where it does not, nothing but a tilde comes before it. *)
LEMMA NumberEndKeys ==
  ASSUME NEW a \in Component, NEW b \in Component, Len(a) < Len(b),
         \A i \in 1..Len(a) : Key(a)[i] = Key(b)[i], ~EndsInCharacter(a)
  PROVE  LET end == EndBefore(a, SubSeq(b, Len(a) + 1, Len(b)))
         IN /\ end < 0 => LexBefore(Key(a), Key(b))
            /\ end = 0 => Key(a) = Key(b)
            /\ end > 0 => LexBefore(Key(b), Key(a))
<1> DEFINE r == SubSeq(b, Len(a) + 1, Len(b))
           end == EndBefore(a, r)
<1>1. PICK n, m \in Nat : n = Len(a) /\ m = Len(b)
  BY KeyFacts
<1>2. /\ n < m /\ n + 1 \in 1..m /\ n + 1 \in Nat \ {0}
      /\ Key(a)[n + 1] = 1
      /\ b[n + 1] \in Token /\ Key(b)[n + 1] = TokenKey(b[n + 1])
  <2>1. n < m /\ n + 1 \in 1..m /\ n + 1 \in Nat \ {0}
    BY <1>1
  <2>2. Key(a)[n + 1] = 1
    BY <1>1, KeyFacts
  <2>3. b[n + 1] \in Token /\ Key(b)[n + 1] = TokenKey(b[n + 1])
    BY <1>1, <2>1, KeyFacts
  <2> QED
    BY <2>1, <2>2, <2>3
<1>3. r # <<>> /\ r[1] = b[n + 1]
  <2>1. \A i \in (n + 1)..m : b[i] \in Token
    BY <1>1, KeyFacts
  <2>2. /\ r \in Seq(Token) /\ Len(r) = m - (n + 1) + 1
        /\ \A i \in 1..(m - (n + 1) + 1) : r[i] = b[(n + 1) + i - 1]
    BY <1>1, <1>2, <2>1, SubSeqProperties
  <2>3. 1 \in 1..(m - (n + 1) + 1) /\ (n + 1) + 1 - 1 = n + 1
    BY <1>2
  <2> HIDE DEF r
  <2>4. r[1] = b[(n + 1) + 1 - 1]
    BY <2>2, <2>3
  <2> QED
    BY <1>2, <2>2, <2>3, <2>4
<1>4. end = IF r[1] = Tilde THEN 1 ELSE -1
  <2> HIDE DEF r
  <2>1. a = <<>> \/ r = <<>> \/ Last(a).digits
    BY DEF EndsInCharacter
  <2>2. end = AfterEnd(r)
    BY <2>1 DEF EndBefore
  <2> HIDE DEF end
  <2> QED
    BY <1>3, <2>2 DEF AfterEnd
<1>5. (r[1] = Tilde => TokenKey(r[1]) = 0) /\ (r[1] # Tilde => TokenKey(r[1]) > 1)
  BY <1>2, <1>3, TokenKeys
<1>6. \A k \in 1..((n + 1) - 1) : Key(a)[k] = Key(b)[k]
  BY <1>1
<1> HIDE DEF end, r
<1>7. CASE r[1] = Tilde
  <2>1. Key(b)[n + 1] < Key(a)[n + 1] /\ end = 1
    BY <1>2, <1>3, <1>4, <1>5, <1>7
  <2>2. LexBefore(Key(b), Key(a))
    BY <1>2, <1>6, <2>1 DEF LexBefore
  <2> QED
    BY <2>1, <2>2 DEF end, r
<1>8. CASE r[1] # Tilde
  <2>1. Key(a)[n + 1] < Key(b)[n + 1] /\ end = -1
    BY <1>2, <1>3, <1>4, <1>5, <1>8
  <2>2. LexBefore(Key(a), Key(b))
    BY <1>2, <1>6, <2>1 DEF LexBefore
  <2> QED
    BY <2>1, <2>2 DEF end, r
<1> QED
  BY <1>7, <1>8

(* Two components compare as their keys do. *)
LEMMA EndKeys ==
  ASSUME NEW a \in Component, NEW b \in Component, Unsigned(b), Len(a) <= Len(b),
         \A i \in 1..Len(a) : CompareToken(a[i], b[i]) = 0
  PROVE  /\ CompareEnds(a, b) < 0 => LexBefore(Key(a), Key(b))
         /\ CompareEnds(a, b) = 0 => Key(a) = Key(b)
         /\ CompareEnds(a, b) > 0 => LexBefore(Key(b), Key(a))
<1>1. PICK n, m \in Nat : n = Len(a) /\ m = Len(b)
  BY KeyFacts
<1>2. \A i \in 1..n : a[i] \in Token /\ b[i] \in Token /\ i \in 1..m
  BY <1>1, KeyFacts
<1>3. \A i \in 1..n : TokenKey(a[i]) = TokenKey(b[i]) /\ a[i].digits = b[i].digits
  BY <1>1, <1>2, TokenKeys
<1>4. \A i \in 1..n : Key(a)[i] = Key(b)[i]
  <2>1. \A i \in 1..n : Key(a)[i] = TokenKey(a[i])
    BY <1>1, KeyFacts
  <2>2. \A i \in 1..m : Key(b)[i] = TokenKey(b[i])
    BY <1>1, KeyFacts
  <2> QED
    BY <1>2, <1>3, <2>1, <2>2
<1>5. EndsInCharacter(a) => n > 0 /\ ~b[n].digits
  <2>1. EndsInCharacter(a) => n > 0 /\ ~a[n].digits
    BY <1>1, KeyFacts
  <2> QED
    BY <1>1, <1>3, <2>1
<1>6. CompareEnds(a, b) = EndBefore(a, SubSeq(b, Len(a) + 1, Len(b)))
  BY DEF CompareEnds
<1>7. CASE n < m
  BY <1>1, <1>4, <1>5, <1>6, <1>7, CharacterEndKeys, NumberEndKeys
<1>8. CASE n = m
  <2>1. CompareEnds(a, b) = 0
    <3>1. SubSeq(b, Len(a) + 1, Len(b)) = <<>>
      BY <1>1, <1>8, SubSeqEmpty
    <3>2. EndBefore(a, <<>>) = 0
      BY DEF EndBefore, AfterEnd
    <3> QED
      BY <1>6, <3>1, <3>2
  <2>2. Key(a) \in KeyType /\ Key(b) \in KeyType
    BY KeyFacts
  <2>3. Key(a)[n + 1] = Key(b)[n + 1]
    <3>1. /\ Key(a)[n + 1] = IF EndsInCharacter(a) THEN 2 ELSE 1
          /\ EndsInCharacter(a) <=> n > 0 /\ ~a[n].digits
      BY <1>1, KeyFacts
    <3>2. /\ Key(b)[n + 1] = IF EndsInCharacter(b) THEN 2 ELSE 1
          /\ EndsInCharacter(b) <=> n > 0 /\ ~b[n].digits
      BY <1>1, <1>8, KeyFacts
    <3>3. n > 0 => a[n].digits = b[n].digits
      BY <1>3
    <3> QED
      BY <3>1, <3>2, <3>3
  <2>4. \A i \in Nat : i > n + 1 => Key(a)[i] = 1 /\ Key(b)[i] = 1
    BY <1>1, <1>8, KeyFacts
  <2>5. \A i \in Nat \ {0} : Key(a)[i] = Key(b)[i]
    <3> TAKE i \in Nat \ {0}
    <3>1. i \in 1..n \/ i = n + 1 \/ i > n + 1
      OBVIOUS
    <3> QED
      BY <1>4, <2>3, <2>4, <3>1
  <2>6. Key(a) = Key(b)
    BY <2>2, <2>5 DEF KeyType
  <2> QED
    BY <2>1, <2>6
<1> QED
  BY <1>1, <1>7, <1>8

LEMMA ComponentKeys ==
  ASSUME NEW a \in Component, NEW b \in Component, Unsigned(a), Unsigned(b)
  PROVE  /\ CompareComponent(a, b) < 0 <=> LexBefore(Key(a), Key(b))
         /\ CompareComponent(a, b) = 0 <=> Key(a) = Key(b)
<1> DEFINE differ == {i \in DOMAIN a \cap DOMAIN b : CompareToken(a[i], b[i]) # 0}
           i == CHOOSE j \in differ : \A k \in differ : j <= k
<1>1. /\ Len(a) \in Nat /\ DOMAIN a = 1..Len(a)
      /\ Len(b) \in Nat /\ DOMAIN b = 1..Len(b)
      /\ Key(a) \in KeyType /\ Key(b) \in KeyType
  BY KeyFacts DEF Component
<1>2. \A k \in DOMAIN a \cap DOMAIN b :
        /\ a[k] \in Token /\ b[k] \in Token /\ k \in Nat \ {0}
        /\ Key(a)[k] = TokenKey(a[k]) /\ Key(b)[k] = TokenKey(b[k])
  BY <1>1, KeyFacts
<1>3. /\ CompareComponent(a, b) < 0 => LexBefore(Key(a), Key(b))
      /\ CompareComponent(a, b) = 0 => Key(a) = Key(b)
      /\ CompareComponent(a, b) > 0 => LexBefore(Key(b), Key(a))
  <2>1. CASE differ = {}
    <3>1. CompareComponent(a, b) = CompareEnds(a, b)
      BY <2>1 DEF CompareComponent
    <3>2. \A k \in DOMAIN a \cap DOMAIN b : CompareToken(a[k], b[k]) = 0
      BY <2>1
    <3>3. CASE Len(a) <= Len(b)
      <4>1. \A k \in 1..Len(a) : CompareToken(a[k], b[k]) = 0
        BY <1>1, <3>2, <3>3
      <4> QED
        BY <3>1, <3>3, <4>1, EndKeys
    <3>4. CASE Len(b) < Len(a)
      <4>1. \A k \in 1..Len(b) : CompareToken(b[k], a[k]) = 0
        <5>1. \A k \in 1..Len(b) : k \in DOMAIN a \cap DOMAIN b
          BY <1>1, <3>4
        <5>2. \A k \in 1..Len(b) : CompareToken(b[k], a[k]) = -CompareToken(a[k], b[k])
          BY <1>2, <5>1, TokenAntisymmetric
        <5> QED
          BY <3>2, <5>1, <5>2
      <4>2. CompareEnds(b, a) = -CompareEnds(a, b) /\ CompareEnds(a, b) \in {-1, 0, 1}
        BY EndsAntisymmetric
      <4>3. Len(b) <= Len(a)
        BY <1>1, <3>4
      <4>4. /\ CompareEnds(b, a) < 0 => LexBefore(Key(b), Key(a))
            /\ CompareEnds(b, a) = 0 => Key(b) = Key(a)
            /\ CompareEnds(b, a) > 0 => LexBefore(Key(a), Key(b))
        BY <4>1, <4>3, EndKeys
      <4> QED
        BY <3>1, <4>2, <4>4
    <3> QED
      BY <1>1, <3>3, <3>4
  <2>2. CASE differ # {}
    <3>1. CompareComponent(a, b) = CompareToken(a[i], b[i])
      BY <2>2 DEF CompareComponent
    <3>2. i \in differ /\ \A k \in differ : i <= k
      <4>1. differ \in SUBSET Nat
        BY <1>1
      <4> HIDE DEF differ
      <4> QED
        BY <2>2, <4>1, Least
    <3>3. i \in DOMAIN a \cap DOMAIN b /\ CompareToken(a[i], b[i]) # 0
      BY <3>2
    <3>4. \A k \in 1..(i - 1) : k \in DOMAIN a \cap DOMAIN b /\ k \notin differ
      <4> HIDE DEF i, differ
      <4> QED
        BY <1>1, <3>2, <3>3
    <3>5. \A k \in 1..(i - 1) : Key(a)[k] = Key(b)[k]
      <4>1. \A k \in 1..(i - 1) : CompareToken(a[k], b[k]) = 0
        BY <3>4
      <4> HIDE DEF i, differ
      <4> QED
        BY <1>2, <3>4, <4>1, TokenKeys
    <3> HIDE DEF i, differ
    <3>6. /\ a[i] \in Token /\ b[i] \in Token /\ i \in Nat \ {0}
          /\ Key(a)[i] = TokenKey(a[i]) /\ Key(b)[i] = TokenKey(b[i])
      BY <1>2, <3>3
    <3>7. CompareToken(a[i], b[i]) < 0 => LexBefore(Key(a), Key(b))
      BY <3>5, <3>6, TokenKeys DEF LexBefore
    <3>8. CompareToken(a[i], b[i]) > 0 => LexBefore(Key(b), Key(a))
      BY <3>5, <3>6, TokenKeys DEF LexBefore
    <3> QED
      BY <3>1, <3>3, <3>7, <3>8
  <2> QED
    BY <2>1, <2>2
<1>4. CompareComponent(a, b) \in {-1, 0, 1}
  BY ComponentAntisymmetric
<1>5. LexBefore(Key(a), Key(b)) => Key(a) # Key(b) /\ ~LexBefore(Key(b), Key(a))
  BY <1>1, LexAsymmetric
<1>6. LexBefore(Key(b), Key(a)) => Key(a) # Key(b)
  BY <1>1, LexAsymmetric
<1>7. CompareComponent(a, b) < 0 \/ CompareComponent(a, b) = 0 \/ CompareComponent(a, b) > 0
  BY <1>4
<1>8. CompareComponent(a, b) < 0 => CompareComponent(a, b) # 0
  BY <1>4
<1> QED
  BY <1>3, <1>5, <1>6, <1>7, <1>8, Zenon

LEMMA ComponentTransitive ==
  ASSUME NEW a \in Component, NEW b \in Component, NEW c \in Component,
         Unsigned(a), Unsigned(b), Unsigned(c),
         CompareComponent(a, b) <= 0, CompareComponent(b, c) <= 0
  PROVE  /\ CompareComponent(a, c) <= 0
         /\ CompareComponent(a, c) = 0 =>
              CompareComponent(a, b) = 0 /\ CompareComponent(b, c) = 0
<1>1. /\ CompareComponent(a, b) \in {-1, 0, 1}
      /\ CompareComponent(b, c) \in {-1, 0, 1}
      /\ CompareComponent(a, c) \in {-1, 0, 1}
  BY ComponentAntisymmetric
<1>2. Key(a) \in KeyType /\ Key(b) \in KeyType /\ Key(c) \in KeyType
  BY KeyFacts
<1>3. LexBefore(Key(a), Key(b)) \/ Key(a) = Key(b)
  <2>1. CompareComponent(a, b) < 0 \/ CompareComponent(a, b) = 0
    BY <1>1
  <2> QED
    BY <2>1, ComponentKeys
<1>4. LexBefore(Key(b), Key(c)) \/ Key(b) = Key(c)
  <2>1. CompareComponent(b, c) < 0 \/ CompareComponent(b, c) = 0
    BY <1>1
  <2> QED
    BY <2>1, ComponentKeys
<1>5. CASE Key(a) = Key(b) /\ Key(b) = Key(c)
  <2>1. /\ CompareComponent(a, b) = 0 /\ CompareComponent(b, c) = 0
        /\ CompareComponent(a, c) = 0
    BY <1>5, ComponentKeys
  <2> QED
    BY <2>1
<1>6. CASE LexBefore(Key(a), Key(b)) \/ LexBefore(Key(b), Key(c))
  <2>1. LexBefore(Key(a), Key(c))
    BY <1>2, <1>3, <1>4, <1>6, LexTransitive
  <2>2. CompareComponent(a, c) < 0
    BY <2>1, ComponentKeys
  <2> QED
    BY <1>1, <2>2
<1> QED
  BY <1>3, <1>4, <1>5, <1>6

UnsignedVersion(v) == Unsigned(v.upstream) /\ Unsigned(v.revision)

LEMMA VersionTransitive ==
  ASSUME NEW u \in VersionRecord, NEW v \in VersionRecord, NEW w \in VersionRecord,
         UnsignedVersion(u), UnsignedVersion(v), UnsignedVersion(w),
         CompareVersion(u, v) < 0, CompareVersion(v, w) <= 0
  PROVE  CompareVersion(u, w) < 0
<1>1. u.epoch \in Int /\ v.epoch \in Int /\ w.epoch \in Int
  BY DEF VersionRecord
<1>2. PICK u1, v1, w1, u2, v2, w2 \in Component :
        /\ u1 = u.upstream /\ v1 = v.upstream /\ w1 = w.upstream
        /\ u2 = u.revision /\ v2 = v.revision /\ w2 = w.revision
  BY DEF VersionRecord
<1>3. /\ Unsigned(u1) /\ Unsigned(v1) /\ Unsigned(w1)
      /\ Unsigned(u2) /\ Unsigned(v2) /\ Unsigned(w2)
  BY <1>2 DEF UnsignedVersion
<1> DEFINE C(a, b) == CompareComponent(a, b)
<1>4. /\ C(u1, v1) \in {-1, 0, 1} /\ C(v1, w1) \in {-1, 0, 1} /\ C(u1, w1) \in {-1, 0, 1}
      /\ C(u2, v2) \in {-1, 0, 1} /\ C(v2, w2) \in {-1, 0, 1} /\ C(u2, w2) \in {-1, 0, 1}
  BY ComponentAntisymmetric
<1>5. /\ C(u1, v1) <= 0 /\ C(v1, w1) <= 0 =>
           C(u1, w1) <= 0 /\ (C(u1, w1) = 0 => C(u1, v1) = 0 /\ C(v1, w1) = 0)
      /\ C(u2, v2) <= 0 /\ C(v2, w2) <= 0 =>
           C(u2, w2) <= 0 /\ (C(u2, w2) = 0 => C(u2, v2) = 0 /\ C(v2, w2) = 0)
  BY <1>3, ComponentTransitive
(* two equal components compare alike with any third *)
<1>6. C(u1, v1) = 0 /\ C(v1, w1) = 0 => C(u1, w1) = 0
  BY <1>2, <1>3, ComponentKeys
<1> HIDE DEF C
<1>7. /\ CompareVersion(u, v) = IF u.epoch # v.epoch THEN Sign(u.epoch < v.epoch, TRUE)
                                ELSE IF C(u1, v1) # 0 THEN C(u1, v1) ELSE C(u2, v2)
      /\ CompareVersion(v, w) = IF v.epoch # w.epoch THEN Sign(v.epoch < w.epoch, TRUE)
                                ELSE IF C(v1, w1) # 0 THEN C(v1, w1) ELSE C(v2, w2)
      /\ CompareVersion(u, w) = IF u.epoch # w.epoch THEN Sign(u.epoch < w.epoch, TRUE)
                                ELSE IF C(u1, w1) # 0 THEN C(u1, w1) ELSE C(u2, w2)
  BY <1>2, Zenon DEF CompareVersion, C
<1>8. u.epoch <= v.epoch /\ v.epoch <= w.epoch
  BY <1>1, <1>7 DEF Sign
<1>9. CASE u.epoch # v.epoch \/ v.epoch # w.epoch
  <2>1. u.epoch < w.epoch
    BY <1>1, <1>8, <1>9
  <2> QED
    BY <1>1, <1>7, <2>1 DEF Sign
<1>10. CASE u.epoch = v.epoch /\ v.epoch = w.epoch
  <2>1. /\ C(u1, v1) <= 0 /\ (C(u1, v1) = 0 => C(u2, v2) < 0)
        /\ C(v1, w1) <= 0 /\ (C(v1, w1) = 0 => C(v2, w2) <= 0)
    BY <1>4, <1>7, <1>10
  <2>2. C(u1, w1) <= 0 /\ (C(u1, w1) = 0 => C(u2, w2) < 0)
    BY <1>4, <1>5, <2>1
  <2> QED
    BY <1>4, <1>7, <1>10, <2>2
<1> QED
  BY <1>9, <1>10

(* No chain of updates leads down: what is newer than a version that is not  *)
(* older than another is newer than that one too, for all texts of versions  *)
(* in which no sign stands between a character and a number.                 *)
(* AutoVersion.cpp:85-130.                                                   *)
THEOREM CompareIsTransitive ==
  ASSUME NEW text1 \in Component, NEW text2 \in Component, NEW text3 \in Component,
         \A text \in {text1, text2, text3} : UnsignedVersion(Parsed(text)),
         Compare(text1, text2) < 0, Compare(text2, text3) <= 0
  PROVE  Compare(text1, text3) < 0
BY ParsedType, VersionTransitive DEF Compare
=============================================================================
