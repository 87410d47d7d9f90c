-------------------------------- MODULE Names --------------------------------
(***************************************************************************)
(* How the matchers tell whether two strings name one team, and which team *)
(* of one venue is which of the other (matching/structured.py).            *)
(*                                                                         *)
(* A name is the set of its words and the set of the single letters that   *)
(* abbreviate a word of it: "New York Y" is {new, york} with {y}.  Folding *)
(* accents, "St." and "A&M" has happened.  Scores are in percent.          *)
(***************************************************************************)
EXTENDS Integers

CONSTANTS
  Word, Letter,
  First,          \* the first letter of a word
  Discriminator   \* words that tell two schools apart: state, tech, northern...

ASSUME NamesAssumption == First \in [Word -> Letter] /\ Discriminator \subseteq Word

Name == [words : SUBSET Word, initials : SUBSET Letter]

Exact   == 100
Subset  == 85
MinSide == 60
MinPair == 5000   \* of the product of two scores

-----------------------------------------------------------------------------

\* A letter has to begin a word that the other side does not share, if there is one.
InitialsAgree(a, b) ==
  \A x \in {<<a, b>>, <<b, a>>} : \A ch \in x[1].initials :
     \/ x[2].words \subseteq x[1].words
     \/ \E w \in x[2].words \ x[1].words : First[w] = ch

\* One name for two levels of detail, unless a discriminator is what differs.
SubsetOf(a, b) ==
  /\ a.words \subseteq b.words \/ b.words \subseteq a.words
  /\ ((a.words \ b.words) \cup (b.words \ a.words)) \cap Discriminator = {}

CompetitorScore(a, b) ==
  IF a.words = {} \/ b.words = {} \/ ~InitialsAgree(a, b) THEN 0
  ELSE IF a.words = b.words THEN Exact
  ELSE IF SubsetOf(a, b) THEN Subset ELSE 0

Refused == <<>>

\* Which Kalshi competitor is the j-th of Polymarket's, from the score s[i][j] of
\* Kalshi's i-th with it.  Equal assignments are refused.
Align(s) ==
  LET straight == s[1][1] * s[2][2]
      swapped  == s[1][2] * s[2][1]
      best     == IF straight >= swapped THEN <<1, 2>> ELSE <<2, 1>>
  IN  IF \/ straight = swapped
         \/ s[best[1]][1] * s[best[2]][2] < MinPair
         \/ s[best[1]][1] < MinSide \/ s[best[2]][2] < MinSide
      THEN Refused ELSE best

\* The scores of two pairs of names.
Scores(k, p) == [i \in {1, 2} |-> [j \in {1, 2} |-> CompetitorScore(k[i], p[j])]]

\* A full name spells no word as a letter.
Full(f) == f \in Name /\ f.initials = {}

\* A way of writing a full name: some of its words, the others dropped or cut to
\* their first letter.
ShortFor(n, full) ==
  /\ n \in Name /\ full \in Name
  /\ n.words # {} /\ n.words \subseteq full.words
  /\ \A ch \in n.initials : \E w \in full.words \ n.words : First[w] = ch
=============================================================================
