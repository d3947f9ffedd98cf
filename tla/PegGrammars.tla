---------------------------- MODULE PegGrammars -----------------------------
(***************************************************************************)
(* The two pest grammars: names (step04_pest) and tokens (step05_test).    *)
(*                                                                         *)
(* A text is a sequence of kinds of characters.  An expression is what it  *)
(* matches in the text at hand: a function from a position to the position *)
(* after the match, 0 if there is none.  As in pest an alternative that    *)
(* has matched is not tried again, and a repetition takes what it can and  *)
(* gives nothing back.                                                     *)
(***************************************************************************)
EXTENDS Naturals, Sequences, FiniteSetsExt, Pieces

CONSTANT MaxLength  \* bound: the longest text

ASSUME MaxLengthAssumption == MaxLength \in Nat

Kinds == {"lo", "up", "dg", "underscore", "comma", "space", "sign"}

VARIABLE text
grammarVars == <<text>>

GrammarInit == text = <<>>

(* The texts are reached character by character.                           *)
Type ==
  /\ Len(text) < MaxLength
  /\ \E kind \in Kinds : text' = Append(text, kind)

GrammarSpec == GrammarInit /\ [][Type]_grammarVars

-----------------------------------------------------------------------------
(* pest: a character, `~`, `|`, `*`, `+`, SOI and EOI.                     *)
Positions == 1 .. Len(text) + 1

Char(kinds) == [i \in Positions |->
                  IF i <= Len(text) /\ text[i] \in kinds THEN i + 1 ELSE 0]

Then(p, q) == [i \in Positions |-> IF p[i] = 0 THEN 0 ELSE q[p[i]]]

OrElse(p, q) == [i \in Positions |-> IF p[i] # 0 THEN p[i] ELSE q[i]]

Many(p) ==
  LET rest[i \in Positions] == IF p[i] = 0 THEN i ELSE rest[p[i]] IN rest

Some(p) == Then(p, Many(p))

SOI == [i \in Positions |-> IF i = 1 THEN i ELSE 0]
EOI == [i \in Positions |-> IF i = Len(text) + 1 THEN i ELSE 0]

-----------------------------------------------------------------------------
(* step04_pest/code/src/grammar.pest                                       *)
lo   == Char({"lo"})
up   == Char({"up"})
dg   == Char({"dg"})
bar  == Char({"underscore"})
lodg == OrElse(lo, dg)
updg == OrElse(up, dg)

(* Mutant: a word of a camel name needs no lower case letter.              *)
camel_case_any == Some(Then(up, Many(lodg)))

camel_case  == Some(Then(up, Then(Many(dg), Then(Some(lo), Many(lodg)))))
camel_back  == Then(lo, Then(Many(lodg), camel_case))
lower_snake == Then(lo, Then(Many(lodg), Many(Then(bar, Some(lodg)))))
upper_snake == Then(up, Then(Many(updg), Many(Then(bar, Some(updg)))))

Rules == <<camel_case, camel_back, lower_snake, upper_snake>>

single_term ==
  OrElse(camel_case, OrElse(camel_back, OrElse(lower_snake, upper_snake)))
term  == Then(SOI, Then(single_term, EOI))
terms == Then(SOI, Then(single_term,
           Then(Many(Then(Char({"comma"}), single_term)), EOI)))

-----------------------------------------------------------------------------
(* step05_test/code/src/grammar.pest                                       *)
alpha      == Char({"lo", "up"})
identifier == Then(alpha, Many(OrElse(alpha, dg)))
number     == Some(dg)
op         == Char({"sign"})
token      == OrElse(identifier, OrElse(number, op))

toplevel   == Then(token, Many(Then(Some(Char({"space"})), token)))

-----------------------------------------------------------------------------
(* What the rules are meant to say, without a grammar.                     *)
Only(t, kinds) == \A i \in 1 .. Len(t) : t[i] \in kinds

(* Every capital is followed by a small letter, digits at most between.    *)
CamelWords(t) ==
  \A i \in 1 .. Len(t) : t[i] = "up" =>
    \E j \in i + 1 .. Len(t) :
      t[j] = "lo" /\ \A k \in i + 1 .. j - 1 : t[k] = "dg"

Snake(t, letter) ==
  /\ t # <<>> /\ t[1] = letter /\ t[Len(t)] # "underscore"
  /\ Only(t, {letter, "dg", "underscore"})
  /\ \A i \in 1 .. Len(t) - 1 :
       ~(t[i] = "underscore" /\ t[i + 1] = "underscore")

Camel(t, first) ==
  /\ t # <<>> /\ t[1] = first
  /\ Only(t, {"lo", "up", "dg"})
  /\ \E i \in 1 .. Len(t) : t[i] = "up"
  /\ CamelWords(t)

NameClasses(t) ==
  <<Camel(t, "up"), Camel(t, "lo"), Snake(t, "lo"), Snake(t, "up")>>

IsName(t) == \E k \in 1 .. 4 : NameClasses(t)[k]

(* Whole names are parsed by the one rule that describes them, though the  *)
(* first alternative that matches a beginning is never left for another,   *)
(* and a list is parsed exactly if all its pieces are names                *)
(* (step04_pest/code/src/main.rs:24-71).                                   *)
NamesParsed ==
  /\ \A k \in 1 .. 4 :
       (term[1] # 0 /\ Rules[k][1] = term[1]
          /\ \A j \in 1 .. k - 1 : Rules[j][1] = 0)
         <=> NameClasses(text)[k]
  /\ (terms[1] # 0) <=> \A piece \in PiecesOf(text, "comma") : IsName(piece)

(* A token, or several with spaces between.                                *)
Words(t) ==
  /\ t # <<>> /\ t[1] # "space" /\ t[Len(t)] # "space"
  /\ Only(t, {"lo", "up", "dg", "sign", "space"})
  /\ \A i \in 1 .. Len(t) - 1 :
       \/ t[i] = "space" \/ t[i + 1] = "space"
       \/ t[i] = "dg" /\ t[i + 1] = "dg"
       \/ /\ t[i] \in {"lo", "up", "dg"} /\ t[i + 1] \in {"lo", "up", "dg"}
          /\ \E j \in 1 .. i : /\ t[j] \in {"lo", "up"}
                               /\ \A k \in j .. i : t[k] \in {"lo", "up", "dg"}

(* `toplevel` has no EOI: it takes the longest beginning that is tokens    *)
(* with spaces between and ignores what follows                            *)
(* (step05_test/code/src/main.rs:38-49).                                   *)
LongestBeginningParsed ==
  toplevel[1] = Max({0} \cup {n + 1 : n \in {m \in 1 .. Len(text) :
                                               Words(SubSeq(text, 1, m))}})

(* Both grammars say what they are meant to say.                           *)
GrammarsAgree == NamesParsed /\ LongestBeginningParsed
=============================================================================
