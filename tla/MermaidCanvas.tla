--------------------------- MODULE MermaidCanvas ----------------------------
(***************************************************************************)
(* The canvas of step03_mermaid.  A participant writes its lines when it   *)
(* is made, when it draws an arrow, and when it is dropped.  The borrow    *)
(* checker lets an arrow be drawn between participants that live, and lets *)
(* them be dropped in any order.                                           *)
(***************************************************************************)
EXTENDS Naturals, Sequences

CONSTANTS MaxParticipants, MaxArrows  \* bounds of the diagrams

ASSUME CanvasAssumption == MaxParticipants \in Nat /\ MaxArrows \in Nat

VARIABLES
  last,      \* the field `i`: the number of the last participant made
  living,    \* the participants that were made and not dropped
  contents,  \* the lines of the diagram
  arrows     \* bound: how many arrows were drawn

canvasVars == <<last, living, contents, arrows>>

Create(i)   == [do |-> "create", of |-> i]
Destroy(i)  == [do |-> "destroy", of |-> i]
Arrow(i, j) == [do |-> "arrow", from |-> i, to |-> j]

CanvasInit ==
  /\ last = 0
  /\ living = {}
  /\ contents = <<Create(0)>>
  /\ arrows = 0

(* Mutant: the number is read before it is counted up.                     *)
new_participant_same ==
  /\ last < MaxParticipants
  /\ last' = last + 1
  /\ living' = living \cup {last}
  /\ contents' = contents \o <<Create(last), Arrow(0, last)>>
  /\ UNCHANGED arrows

new_participant ==
  /\ last < MaxParticipants
  /\ last' = last + 1
  /\ living' = living \cup {last + 1}
  /\ contents' = contents \o <<Create(last + 1), Arrow(0, last + 1)>>
  /\ UNCHANGED arrows

add_arrow_to(i, j) ==
  /\ {i, j} \subseteq living
  /\ arrows < MaxArrows
  /\ arrows' = arrows + 1
  /\ contents' = Append(contents, Arrow(i, j))
  /\ UNCHANGED <<last, living>>

drop(i) ==
  /\ i \in living
  /\ living' = living \ {i}
  /\ contents' = contents \o <<Destroy(i), Arrow(i, 0)>>
  /\ UNCHANGED <<last, arrows>>

CanvasNext ==
  \/ new_participant
  \/ \E i, j \in 1 .. MaxParticipants : add_arrow_to(i, j)
  \/ \E i \in 1 .. MaxParticipants : drop(i)

CanvasSpec == CanvasInit /\ [][CanvasNext]_canvasVars

-----------------------------------------------------------------------------
(* How Mermaid reads a diagram: a participant is there from its creation   *)
(* on, and the message right after its destruction is its last.            *)
Blank == [there |-> {}, ever |-> {}, leaving |-> {}, ok |-> TRUE]

Read(line, page) ==
  CASE line.do = "create" ->
         [page EXCEPT !.there = @ \cup {line.of}, !.ever = @ \cup {line.of},
                      !.ok = @ /\ line.of \notin page.ever
                               /\ page.leaving = {}]
    [] line.do = "destroy" ->
         [page EXCEPT !.leaving = {line.of},
                      !.ok = @ /\ line.of \in page.there /\ page.leaving = {}]
    [] line.do = "arrow" ->
         [page EXCEPT !.there = @ \ page.leaving, !.leaving = {},
                      !.ok = @ /\ {line.from, line.to} \subseteq page.there
                               /\ page.leaving \subseteq {line.from, line.to}]

(* The page after the first k lines.                                       *)
PageAfter[k \in 0 .. Len(contents)] ==
  IF k = 0 THEN Blank ELSE Read(contents[k], PageAfter[k - 1])

(* At any time the diagram can be read, and shows just the participants    *)
(* that live: each is created once, destroyed once, and not used before or *)
(* after (main.rs:26-56).                                                  *)
DiagramReadable ==
  LET page == PageAfter[Len(contents)]
  IN page.ok /\ page.there = living \cup {0}
=============================================================================
