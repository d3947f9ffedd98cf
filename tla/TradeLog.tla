------------------------------ MODULE TradeLog ------------------------------
(***************************************************************************)
(* What step12_ws_feed promises those who read it, without its database,   *)
(* its queue and its tasks: a log of trades that only grows at its end,    *)
(* with gaps, in the order in which the exchange sent the trades; trades   *)
(* published in the order of the log, none before it is in the log and     *)
(* none twice; and answers about the log that are true at one moment       *)
(* between the question and the answer.                                    *)
(***************************************************************************)
EXTENDS Integers, Sequences, FiniteSets

CONSTANTS
  Readers,       \* HTTP requests
  MaxBatchSize   \* the largest page

VARIABLES
  total,         \* the indices that were handed out are 1 .. total
  log,           \* from index to the ordinal of the trade among those sent
  published,     \* the indices published, in order
  asked,         \* asked[r]: "no", "waits" or "answered"
  question,      \* question[r]: <<>>, or what r asks for
  answer         \* answer[r]: <<>>, or the answer

logVars == <<total, log, published, asked, question, answer>>

-----------------------------------------------------------------------------
(* The trades from `start` on, up to the first gap and to `limit` of them. *)
PageOf(start, limit) ==
  LET Full(k) == \A i \in start .. start + k - 1 : i \in DOMAIN log
      size == CHOOSE k \in 0 .. limit :
                Full(k) /\ (k < limit => start + k \notin DOMAIN log)
  IN [i \in 1 .. size |-> log[start + i - 1]]

Truth(q) ==
  CASE q.do = "Count" -> total
    [] q.do = "Range" -> PageOf(q.start, q.limit)

Init ==
  /\ total \in Nat
  /\ log = <<>> /\ published = <<>>
  /\ asked = [r \in Readers |-> "no"]
  /\ question = [r \in Readers |-> <<>>]
  /\ answer = [r \in Readers |-> <<>>]

(* An index is handed out, whether or not a trade will ever be stored there. *)
Reserve ==
  /\ total' = total + 1
  /\ UNCHANGED <<log, published, asked, question, answer>>

(* Trades are added after all others, in the order in which they were sent. *)
Record ==
  /\ DOMAIN log \subseteq DOMAIN log' /\ DOMAIN log' \subseteq 1 .. total
  /\ \A i \in DOMAIN log : log'[i] = log[i]
  /\ \A i, j \in DOMAIN log' : i < j => log'[i] < log'[j]
  /\ \A i \in DOMAIN log, j \in DOMAIN log' \ DOMAIN log : i < j
  /\ UNCHANGED <<total, published, asked, question, answer>>

Publish ==
  /\ \E i \in DOMAIN log :
       /\ \A k \in DOMAIN published : published[k] < i
       /\ published' = Append(published, i)
  /\ UNCHANGED <<total, log, asked, question, answer>>

Ask(r) ==
  /\ asked[r] = "no"
  /\ asked' = [asked EXCEPT ![r] = "waits"]
  /\ question'[r].do = "Range" => question'[r].limit <= MaxBatchSize
  /\ \A other \in Readers \ {r} : question'[other] = question[other]
  /\ UNCHANGED <<total, log, published, answer>>

(* The answer is the truth, or that something failed.                      *)
Answer(r) ==
  /\ asked[r] = "waits"
  /\ asked' = [asked EXCEPT ![r] = "answered"]
  /\ \/ answer' = [answer EXCEPT ![r] = [ok |-> TRUE, value |-> Truth(question[r])]]
     \/ answer' = [answer EXCEPT ![r] = [ok |-> FALSE]]
  /\ UNCHANGED <<total, log, published, question>>

(* Those in `some` have their answer, or give up.                          *)
Leave ==
  /\ \E some \in SUBSET Readers :
       /\ asked' = [r \in Readers |-> IF r \in some THEN "no" ELSE asked[r]]
       /\ question' = [r \in Readers |-> IF r \in some THEN <<>> ELSE question[r]]
       /\ answer' = [r \in Readers |-> IF r \in some THEN <<>> ELSE answer[r]]
  /\ UNCHANGED <<total, log, published>>

Next ==
  \/ Reserve \/ Record \/ Publish \/ Leave
  \/ \E r \in Readers : Ask(r) \/ Answer(r)

Spec == Init /\ [][Next]_logVars
=============================================================================
