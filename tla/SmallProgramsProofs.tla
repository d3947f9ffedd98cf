------------------------- MODULE SmallProgramsProofs ------------------------
(***************************************************************************)
(* Proofs about the programs that share nothing with others: the Redis     *)
(* subscriber (step06), the route /ack (step11), the Mermaid canvas        *)
(* (step03), the choice between HTML and raw pages (lib) and the two       *)
(* grammars (step04, step05).                                              *)
(***************************************************************************)
EXTENDS RedisSub, AckRoute, MermaidCanvas, AcceptHeader, PegGrammars,
        DataProofs

-----------------------------------------------------------------------------
(* Everything that may be pushed to the subscriber.                        *)
Pushable == OtherMessages \cup {"own"}

(* What the subscription has got: it was printed, or is still to be read.  *)
Passed == heard \o stream

PassedPublished ==
  \A k \in DOMAIN Passed :
    Passed[k] \in others \/ (Passed[k] = "own" /\ own = "executed")

OwnPassed ==
  own = "executed" /\ linked /\ SubRunning => "own" \in Members(Passed)

(* The command goes out once, from a task that is spawned last.            *)
SubTypes ==
  /\ step \in 1 .. 5
  /\ stream \in Seq(Pushable) /\ heard \in Seq(Pushable)
  /\ others \subseteq OtherMessages
  /\ step > 2 => subscribed
  /\ publisher # "none" => step = 5
  /\ own # "none" => publisher \notin {"none", "sleep"}

SubInv == SubTypes /\ PassedPublished /\ Distinct(Passed) /\ OwnPassed

LEMMA StepsAre ==
  /\ Steps[1] = "connect" /\ Steps[2] = "subscribe" /\ Steps[3] = "open"
  /\ Steps[4] = "spawn" /\ Steps[5] = "listen"
BY DEF Steps

LEMMA SubTypesKept ==
  ASSUME SubTypes, [SubNext]_subVars
  PROVE  SubTypes'
<1>1. CASE Setup
  <2>1. CASE Connect
    <3>1. step \in {1, 3} BY <2>1, StepsAre DEF SubTypes, Connect, At
    <3> QED BY <2>1, <3>1 DEF SubTypes, Connect, tasks, redis
  <2>2. CASE Subscribe
    <3>1. step = 2 BY <2>2, StepsAre DEF SubTypes, Subscribe, At
    <3> QED BY <2>2, <3>1 DEF SubTypes, Subscribe, tasks
  <2>3. CASE SetupFails BY <2>3 DEF SubTypes, SetupFails, tasks, redis
  <2>4. CASE Spawn
    <3>1. step = 4 BY <2>4, StepsAre DEF SubTypes, Spawn, At
    <3> QED BY <2>4, <3>1 DEF SubTypes, Spawn, redis
  <2> QED BY <1>1, <2>1, <2>2, <2>3, <2>4 DEF Setup
<1>2. CASE Listen
  <2>1. /\ stream \in Seq(Pushable) /\ stream # <<>> /\ heard \in Seq(Pushable)
    BY <1>2 DEF SubTypes, Listen
  <2>2. Tail(stream) \in Seq(Pushable) /\ Head(stream) \in Pushable BY <2>1
  <2>3. Append(heard, Head(stream)) \in Seq(Pushable) BY <2>1, <2>2
  <2> QED BY <1>2, <2>2, <2>3 DEF SubTypes, Listen, tasks
<1>3. CASE StreamEnds \/ TimesOut \/ TimerFires \/ TimerPanics \/ LinkBreaks
  BY <1>3 DEF SubTypes, StreamEnds, TimesOut, TimerFires, TimerPanics,
              LinkBreaks, tasks, redis
<1>4. CASE Publish BY <1>4 DEF SubTypes, Publish
<1>5. CASE PublisherPanics \/ Published \/ PublisherCancelled
  BY <1>5 DEF SubTypes, PublisherPanics, Published, PublisherCancelled, redis
<1>6. CASE RedisExecutes \/ \E message \in OtherMessages : try_pub(message)
  <2>1. PICK m \in Pushable : Push(m)
    BY <1>6 DEF RedisExecutes, try_pub, Pushable
  <2>2. Append(stream, m) \in Seq(Pushable) BY DEF SubTypes
  <2>3. stream' \in Seq(Pushable) BY <2>1, <2>2 DEF Push, SubTypes
  <2>4. others' \subseteq OtherMessages
    BY <1>6 DEF RedisExecutes, try_pub, SubTypes
  <2>5. own' # "none" => own # "none" BY <1>6 DEF RedisExecutes, try_pub
  <2> QED BY <2>1, <2>3, <2>4, <2>5 DEF SubTypes, Push, tasks
<1>7. CASE RedisRefuses BY <1>7 DEF SubTypes, RedisRefuses, tasks
<1>8. CASE UNCHANGED subVars BY <1>8 DEF SubTypes, subVars, tasks, redis
<1> QED BY <1>1, <1>2, <1>3, <1>4, <1>5, <1>6, <1>7, <1>8 DEF SubNext

(* A message that was not published before is passed on, or was published  *)
(* too early or too late for the subscription.                             *)
LEMMA PushKeeps ==
  ASSUME SubInv, SubTypes', NEW m, Push(m),
         \/ /\ m = "own" /\ own = "queued" /\ own' = "executed"
            /\ others' = others
         \/ /\ m \in OtherMessages \ others /\ others' = others \cup {m}
            /\ own' = own
  PROVE  SubInv'
<1>1. /\ heard' = heard /\ linked' = linked /\ (SubRunning)' = SubRunning
      /\ subscribed' = subscribed
      /\ stream' = IF subscribed /\ linked THEN Append(stream, m) ELSE stream
  BY DEF Push, SubRunning
<1>2. m \in Pushable BY DEF Pushable
<1>3. m \notin Members(Passed)
  <2> SUFFICES ASSUME NEW k \in DOMAIN Passed, Passed[k] = m PROVE FALSE
    BY DEF Members
  <2> QED BY RedisSubAssumption DEF SubInv, PassedPublished, SubTypes
<1>4. stream \in Seq(Pushable) /\ heard \in Seq(Pushable)
  BY DEF SubInv, SubTypes
<1> DEFINE old == Passed
<1>5. old \in Seq(Pushable) BY <1>4 DEF Passed
<1>6. CASE subscribed /\ linked
  <2>1. Passed' = Append(old, m) BY <1>1, <1>2, <1>4, <1>6 DEF Passed
  <2>2. /\ Distinct(Passed) BY DEF SubInv
  <2> HIDE DEF old
  <2>3. /\ Distinct(Append(old, m))
        /\ Members(Append(old, m)) = Members(old) \cup {m}
    BY <1>2, <1>3, <1>5, <2>2, JoinedQueue DEF old
  <2>4. Distinct(Passed)' BY <2>1, <2>3 DEF Distinct
  <2>5. PassedPublished'
    <3>1. \A x \in Members(old) :
             x \in others \/ (x = "own" /\ own = "executed")
      BY DEF SubInv, PassedPublished, Members, old
    <3>2. \A x \in Members(Append(old, m)) :
             x \in others' \/ (x = "own" /\ own' = "executed")
      BY <2>3, <3>1
    <3> QED BY <2>1, <3>2 DEF PassedPublished, Members
  <2>6. OwnPassed'
    <3>1. own = "executed" /\ linked /\ SubRunning => "own" \in Members(Passed)
      BY DEF SubInv, OwnPassed
    <3>2. Members(Passed)' = Members(old) \cup {m} BY <2>1, <2>3 DEF Members
    <3> QED BY <1>1, <3>1, <3>2 DEF OwnPassed, old
  <2> QED BY <2>4, <2>5, <2>6 DEF SubInv
<1>7. CASE ~(subscribed /\ linked)
  <2>1. Passed' = Passed BY <1>1, <1>7 DEF Passed
  <2>2. OwnPassed'
    <3>1. CASE ~linked BY <1>1, <3>1 DEF OwnPassed
    <3>2. CASE ~subscribed
      <4>1. own' = own BY <3>2 DEF SubInv, SubTypes
      <4>2. own = "none" BY <3>2 DEF SubInv, SubTypes
      <4> QED BY <4>1, <4>2 DEF OwnPassed
    <3> QED BY <1>7, <3>1, <3>2
  <2>3. PassedPublished' BY <2>1 DEF SubInv, PassedPublished
  <2>4. Distinct(Passed)' BY <2>1 DEF SubInv, Distinct
  <2> QED BY <2>2, <2>3, <2>4 DEF SubInv
<1> QED BY <1>6, <1>7

(* What is printed goes from the one to the other; what cannot be printed  *)
(* ends the program.                                                       *)
LEMMA ListenKeeps ==
  ASSUME SubInv, SubTypes', Listen
  PROVE  SubInv'
<1>1. /\ stream \in Seq(Pushable) /\ heard \in Seq(Pushable) /\ stream # <<>>
      /\ stream' = Tail(stream) /\ others' = others /\ own' = own
      /\ linked' = linked
  BY DEF SubInv, SubTypes, Listen
<1>2. CASE Head(stream) \notin BadMessages
  <2>1. heard' = Append(heard, Head(stream)) /\ outcome' = outcome
    BY <1>2 DEF Listen
  <2>2. Append(heard, Head(stream)) \o Tail(stream) = heard \o stream
    BY <1>1
  <2>3. Passed' = Passed BY <1>1, <2>1, <2>2 DEF Passed
  <2>4. PassedPublished' BY <1>1, <2>3 DEF SubInv, PassedPublished
  <2>5. Distinct(Passed)' BY <2>3 DEF SubInv, Distinct
  <2>6. OwnPassed' BY <1>1, <2>1, <2>3 DEF SubInv, OwnPassed, SubRunning
  <2> QED BY <2>4, <2>5, <2>6 DEF SubInv
<1>3. CASE Head(stream) \in BadMessages
  <2>1. heard' = heard /\ outcome' = "panicked" BY <1>3 DEF Listen
  <2> DEFINE old == Passed
             new == heard \o Tail(stream)
             n == Len(heard)
             Old(k) == IF k <= n THEN k ELSE k + 1
  <2>2. /\ DOMAIN old = 1 .. n + Len(stream)
        /\ DOMAIN new = 1 .. n + Len(stream) - 1
        /\ n \in Nat /\ Len(stream) \in Nat \ {0}
        /\ \A k \in DOMAIN new : new[k] = old[Old(k)] /\ Old(k) \in DOMAIN old
    BY <1>1 DEF Passed
  <2>3. Passed' = new BY <1>1, <2>1 DEF Passed
  <2> HIDE DEF old, new, n
  <2>4. Distinct(new)
    <3> SUFFICES ASSUME NEW i \in DOMAIN new, NEW j \in DOMAIN new,
                        new[i] = new[j]
                 PROVE  i = j
      BY DEF Distinct
    <3>1. Old(i) = Old(j) BY <2>2 DEF SubInv, Distinct, old
    <3> QED BY <2>2, <3>1
  <2>5. PassedPublished'
    <3>1. \A k \in DOMAIN new :
            new[k] \in others \/ (new[k] = "own" /\ own = "executed")
      BY <2>2 DEF SubInv, PassedPublished, old
    <3> QED BY <1>1, <2>3, <3>1 DEF PassedPublished
  <2>6. OwnPassed' BY <2>1 DEF OwnPassed, SubRunning
  <2> QED BY <2>3, <2>4, <2>5, <2>6 DEF SubInv, Distinct
<1> QED BY <1>2, <1>3

LEMMA SubInvKept ==
  ASSUME SubInv, [SubNext]_subVars
  PROVE  SubInv'
<1>1. SubTypes' BY SubTypesKept DEF SubInv
<1>2. CASE Listen BY <1>1, <1>2, ListenKeeps
<1>3. CASE RedisExecutes BY <1>1, <1>3, PushKeeps DEF RedisExecutes
<1>4. CASE \E message \in OtherMessages : try_pub(message)
  <2>1. PICK m \in OtherMessages : try_pub(m) BY <1>4
  <2> QED BY <1>1, <2>1, PushKeeps DEF try_pub
<1>5. ASSUME UNCHANGED <<heard, stream, others>>,
             own' = "executed" => own = "executed",
             own = "executed" => own' = "executed",
             linked' => linked, (SubRunning)' => SubRunning
      PROVE  SubInv'
  <2>1. Passed' = Passed BY <1>5 DEF Passed
  <2> QED BY <1>1, <1>5, <2>1
          DEF SubInv, PassedPublished, Distinct, OwnPassed
<1>6. CASE Setup
  BY <1>5, <1>6 DEF Setup, Connect, Subscribe, SetupFails, Spawn, At,
                    SubRunning, tasks, redis
<1>7. CASE \/ StreamEnds \/ TimesOut \/ TimerFires \/ TimerPanics
         \/ PublisherPanics \/ Published \/ PublisherCancelled
         \/ LinkBreaks
  BY <1>5, <1>7 DEF StreamEnds, TimesOut, TimerFires, TimerPanics,
                    PublisherPanics, Published, PublisherCancelled,
                    LinkBreaks, At, SubRunning, tasks, redis
<1>8. CASE Publish
  <2>1. own # "executed" BY <1>8 DEF Publish, SubInv, SubTypes
  <2> QED BY <1>5, <1>8, <2>1 DEF Publish, SubRunning
<1>9. CASE RedisRefuses BY <1>5, <1>9 DEF RedisRefuses, SubRunning, tasks
<1>10. CASE UNCHANGED subVars
  BY <1>5, <1>10 DEF subVars, SubRunning, tasks, redis
<1> QED BY <1>2, <1>3, <1>4, <1>6, <1>7, <1>8, <1>9, <1>10 DEF SubNext

(* The subscriber hears what its own process has published, for any other  *)
(* publishers and messages.                                                *)
THEOREM OwnMessageCorrect == SubSpec => []OwnMessageArrives
<1>1. SubInit => SubInv
  <2> SUFFICES ASSUME SubInit PROVE SubInv OBVIOUS
  <2>1. /\ stream = <<>> /\ heard = <<>> /\ step = 1 /\ others = {}
        /\ publisher = "none" /\ own = "none"
    BY DEF SubInit
  <2>2. Passed = <<>> BY <2>1 DEF Passed
  <2> QED BY <2>1, <2>2
          DEF SubInv, SubTypes, PassedPublished, Distinct, OwnPassed
<1>2. SubInv /\ [SubNext]_subVars => SubInv' BY SubInvKept
<1>3. SubInv => OwnMessageArrives
  <2> SUFFICES ASSUME SubInv PROVE OwnMessageArrives OBVIOUS
  <2>1. Members(Passed) = Range(Passed) BY DEF Members, Range
  <2>2. IsInjective(Passed) BY DEF SubInv, Distinct, IsInjective
  <2> QED BY <2>1, <2>2 DEF OwnMessageArrives, SubInv, OwnPassed, Passed
<1> QED BY <1>1, <1>2, <1>3, PTL DEF SubSpec

-----------------------------------------------------------------------------
(* The Ackermann function exists: each row is the iteration of the row     *)
(* before it.                                                              *)
Rows == [Nat -> Nat]

Iterates(g, f) == g \in Rows /\ g[0] = f[1] /\ \A n \in Nat : g[n + 1] = f[g[n]]

LEMMA RowAfter ==
  ASSUME NEW f \in Rows
  PROVE  \E g : Iterates(g, f)
<1> DEFINE rule == [n \in Nat |-> f]
<1>1. rule \in [Nat -> [Nat -> Nat]] /\ f[1] \in Nat BY DEF Rows
<1>2. \A n \in Nat : rule[n] = f OBVIOUS
<1> HIDE DEF rule
<1>3. PICK g \in [Nat -> Nat] : Recursion(g, f[1], rule)
  BY <1>1, RecursiveFunction
<1>4. Iterates(g, f) BY <1>2, <1>3 DEF Iterates, Rows, Recursion
<1> QED BY <1>4

(* What `ackermann` must be.                                               *)
Ackermann(F) ==
  F = [p \in Nat \X Nat |->
         IF p[1] = 0 THEN p[2] + 1
         ELSE IF p[2] = 0 THEN F[<<p[1] - 1, 1>>]
         ELSE F[<<p[1] - 1, F[<<p[1], p[2] - 1>>]>>]]

LEMMA AckermannExists == \E F : Ackermann(F)
<1> DEFINE first == [n \in Nat |-> n + 1]
           next(f) == CHOOSE g : Iterates(g, f)
           rule  == [m \in Nat |-> [f \in Rows |-> next(f)]]
<1>1. \A f \in Rows : Iterates(next(f), f) BY RowAfter
<1> HIDE DEF next
<1>2. first \in Rows /\ \A n \in Nat : first[n] = n + 1 BY DEF Rows
<1>3. rule \in [Nat -> [Rows -> Rows]] BY <1>1 DEF Iterates
<1>4. \A m \in Nat, f \in Rows : rule[m][f] = next(f) OBVIOUS
<1> HIDE DEF rule, first
<1>5. PICK A \in [Nat -> Rows] : Recursion(A, first, rule)
  BY <1>2, <1>3, RecursiveFunction
<1>6. \A m \in Nat : A[m] \in Rows OBVIOUS
<1>7. A[0] = first BY <1>5 DEF Recursion
<1>8. \A m \in Nat : Iterates(A[m + 1], A[m])
  BY <1>1, <1>4, <1>5, <1>6 DEF Recursion
<1>9. \A m \in Nat, n \in Nat : A[m][n] \in Nat BY <1>6 DEF Rows
<1> DEFINE F == [p \in Nat \X Nat |-> A[p[1]][p[2]]]
<1>10. \A m \in Nat, n \in Nat : F[<<m, n>>] = A[m][n] OBVIOUS
<1>11. F = [p \in Nat \X Nat |-> F[p]] OBVIOUS
<1> HIDE DEF F
<1>12. ASSUME NEW m \in Nat, NEW n \in Nat
       PROVE  F[<<m, n>>] = IF m = 0 THEN n + 1
                            ELSE IF n = 0 THEN F[<<m - 1, 1>>]
                            ELSE F[<<m - 1, F[<<m, n - 1>>]>>]
  <2>1. CASE m = 0 BY <1>2, <1>7, <1>10, <2>1
  <2>2. CASE m # 0
    <3>1. m - 1 \in Nat /\ (m - 1) + 1 = m BY <2>2
    <3>2. Iterates(A[m], A[m - 1]) BY <1>8, <3>1
    <3>3. CASE n = 0
      <4>1. A[m][0] = A[m - 1][1] BY <3>2 DEF Iterates
      <4> QED BY <1>10, <2>2, <3>1, <3>3, <4>1
    <3>4. CASE n # 0
      <4>1. n - 1 \in Nat /\ (n - 1) + 1 = n BY <3>4
      <4>2. A[m][n] = A[m - 1][A[m][n - 1]] BY <3>2, <4>1 DEF Iterates
      <4>3. A[m][n - 1] \in Nat BY <1>9, <4>1
      <4>4. F[<<m - 1, F[<<m, n - 1>>]>>] = A[m - 1][A[m][n - 1]]
        BY <1>10, <3>1, <4>1, <4>3
      <4> QED BY <1>10, <2>2, <3>4, <4>2, <4>4
    <3> QED BY <3>3, <3>4
  <2> QED BY <2>1, <2>2
<1>13. ASSUME NEW p \in Nat \X Nat
       PROVE  F[p] = IF p[1] = 0 THEN p[2] + 1
                     ELSE IF p[2] = 0 THEN F[<<p[1] - 1, 1>>]
                     ELSE F[<<p[1] - 1, F[<<p[1], p[2] - 1>>]>>]
  <2>1. PICK m \in Nat, n \in Nat : p = <<m, n>> OBVIOUS
  <2>2. p[1] = m /\ p[2] = n BY <2>1
  <2> QED BY <1>12, <2>1, <2>2
<1>14. Ackermann(F) BY <1>11, <1>13 DEF Ackermann
<1> QED BY <1>14

Ack(m, n) == ackermann[<<m, n>>]

LEMMA AckIs ==
  ASSUME NEW m \in Nat, NEW n \in Nat
  PROVE  Ack(m, n) = IF m = 0 THEN n + 1
                     ELSE IF n = 0 THEN Ack(m - 1, 1)
                     ELSE Ack(m - 1, Ack(m, n - 1))
<1>1. ackermann = CHOOSE F : Ackermann(F) BY Zenon DEF ackermann, Ackermann
<1>2. Ackermann(ackermann)
  <2>1. Ackermann(CHOOSE F : Ackermann(F)) BY AckermannExists, Zenon
  <2> QED BY <1>1, <2>1, Zenon
<1> DEFINE p == <<m, n>>
<1>3. p \in Nat \X Nat /\ p[1] = m /\ p[2] = n OBVIOUS
<1> HIDE DEF p
<1>4. ackermann[p] = IF p[1] = 0 THEN p[2] + 1
                     ELSE IF p[2] = 0 THEN ackermann[<<p[1] - 1, 1>>]
                     ELSE ackermann[<<p[1] - 1, ackermann[<<p[1], p[2] - 1>>]>>]
  BY <1>2, <1>3 DEF Ackermann
<1> QED BY <1>3, <1>4 DEF Ack, p

(* Its values are natural numbers.                                         *)
LEMMA AckNat ==
  ASSUME NEW m \in Nat, NEW n \in Nat
  PROVE  Ack(m, n) \in Nat
<1> DEFINE S == {k \in Nat : \A l \in Nat : Ack(k, l) \in Nat}
<1>1. 0 \in S BY AckIs
<1>2. ASSUME NEW k \in Nat, k \in S PROVE k + 1 \in S
  <2>1. \A l \in Nat : Ack(k, l) \in Nat BY <1>2
  <2> DEFINE T == {l \in Nat : Ack(k + 1, l) \in Nat}
  <2>2. k + 1 \in Nat /\ k + 1 # 0 /\ (k + 1) - 1 = k OBVIOUS
  <2>3. 0 \in T
    <3>1. Ack(k + 1, 0) = Ack((k + 1) - 1, 1) BY <2>2, AckIs
    <3> QED BY <2>1, <2>2, <3>1
  <2>4. ASSUME NEW l \in Nat, l \in T PROVE l + 1 \in T
    <3>1. l + 1 \in Nat /\ l + 1 # 0 /\ (l + 1) - 1 = l OBVIOUS
    <3>2. Ack(k + 1, l + 1) = Ack((k + 1) - 1, Ack(k + 1, (l + 1) - 1))
      BY <2>2, <3>1, AckIs
    <3>3. Ack(k + 1, l) \in Nat BY <2>4
    <3> QED BY <2>1, <2>2, <3>1, <3>2, <3>3
  <2> HIDE DEF T
  <2>5. Nat \subseteq T BY <2>3, <2>4, InductiveSet
  <2> QED BY <2>2, <2>5 DEF T
<1> HIDE DEF S
<1>3. Nat \subseteq S BY <1>1, <1>2, InductiveSet
<1> QED BY <1>3 DEF S

-----------------------------------------------------------------------------
(* The open lines, as a fold.                                              *)
AckLines == [m : Nat, n : Nat, indent : Nat, result : Int]
Opens == Seq(AckLines)

OpenAfter(line, open) ==
  IF line.result = Unknown THEN Append(open, line)
  ELSE IF line.m = 0 THEN open
  ELSE SubSeq(open, 1, Len(open) - 1)

NoLines == <<>>

Opener == [line \in AckLines |-> [open \in Opens |-> OpenAfter(line, open)]]

OpenOf(ls) == Folded(Opens, NoLines, Opener, ls)

(* All but the last of a sequence.                                         *)
LEMMA FrontIs ==
  ASSUME NEW S, NEW s \in Seq(S)
  PROVE  LET front == SubSeq(s, 1, Len(s) - 1)
         IN /\ front \in Seq(S)
            /\ s # <<>> => /\ Len(front) = Len(s) - 1
                           /\ \A i \in 1 .. Len(s) - 1 : front[i] = s[i]
                           /\ s[Len(s)] \in S
                           /\ s = Append(front, s[Len(s)])
<1> DEFINE n     == Len(s)
           front == SubSeq(s, 1, n - 1)
<1>1. CASE s = <<>>
  <2>1. front = <<>> BY <1>1
  <2> QED BY <1>1, <2>1
<1>2. CASE s # <<>>
  <2>1. n \in Nat \ {0} /\ \A i \in 1 .. n : s[i] \in S BY <1>2
  <2>2. /\ front \in Seq(S) /\ Len(front) = n - 1
        /\ \A i \in 1 .. n - 1 : front[i] = s[i]
    <3>1. /\ \A i \in 1 .. n - 1 : s[i] \in S
          /\ n - 1 \in Nat /\ 1 \in Int /\ n - 1 \in Int
      BY <2>1
    <3> DEFINE m == n - 1
    <3>2. \A i \in 1 .. m : s[i] \in S BY <3>1
    <3>3. m \in Nat BY <3>1
    <3> HIDE DEF n, m
    <3>4. /\ SubSeq(s, 1, m) \in Seq(S)
          /\ Len(SubSeq(s, 1, m)) = IF 1 <= m THEN m - 1 + 1 ELSE 0
          /\ \A i \in 1 .. m - 1 + 1 : SubSeq(s, 1, m)[i] = s[1 + i - 1]
      BY <3>2, <3>3, SubSeqProperties
    <3>5. m - 1 + 1 = m /\ \A i \in 1 .. m : 1 + i - 1 = i BY <3>3
    <3>6. Len(SubSeq(s, 1, m)) = m BY <3>3, <3>4
    <3> QED BY <3>4, <3>5, <3>6 DEF m
  <2>3. s = Append(front, s[n])
    <3> DEFINE t == Append(front, s[n])
    <3>1. /\ t \in Seq(S) /\ Len(t) = n /\ t[n] = s[n]
          /\ \A i \in 1 .. n - 1 : t[i] = front[i]
      BY <2>1, <2>2
    <3> HIDE DEF t
    <3>2. \A i \in 1 .. n : t[i] = s[i] BY <2>1, <2>2, <3>1
    <3> QED BY <3>1, <3>2, SeqEqual DEF t
  <2> QED BY <2>1, <2>2, <2>3
<1> QED BY <1>1, <1>2

LEMMA OpenerIs ==
  /\ NoLines \in Opens
  /\ Opener \in [AckLines -> [Opens -> Opens]]
  /\ \A line \in AckLines, open \in Opens :
       Opener[line][open] = OpenAfter(line, open)
<1>1. \A line \in AckLines, open \in Opens : OpenAfter(line, open) \in Opens
  <2> SUFFICES ASSUME NEW line \in AckLines, NEW open \in Opens
               PROVE  OpenAfter(line, open) \in Opens
    OBVIOUS
  <2>1. SubSeq(open, 1, Len(open) - 1) \in Opens BY FrontIs DEF Opens
  <2>2. Append(open, line) \in Opens BY DEF Opens
  <2> QED BY <2>1, <2>2 DEF OpenAfter
<1>2. Opener \in [AckLines -> [Opens -> Opens]] BY <1>1 DEF Opener
<1>3. NoLines \in Opens BY DEF Opens, NoLines
<1> QED BY <1>2, <1>3 DEF Opener

LEMMA OpenOfIs ==
  ASSUME NEW ls \in Seq(AckLines)
  PROVE  /\ OpenOf(ls) \in [0 .. Len(ls) -> Opens]
         /\ OpenOf(ls)[0] = <<>>
         /\ \A k \in 1 .. Len(ls) :
              OpenOf(ls)[k] = OpenAfter(ls[k], OpenOf(ls)[k - 1])
<1> DEFINE n == Len(ls)
           f == OpenOf(ls)
<1>1. n \in Nat /\ \A k \in 1 .. n : ls[k] \in AckLines OBVIOUS
<1>2. f \in [0 .. n -> Opens] /\ Folds(f, NoLines, Opener, ls)
  BY OpenerIs, FoldedIs DEF OpenOf
<1> HIDE DEF f
<1>3. \A k \in 1 .. n : f[k - 1] \in Opens
  <2>1. \A k \in 1 .. n : k - 1 \in 0 .. n BY <1>1
  <2> QED BY <1>2, <2>1
<1> QED BY <1>1, <1>2, <1>3, OpenerIs DEF f, Folds, NoLines

LEMMA OpenOfAppend ==
  ASSUME NEW ls \in Seq(AckLines), NEW line \in AckLines
  PROVE  LET new == OpenOf(Append(ls, line))
         IN /\ \A k \in 0 .. Len(ls) : new[k] = OpenOf(ls)[k]
            /\ new[Len(ls) + 1] = OpenAfter(line, OpenOf(ls)[Len(ls)])
<1> DEFINE n   == Len(ls)
           old == Folded(Opens, NoLines, Opener, ls)
           new == Folded(Opens, NoLines, Opener, Append(ls, line))
<1>1. /\ \A k \in 0 .. n : new[k] = old[k]
      /\ new[n + 1] = Opener[line][old[n]]
  BY OpenerIs, FoldedAppend
<1>2. old[n] \in Opens
  <2>1. n \in 0 .. n OBVIOUS
  <2> QED BY <2>1, OpenOfIs DEF OpenOf
<1> HIDE DEF old, new, n
<1>3. new[n + 1] = OpenAfter(line, old[n]) BY <1>1, <1>2, OpenerIs
<1> QED BY <1>1, <1>3 DEF OpenOf, old, new, n

LEMMA OpenLinesAre ==
  ASSUME lines \in Seq(AckLines)
  PROVE  \A k \in 0 .. Len(lines) : OpenLines[k] = OpenOf(lines)[k]
<1> DEFINE n    == Len(lines)
           g    == OpenOf(lines)
           h(f) == [k \in 0 .. n |->
                      IF k = 0 THEN <<>>
                      ELSE LET open == f[k - 1]
                           IN IF lines[k].result = Unknown
                              THEN Append(open, lines[k])
                              ELSE IF lines[k].m = 0 THEN open
                              ELSE SubSeq(open, 1, Len(open) - 1)]
<1>1. n \in Nat OBVIOUS
<1>2. \A f : h(f) = [k \in 0 .. n |-> IF k = 0 THEN <<>>
                                      ELSE OpenAfter(lines[k], f[k - 1])]
  BY DEF OpenAfter
<1>3. g \in [0 .. n -> Opens] /\ g[0] = <<>>
      /\ \A k \in 1 .. n : g[k] = OpenAfter(lines[k], g[k - 1])
  BY OpenOfIs
<1>4. OpenLines = CHOOSE f : f = h(f) BY Zenon DEF OpenLines
<1> HIDE DEF g, h
<1>5. g = h(g)
  <2>1. \A k \in 0 .. n : g[k] = IF k = 0 THEN <<>>
                                 ELSE OpenAfter(lines[k], g[k - 1])
    BY <1>1, <1>3
  <2> QED BY <1>2, <1>3, <2>1
<1>6. OpenLines = h(OpenLines) BY <1>4, <1>5
<1>7. ASSUME NEW k \in 0 .. n - 1, OpenLines[k] = g[k]
      PROVE  OpenLines[k + 1] = g[k + 1]
  <2>1. k + 1 \in 0 .. n /\ k + 1 # 0 /\ (k + 1) - 1 = k BY <1>1
  <2>2. /\ OpenLines[k + 1] = OpenAfter(lines[k + 1], OpenLines[(k + 1) - 1])
        /\ g[k + 1] = OpenAfter(lines[k + 1], g[(k + 1) - 1])
    BY <1>2, <1>5, <1>6, <2>1
  <2> QED BY <1>7, <2>1, <2>2
<1>8. OpenLines[0] = g[0]
  <2>1. 0 \in 0 .. n BY <1>1
  <2> QED BY <1>2, <1>5, <1>6, <2>1
<1> HIDE DEF n
<1> QED BY <1>1, <1>7, <1>8, SameRecursion DEF n, g

-----------------------------------------------------------------------------
(* The futures that await each other.                                      *)
Frames ==
  [m : Nat, n : Nat, indent : Nat, at : {"begin", "inner", "last"}]
    \cup [m : Nat, n : Nat, indent : Nat, at : {"close"}, r : Nat]

(* A call of async_ack at the depth d.                                     *)
FrameAt(call, d) ==
  /\ call \in Frames
  /\ call.indent = 2 * (d - 1)
  /\ call.at # "begin" => call.m # 0

(* A call awaits the next: the inner one of its two calls, or the last,    *)
(* whose result is its own.                                                *)
Awaits(call, next) ==
  /\ call.at \in {"inner", "last"}
  /\ call.at = "inner" => call.n # 0 /\ next.m = call.m /\ next.n = call.n - 1
  /\ call.at = "last" => /\ next.m = call.m - 1
                         /\ Ack(next.m, next.n) = Ack(call.m, call.n)

Chain(cs) ==
  /\ cs \in Seq(Frames)
  /\ \A i \in 1 .. Len(cs) : FrameAt(cs[i], i)
  /\ \A i \in 1 .. Len(cs) - 1 : Awaits(cs[i], cs[i + 1])

(* The lines that the calls have open.                                     *)
OpenFor(cs, open) ==
  /\ open \in Opens
  /\ Len(open) = Len(cs)
  /\ \A i \in 1 .. Len(cs) : open[i] = Line(cs[i], Unknown)

(* A line with a result, given the lines that are open before it.          *)
RightAfter(line, open) ==
  line.result # Unknown =>
    /\ line.result = Ack(line.m, line.n)
    /\ line.indent = 2 * Len(open) - (IF line.m = 0 THEN 0 ELSE 2)
    /\ line.m # 0 => line = Line(open[Len(open)], line.result)

Right(ls) == \A k \in 1 .. Len(ls) : RightAfter(ls[k], OpenOf(ls)[k - 1])

AckInv ==
  /\ Chain(calls)
  /\ lines \in Seq(AckLines)
  /\ calls = <<>> => OpenFor(calls, OpenOf(lines)[Len(lines)])
  /\ calls # <<>> =>
       \/ Top.at = "begin" /\ OpenFor(Below, OpenOf(lines)[Len(lines)])
       \/ /\ Top.at = "close" /\ Top.r = Ack(Top.m, Top.n)
          /\ OpenFor(calls, OpenOf(lines)[Len(lines)])
  /\ Right(lines)
  /\ answer # <<>> => calls = <<>> /\ answer = <<lines[Len(lines)].result>>

LEMMA ChainFront ==
  ASSUME NEW cs, Chain(cs), cs # <<>>
  PROVE  LET front == SubSeq(cs, 1, Len(cs) - 1)
             top   == cs[Len(cs)]
         IN /\ Chain(front) /\ Len(front) = Len(cs) - 1
            /\ FrameAt(top, Len(cs)) /\ cs = Append(front, top)
            /\ front # <<>> => Awaits(front[Len(front)], top)
<1> DEFINE n     == Len(cs)
           front == SubSeq(cs, 1, n - 1)
<1>1. cs \in Seq(Frames) BY DEF Chain
<1>2. n \in Nat \ {0} BY <1>1
<1>3. /\ front \in Seq(Frames) /\ Len(front) = n - 1
      /\ \A i \in 1 .. n - 1 : front[i] = cs[i]
      /\ cs = Append(front, cs[n])
  BY <1>1, FrontIs
<1> HIDE DEF front
<1>4. Chain(front)
  <2>1. \A i \in 1 .. n - 1 : i \in 1 .. n BY <1>2
  <2>2. \A i \in 1 .. (n - 1) - 1 :
          i \in 1 .. n - 1 /\ i + 1 \in 1 .. n - 1
    BY <1>2
  <2>3. \A i \in 1 .. n - 1 : FrameAt(front[i], i)
    BY <1>3, <2>1 DEF Chain
  <2>4. ASSUME NEW i \in 1 .. (n - 1) - 1
        PROVE  Awaits(front[i], front[i + 1])
    <3>1. front[i] = cs[i] /\ front[i + 1] = cs[i + 1] BY <1>3, <2>2
    <3>2. Awaits(cs[i], cs[i + 1]) BY <2>2 DEF Chain
    <3> QED BY <3>1, <3>2
  <2> HIDE DEF n
  <2> QED BY <1>3, <2>3, <2>4 DEF Chain
<1>5. FrameAt(cs[n], n)
  <2>1. n \in 1 .. n BY <1>2
  <2> QED BY <2>1 DEF Chain
<1>6. ASSUME front # <<>> PROVE Awaits(front[n - 1], cs[n])
  <2>1. n - 1 # 0
    <3>1. front \in Seq(Frames) BY <1>3
    <3>2. Len(front) # 0 BY ONLY <1>6, <3>1, EmptySeq
    <3> QED BY <1>3, <3>2
  <2>2. n - 1 \in 1 .. n - 1 /\ (n - 1) + 1 = n
    <3>1. n \in Nat BY <1>2
    <3> HIDE DEF n
    <3> QED BY ONLY <2>1, <3>1, <1>2
  <2> QED BY <1>3, <2>2 DEF Chain
<1> QED BY <1>3, <1>4, <1>5, <1>6 DEF front

LEMMA ChainAppend ==
  ASSUME NEW cs, Chain(cs), NEW c, FrameAt(c, Len(cs) + 1),
         cs # <<>> => Awaits(cs[Len(cs)], c)
  PROVE  /\ Chain(Append(cs, c))
         /\ Append(cs, c) # <<>>
         /\ Append(cs, c)[Len(Append(cs, c))] = c
         /\ SubSeq(Append(cs, c), 1, Len(Append(cs, c)) - 1) = cs
<1> DEFINE n    == Len(cs)
           more == Append(cs, c)
<1>1. cs \in Seq(Frames) /\ c \in Frames BY DEF Chain, FrameAt
<1>2. /\ n \in Nat /\ more \in Seq(Frames) /\ Len(more) = n + 1
      /\ more[n + 1] = c /\ \A i \in 1 .. n : more[i] = cs[i]
  BY <1>1
<1>3. more # <<>> BY <1>2
<1>4. n # 0 => cs # <<>> BY <1>1
<1>5. SubSeq(more, 1, n) = cs
  <2> DEFINE front == SubSeq(more, 1, n)
  <2> HIDE DEF more
  <2>1. (n + 1) - 1 = n BY <1>2
  <2>2. /\ front \in Seq(Frames) /\ Len(front) = n
        /\ \A i \in 1 .. n : front[i] = more[i]
    BY <1>2, <1>3, <2>1, FrontIs
  <2> HIDE DEF front
  <2>3. \A i \in 1 .. n : front[i] = cs[i] BY <1>2, <2>2
  <2> QED BY <1>1, <2>2, <2>3, SeqEqual DEF front
<1> HIDE DEF more
<1>6. Chain(more)
  <2>1. ASSUME NEW i \in 1 .. n + 1 PROVE FrameAt(more[i], i)
    <3>1. i \in 1 .. n \/ i = n + 1 BY <1>2
    <3> QED BY <1>2, <3>1 DEF Chain
  <2>2. ASSUME NEW i \in 1 .. (n + 1) - 1 PROVE Awaits(more[i], more[i + 1])
    <3>1. CASE i = n
      <4>1. n \in 1 .. n /\ n # 0 BY <1>2, <3>1
      <4> QED BY <1>2, <1>4, <3>1, <4>1
    <3>2. CASE i # n
      <4>1. i \in 1 .. n - 1 /\ i \in 1 .. n /\ i + 1 \in 1 .. n
        BY <1>2, <3>2
      <4> QED BY <1>2, <4>1 DEF Chain
    <3> QED BY <3>1, <3>2
  <2> QED BY <1>2, <2>1, <2>2 DEF Chain
<1>7. (n + 1) - 1 = n BY <1>2
<1> QED BY <1>2, <1>3, <1>5, <1>6, <1>7 DEF more

LEMMA OpenForFront ==
  ASSUME NEW cs \in Seq(Frames), NEW c \in Frames, NEW open,
         OpenFor(Append(cs, c), open)
  PROVE  /\ OpenFor(cs, SubSeq(open, 1, Len(open) - 1))
         /\ Len(open) = Len(cs) + 1
         /\ open[Len(open)] = Line(c, Unknown)
<1> DEFINE n == Len(cs)
<1>1. /\ n \in Nat /\ Len(Append(cs, c)) = n + 1 /\ Append(cs, c)[n + 1] = c
      /\ \A i \in 1 .. n : Append(cs, c)[i] = cs[i]
  OBVIOUS
<1>2. /\ open \in Seq(AckLines) /\ Len(open) = n + 1
      /\ \A i \in 1 .. n + 1 : open[i] = Line(Append(cs, c)[i], Unknown)
  BY <1>1 DEF OpenFor, Opens
<1>3. (n + 1) - 1 = n /\ n + 1 \in 1 .. n + 1
      /\ \A i \in 1 .. n : i \in 1 .. n + 1
  BY <1>1
<1>4. open # <<>> BY <1>1, <1>2
<1>5. /\ SubSeq(open, 1, n) \in Seq(AckLines) /\ Len(SubSeq(open, 1, n)) = n
      /\ \A i \in 1 .. n : SubSeq(open, 1, n)[i] = open[i]
  BY <1>2, <1>3, <1>4, FrontIs
<1> QED BY <1>1, <1>2, <1>3, <1>5 DEF OpenFor, Opens

LEMMA OpenForAppend ==
  ASSUME NEW cs \in Seq(Frames), NEW c \in Frames, NEW open,
         OpenFor(cs, open), Line(c, Unknown) \in AckLines
  PROVE  OpenFor(Append(cs, c), Append(open, Line(c, Unknown)))
<1> DEFINE n    == Len(cs)
           more == Append(cs, c)
           line == Line(c, Unknown)
           wide == Append(open, line)
<1>1. /\ n \in Nat /\ Len(more) = n + 1 /\ more[n + 1] = c
      /\ \A i \in 1 .. n : more[i] = cs[i]
  OBVIOUS
<1>2. open \in Seq(AckLines) /\ Len(open) = n BY DEF OpenFor, Opens
<1> HIDE DEF line
<1>3. /\ wide \in Seq(AckLines) /\ Len(wide) = n + 1 /\ wide[n + 1] = line
      /\ \A i \in 1 .. n : wide[i] = open[i]
  BY <1>2 DEF line
<1> HIDE DEF more, wide
<1>4. \A i \in 1 .. n + 1 : i \in 1 .. n \/ i = n + 1 BY <1>1
<1>5. \A i \in 1 .. n : open[i] = Line(cs[i], Unknown) BY DEF OpenFor
<1>6. \A i \in 1 .. n + 1 : wide[i] = Line(more[i], Unknown)
  BY <1>1, <1>3, <1>4, <1>5 DEF line
<1> QED BY <1>1, <1>3, <1>6 DEF OpenFor, Opens, more, wide, line

LEMMA OpenForSame ==
  ASSUME NEW cs \in Seq(Frames), NEW c, NEW d,
         c \in Frames, d \in Frames, Line(c, Unknown) = Line(d, Unknown),
         NEW open, OpenFor(Append(cs, c), open)
  PROVE  OpenFor(Append(cs, d), open)
<1> DEFINE n   == Len(cs)
           one == Append(cs, c)
           two == Append(cs, d)
<1>1. /\ n \in Nat /\ Len(one) = n + 1 /\ one[n + 1] = c
      /\ Len(two) = n + 1 /\ two[n + 1] = d
      /\ \A i \in 1 .. n : one[i] = two[i]
  OBVIOUS
<1>2. \A i \in 1 .. n + 1 : i \in 1 .. n \/ i = n + 1 BY <1>1
<1> HIDE DEF n, one, two
<1>3. \A i \in 1 .. n + 1 : Line(one[i], Unknown) = Line(two[i], Unknown)
  BY <1>1, <1>2
<1>4. OpenFor(one, open) BY DEF one
<1> QED BY <1>1, <1>3, <1>4 DEF OpenFor, two

LEMMA RightAppend ==
  ASSUME NEW ls \in Seq(AckLines), Right(ls), NEW line \in AckLines,
         RightAfter(line, OpenOf(ls)[Len(ls)])
  PROVE  Right(Append(ls, line))
<1> DEFINE n   == Len(ls)
           new == Append(ls, line)
<1>1. /\ n \in Nat /\ Len(new) = n + 1 /\ new[n + 1] = line
      /\ \A k \in 1 .. n : new[k] = ls[k]
  OBVIOUS
<1> HIDE DEF new
<1>2. \A k \in 0 .. n : OpenOf(new)[k] = OpenOf(ls)[k]
  BY OpenOfAppend DEF new
<1> HIDE DEF n
<1>3. ASSUME NEW k \in 1 .. n + 1
      PROVE  RightAfter(new[k], OpenOf(new)[k - 1])
  <2>1. k - 1 \in 0 .. n BY <1>1
  <2>2. OpenOf(new)[k - 1] = OpenOf(ls)[k - 1] BY <1>2, <2>1
  <2>3. CASE k = n + 1
    <3>1. k - 1 = n BY <1>1, <2>3
    <3> QED BY <1>1, <2>2, <2>3, <3>1 DEF n
  <2>4. CASE k # n + 1
    <3>1. k \in 1 .. n BY <1>1, <2>4
    <3> QED BY <1>1, <2>2, <3>1 DEF Right, n
  <2> QED BY <2>3, <2>4
<1> QED BY <1>1, <1>3 DEF Right, new

LEMMA CallIs ==
  ASSUME NEW m \in Nat, NEW n \in Nat, NEW indent \in Nat
  PROVE  LET call == Call(m, n, indent)
         IN /\ call \in Frames
            /\ call.m = m /\ call.n = n /\ call.indent = indent
            /\ call.at = "begin"
BY DEF Call, Frames

LEMMA AckLineIs ==
  ASSUME NEW call \in Frames, NEW r \in Int
  PROVE  LET line == Line(call, r)
         IN /\ line \in AckLines
            /\ line.m = call.m /\ line.n = call.n
            /\ line.indent = call.indent /\ line.result = r
BY DEF Line, AckLines, Frames

(* A call that goes on to await another.                                   *)
LEMMA FrameAwaits ==
  ASSUME NEW call \in Frames, call.at # "close",
         NEW at \in {"inner", "last"}
  PROVE  LET new == [call EXCEPT !.at = at]
         IN /\ new \in Frames /\ new.at = at
            /\ new.m = call.m /\ new.n = call.n /\ new.indent = call.indent
BY DEF Frames

LEMMA FrameType ==
  ASSUME NEW call \in Frames
  PROVE  /\ call.m \in Nat /\ call.n \in Nat /\ call.indent \in Nat
         /\ call.at \in {"begin", "inner", "last", "close"}
         /\ call.at = "close" => call.r \in Nat
BY DEF Frames

Closed(call, result) ==
  [m |-> call.m, n |-> call.n, indent |-> call.indent, at |-> "close",
   r |-> result]

LEMMA ClosedIs ==
  ASSUME NEW call \in Frames, NEW r \in Nat
  PROVE  LET new == Closed(call, r)
         IN /\ new \in Frames /\ new.at = "close" /\ new.r = r
            /\ new.m = call.m /\ new.n = call.n /\ new.indent = call.indent
BY DEF Closed, Frames

(* A call, and the one it now awaits, on top of those before.              *)
LEMMA ChainTwo ==
  ASSUME NEW cs, Chain(cs),
         NEW c, FrameAt(c, Len(cs) + 1), cs # <<>> => Awaits(cs[Len(cs)], c),
         NEW d, FrameAt(d, Len(cs) + 2), Awaits(c, d)
  PROVE  LET new == cs \o <<c, d>>
         IN /\ Chain(new) /\ new # <<>>
            /\ new[Len(new)] = d
            /\ SubSeq(new, 1, Len(new) - 1) = Append(cs, c)
<1> DEFINE one == Append(cs, c)
           two == Append(one, d)
<1>1. cs \in Seq(Frames) /\ c \in Frames /\ d \in Frames
  BY DEF Chain, FrameAt
<1>2. cs \o <<c, d>> = two BY <1>1
<1>3. Len(one) = Len(cs) + 1 /\ Len(cs) \in Nat BY <1>1
<1>4. Chain(one) /\ one[Len(one)] = c BY ChainAppend
<1>5. Len(one) + 1 = Len(cs) + 2 BY <1>3
<1> HIDE DEF one
<1>6. FrameAt(d, Len(one) + 1) BY <1>5
<1>7. /\ Chain(two) /\ two # <<>> /\ two[Len(two)] = d
      /\ SubSeq(two, 1, Len(two) - 1) = one
  BY <1>4, <1>6, ChainAppend
<1> QED BY <1>2, <1>7 DEF one

-----------------------------------------------------------------------------
(* The steps.                                                              *)
OpenNow == OpenOf(lines)[Len(lines)]

(* What is written, and what it leaves open.                               *)
LEMMA Written ==
  ASSUME lines \in Seq(AckLines), Right(lines), NEW line \in AckLines,
         lines' = Append(lines, line), RightAfter(line, OpenNow)
  PROVE  /\ lines' \in Seq(AckLines) /\ Right(lines)'
         /\ OpenNow' = OpenAfter(line, OpenNow)
         /\ lines'[Len(lines')] = line
<1> DEFINE new == Append(lines, line)
<1>1. /\ new \in Seq(AckLines) /\ Len(new) = Len(lines) + 1
      /\ new[Len(new)] = line
  OBVIOUS
<1>2. Right(new) BY RightAppend DEF OpenNow
<1>3. OpenOf(new)[Len(lines) + 1] = OpenAfter(line, OpenOf(lines)[Len(lines)])
  BY OpenOfAppend
<1> HIDE DEF new
<1>4. lines' = new BY DEF new
<1>5. Right(lines') BY <1>2, <1>4
<1>6. OpenOf(lines')[Len(lines')] = OpenOf(new)[Len(lines) + 1]
  BY <1>1, <1>4
<1> QED BY <1>1, <1>3, <1>4, <1>5, <1>6 DEF OpenNow, Right

LEMMA TopIs ==
  ASSUME AckInv, calls # <<>>
  PROVE  /\ Chain(Below) /\ Len(Below) = Len(calls) - 1
         /\ FrameAt(Top, Len(Below) + 1) /\ calls = Append(Below, Top)
         /\ Below # <<>> => Awaits(Below[Len(Below)], Top)
         /\ answer = <<>>
<1>1. Chain(calls) /\ (answer # <<>> => calls = <<>>) BY DEF AckInv
<1>2. /\ Chain(Below) /\ Len(Below) = Len(calls) - 1
      /\ FrameAt(Top, Len(calls)) /\ calls = Append(Below, Top)
      /\ Below # <<>> => Awaits(Below[Len(Below)], Top)
  BY <1>1, ChainFront DEF Top, Below
<1>3. Len(calls) \in Nat BY <1>1 DEF Chain
<1>4. Len(Below) + 1 = Len(calls) BY <1>2, <1>3
<1> QED BY <1>1, <1>2, <1>4

LEMMA AfterBeginIs ==
  ASSUME NEW call, NEW d \in Nat, FrameAt(call, d), call.at = "begin",
         call.m # 0
  PROVE  \E a, b :
           /\ AfterBegin(call) = <<a, b>>
           /\ FrameAt(a, d) /\ a.m = call.m /\ a.n = call.n
           /\ a.indent = call.indent
           /\ FrameAt(b, d + 1) /\ b.at = "begin"
           /\ Awaits(a, b)
<1>1. /\ call \in Frames /\ call.indent = 2 * (d - 1)
      /\ call.m \in Nat /\ call.n \in Nat /\ call.indent \in Nat
  BY FrameType DEF FrameAt
<1>2. /\ call.indent + 2 \in Nat /\ call.indent + 2 = 2 * ((d + 1) - 1)
      /\ call.m - 1 \in Nat /\ call.at # "close"
  BY <1>1
<1>3. CASE call.n = 0
  <2> DEFINE a == [call EXCEPT !.at = "last"]
             b == Call(call.m - 1, 1, call.indent + 2)
  <2>1. AfterBegin(call) = <<a, b>> BY <1>3 DEF AfterBegin
  <2>2. /\ a \in Frames /\ a.at = "last" /\ a.m = call.m /\ a.n = call.n
        /\ a.indent = call.indent
    BY <1>1, <1>2, FrameAwaits
  <2>3. /\ b \in Frames /\ b.at = "begin" /\ b.m = call.m - 1 /\ b.n = 1
        /\ b.indent = call.indent + 2
    <3> DEFINE l == call.m - 1
               e == call.indent + 2
               c == Call(l, 1, e)
    <3>1. l \in Nat /\ e \in Nat /\ 1 \in Nat BY <1>1, <1>2
    <3> HIDE DEF l, e
    <3>2. c \in Frames /\ c.at = "begin" /\ c.m = l /\ c.n = 1 /\ c.indent = e
      BY <3>1, CallIs
    <3> QED BY <3>2 DEF l, e
  <2>4. Ack(call.m, call.n) = Ack(call.m - 1, 1) BY <1>1, <1>3, AckIs
  <2> HIDE DEF a, b
  <2>5. Awaits(a, b) BY <2>2, <2>3, <2>4 DEF Awaits
  <2>6. FrameAt(a, d) /\ FrameAt(b, d + 1) BY <1>1, <1>2, <2>2, <2>3 DEF FrameAt
  <2> QED BY <2>1, <2>2, <2>3, <2>5, <2>6
<1>4. CASE call.n # 0
  <2> DEFINE a == [call EXCEPT !.at = "inner"]
             b == Call(call.m, call.n - 1, call.indent + 2)
  <2>1. AfterBegin(call) = <<a, b>> BY <1>4 DEF AfterBegin
  <2>2. /\ a \in Frames /\ a.at = "inner" /\ a.m = call.m /\ a.n = call.n
        /\ a.indent = call.indent
    BY <1>1, <1>2, FrameAwaits
  <2>3. call.n - 1 \in Nat BY <1>1, <1>4
  <2>4. /\ b \in Frames /\ b.at = "begin" /\ b.m = call.m
        /\ b.n = call.n - 1 /\ b.indent = call.indent + 2
    <3> DEFINE l == call.n - 1
               e == call.indent + 2
               c == Call(call.m, l, e)
    <3>1. l \in Nat /\ e \in Nat BY <1>2, <2>3
    <3> HIDE DEF l, e
    <3>2. /\ c \in Frames /\ c.at = "begin" /\ c.m = call.m /\ c.n = l
          /\ c.indent = e
      <4>1. call.m \in Nat BY <1>1
      <4> QED BY ONLY <3>1, <4>1, CallIs
    <3> QED BY <3>2 DEF l, e
  <2> HIDE DEF a, b
  <2>5. Awaits(a, b) BY <1>4, <2>2, <2>4 DEF Awaits
  <2>6. FrameAt(a, d) /\ FrameAt(b, d + 1) BY <1>1, <1>2, <2>2, <2>4 DEF FrameAt
  <2> QED BY <2>1, <2>2, <2>4, <2>5, <2>6
<1> QED BY <1>3, <1>4

LEMMA BeginKept ==
  ASSUME AckInv, Begin
  PROVE  AckInv'
<1> DEFINE below == Below
           top   == Top
           line  == Line(top, Unknown)
           d     == Len(below) + 1
<1>1. /\ calls # <<>> /\ top.at = "begin" /\ top.m # 0
      /\ lines' = Append(lines, line) /\ calls' = below \o AfterBegin(top)
      /\ answer' = answer
  BY DEF Begin, write_text
<1>2. /\ lines \in Seq(AckLines) /\ Right(lines) /\ OpenFor(below, OpenNow)
  BY <1>1 DEF AckInv, OpenNow
<1>3. /\ Chain(below) /\ FrameAt(top, d) /\ answer = <<>>
      /\ below # <<>> => Awaits(below[Len(below)], top)
  BY <1>1, TopIs
<1> HIDE DEF below, top
<1>4. below \in Seq(Frames) /\ top \in Frames BY <1>3 DEF Chain, FrameAt
<1>5. d \in Nat /\ d + 1 = Len(below) + 2 BY <1>4
<1>6. Unknown \in Int BY DEF Unknown
<1>7. line \in AckLines /\ line.result = Unknown BY <1>4, <1>6, AckLineIs
<1>8. PICK a, b : /\ AfterBegin(top) = <<a, b>>
                  /\ FrameAt(a, d) /\ a.m = top.m /\ a.n = top.n
                  /\ a.indent = top.indent
                  /\ FrameAt(b, d + 1) /\ b.at = "begin"
                  /\ Awaits(a, b)
  <2> HIDE DEF d
  <2> QED BY <1>1, <1>3, <1>5, AfterBeginIs
<1>9. below # <<>> => Awaits(below[Len(below)], a)
  BY <1>3, <1>8 DEF Awaits
<1>10. FrameAt(b, Len(below) + 2) BY <1>5, <1>8
<1>11. /\ Chain(calls') /\ calls' # <<>>
       /\ calls'[Len(calls')] = b
       /\ SubSeq(calls', 1, Len(calls') - 1) = Append(below, a)
  <2>1. calls' = below \o <<a, b>> BY <1>1, <1>8
  <2> QED BY <1>3, <1>8, <1>9, <1>10, <2>1, ChainTwo
<1>12. Line(a, Unknown) = line BY <1>8 DEF Line
<1> HIDE DEF line
<1>13. /\ lines' \in Seq(AckLines) /\ Right(lines)'
       /\ OpenNow' = OpenAfter(line, OpenNow)
  <2>1. RightAfter(line, OpenNow) BY <1>7 DEF RightAfter
  <2> QED BY <1>1, <1>2, <1>7, <2>1, Written
<1>14. OpenNow' = Append(OpenNow, line) BY <1>7, <1>13 DEF OpenAfter
<1>15. OpenFor(Append(below, a), OpenNow')
  <2>1. a \in Frames BY <1>8 DEF FrameAt
  <2>2. OpenFor(Append(below, a), Append(OpenNow, Line(a, Unknown)))
    BY <1>2, <1>4, <1>7, <1>12, <2>1, OpenForAppend
  <2> QED BY <1>12, <1>14, <2>2
<1>16. Top'.at = "begin" /\ OpenFor(Below', OpenNow')
  BY <1>8, <1>11, <1>15 DEF Top, Below
<1>17. answer' = <<>> BY <1>1, <1>3
<1> QED BY <1>11, <1>13, <1>16, <1>17 DEF AckInv, OpenNow

(* What the result of a call makes of the one that awaits it: it awaits    *)
(* the other call, or has its own result.                                  *)
LEMMA ReturnedInner ==
  ASSUME NEW rest, Chain(rest), NEW caller, FrameAt(caller, Len(rest) + 1),
         rest # <<>> => Awaits(rest[Len(rest)], caller), caller.at = "inner",
         NEW top, Awaits(caller, top), NEW r \in Nat, r = Ack(top.m, top.n),
         NEW open, OpenFor(Append(rest, caller), open),
         NEW new, new = rest \o <<[caller EXCEPT !.at = "last"],
                                  Call(caller.m - 1, r, caller.indent + 2)>>
  PROVE  /\ Chain(new) /\ new # <<>> /\ new[Len(new)].at = "begin"
         /\ OpenFor(SubSeq(new, 1, Len(new) - 1), open)
<1> DEFINE l == caller.m - 1
           e == caller.indent + 2
           d == Len(rest) + 1
           a == [caller EXCEPT !.at = "last"]
           b == Call(l, r, e)
<1>1. /\ caller \in Frames /\ rest \in Seq(Frames) /\ Len(rest) \in Nat
      /\ caller.indent = 2 * (d - 1) /\ caller.m # 0
  BY DEF FrameAt, Chain
<1>2. /\ caller.m \in Nat /\ caller.n \in Nat /\ caller.indent \in Nat
      /\ caller.at # "close"
  BY <1>1, FrameType
<1>3. /\ a \in Frames /\ a.at = "last" /\ a.m = caller.m /\ a.n = caller.n
      /\ a.indent = caller.indent
  BY <1>1, <1>2, FrameAwaits
<1>4. /\ l \in Nat /\ e \in Nat /\ d \in Nat /\ e = 2 * ((d + 1) - 1)
      /\ d + 1 = Len(rest) + 2
  BY <1>1, <1>2
<1>5. new = rest \o <<a, b>> OBVIOUS
<1>6. l = caller.m - 1 OBVIOUS
<1> HIDE DEF a, l, e
<1>7. b \in Frames /\ b.at = "begin" /\ b.m = l /\ b.n = r /\ b.indent = e
  <2>1. r \in Nat OBVIOUS
  <2> QED BY ONLY <1>4, <2>1, CallIs
<1> HIDE DEF b
<1>8. Ack(l, r) = Ack(caller.m, caller.n)
  <2>1. caller.n # 0 /\ top.m = caller.m /\ top.n = caller.n - 1
    BY DEF Awaits
  <2>2. r = Ack(caller.m, caller.n - 1) BY <2>1
  <2> QED BY <1>1, <1>2, <1>6, <2>1, <2>2, AckIs
<1>9. Awaits(a, b) BY <1>3, <1>6, <1>7, <1>8 DEF Awaits
<1>10. FrameAt(a, d) BY <1>1, <1>3 DEF FrameAt
<1>11. FrameAt(b, Len(rest) + 2) BY <1>4, <1>7 DEF FrameAt
<1>12. rest # <<>> => Awaits(rest[Len(rest)], a) BY <1>3 DEF Awaits
<1>13. /\ Chain(new) /\ new # <<>> /\ new[Len(new)] = b
       /\ SubSeq(new, 1, Len(new) - 1) = Append(rest, a)
  <2> DEFINE two == rest \o <<a, b>>
  <2>1. FrameAt(a, Len(rest) + 1) BY <1>10
  <2>2. Chain(rest) OBVIOUS
  <2>3. /\ Chain(two) /\ two # <<>> /\ two[Len(two)] = b
        /\ SubSeq(two, 1, Len(two) - 1) = Append(rest, a)
    BY ONLY <1>9, <1>11, <1>12, <2>1, <2>2, ChainTwo
  <2> HIDE DEF two
  <2>4. new = two BY <1>5 DEF two
  <2> QED BY <2>3, <2>4
<1>14. Line(caller, Unknown) = Line(a, Unknown) BY <1>3 DEF Line
<1>15. OpenFor(Append(rest, a), open) BY <1>1, <1>3, <1>14, OpenForSame
<1> QED BY <1>7, <1>13, <1>15

LEMMA ReturnedLast ==
  ASSUME NEW rest, Chain(rest), NEW caller, FrameAt(caller, Len(rest) + 1),
         rest # <<>> => Awaits(rest[Len(rest)], caller), caller.at = "last",
         NEW top, Awaits(caller, top), NEW r \in Nat, r = Ack(top.m, top.n),
         NEW open, OpenFor(Append(rest, caller), open),
         NEW new, new = Append(rest, Closed(caller, r))
  PROVE  /\ Chain(new) /\ new # <<>>
         /\ new[Len(new)].at = "close"
         /\ new[Len(new)].r = Ack(new[Len(new)].m, new[Len(new)].n)
         /\ OpenFor(new, open)
<1> DEFINE a == Closed(caller, r)
           d == Len(rest) + 1
<1>1. /\ caller \in Frames /\ rest \in Seq(Frames)
      /\ caller.indent = 2 * (d - 1) /\ caller.m # 0
  BY DEF FrameAt, Chain
<1>2. /\ a \in Frames /\ a.at = "close" /\ a.r = r /\ a.m = caller.m
      /\ a.n = caller.n /\ a.indent = caller.indent
  BY <1>1, ClosedIs
<1>3. new = Append(rest, a) OBVIOUS
<1> HIDE DEF a
<1>4. r = Ack(caller.m, caller.n) BY DEF Awaits
<1>5. FrameAt(a, d) BY <1>1, <1>2 DEF FrameAt
<1>6. rest # <<>> => Awaits(rest[Len(rest)], a) BY <1>2 DEF Awaits
<1>7. Chain(new) /\ new # <<>> /\ new[Len(new)] = a
  BY <1>3, <1>5, <1>6, ChainAppend
<1>8. Line(caller, Unknown) = Line(a, Unknown) BY <1>2 DEF Line
<1>9. OpenFor(new, open) BY <1>1, <1>2, <1>3, <1>8, OpenForSame
<1> QED BY <1>2, <1>4, <1>7, <1>9

LEMMA ReturnsKept ==
  ASSUME AckInv, calls # <<>>, NEW r \in Nat, r = Ack(Top.m, Top.n),
         Returns(r), RightAfter(Line(Top, r), OpenNow),
         OpenFor(Below, OpenAfter(Line(Top, r), OpenNow))
  PROVE  AckInv'
<1> DEFINE below == Below
           top   == Top
           line  == Line(top, r)
<1>1. lines \in Seq(AckLines) /\ Right(lines) BY DEF AckInv
<1>2. /\ Chain(below) /\ FrameAt(top, Len(below) + 1) /\ answer = <<>>
      /\ below # <<>> => Awaits(below[Len(below)], top)
  BY TopIs
<1>3. /\ lines' = Append(lines, line) /\ calls' = Returned(r)
      /\ answer' = IF below = <<>> THEN <<r>> ELSE answer
  BY DEF Returns, write_text
<1>4. line \in AckLines /\ line.result = r
  <2>1. top \in Frames BY <1>2 DEF FrameAt
  <2> HIDE DEF top
  <2> QED BY <2>1, AckLineIs
<1>5. /\ lines' \in Seq(AckLines) /\ Right(lines)' /\ lines'[Len(lines')] = line
      /\ OpenNow' = OpenAfter(line, OpenNow)
  <2> HIDE DEF line
  <2>1. RightAfter(line, OpenNow) BY DEF line
  <2> QED BY <1>1, <1>3, <1>4, <2>1, Written
<1>6. OpenFor(below, OpenNow') BY <1>5
<1>7. CASE below = <<>>
  <2>1. calls' = <<>> /\ answer' = <<r>> BY <1>3, <1>7 DEF Returned
  <2>2. Chain(calls')
    <3>1. Chain(below) BY <1>2
    <3> QED BY <1>7, <2>1, <3>1
  <2>3. OpenFor(calls', OpenNow') BY <1>6, <1>7, <2>1
  <2>4. answer' = <<lines'[Len(lines')].result>> BY <1>4, <1>5, <2>1
  <2> HIDE DEF line, below, top
  <2> QED BY <1>5, <2>1, <2>2, <2>3, <2>4 DEF AckInv, OpenNow
<1>8. CASE below # <<>>
  <2> DEFINE n      == Len(below)
             caller == below[n]
             rest   == SubSeq(below, 1, n - 1)
  <2>1. calls' = IF caller.at = "inner"
                 THEN rest \o <<[caller EXCEPT !.at = "last"],
                                Call(caller.m - 1, r, caller.indent + 2)>>
                 ELSE Append(rest, Closed(caller, r))
    BY <1>3, <1>8, Zenon DEF Returned, Closed
  <2> HIDE DEF below, top
  <2>2. /\ Chain(rest) /\ Len(rest) = n - 1 /\ FrameAt(caller, n)
        /\ below = Append(rest, caller)
        /\ rest # <<>> => Awaits(rest[Len(rest)], caller)
    BY <1>2, <1>8, ChainFront
  <2>3. Awaits(caller, top) BY <1>2, <1>8
  <2>4. FrameAt(caller, Len(rest) + 1)
    <3>1. n \in Nat BY <1>2 DEF Chain
    <3>2. Len(rest) + 1 = n BY <2>2, <3>1
    <3> QED BY <2>2, <3>2
  <2>5. answer' = <<>> BY <1>2, <1>3, <1>8
  <2>6. r = Ack(top.m, top.n) BY DEF top
  <2> HIDE DEF caller, rest
  <2>7. OpenFor(Append(rest, caller), OpenNow') BY <1>6, <2>2
  <2>8. CASE caller.at = "inner"
    <3>1. /\ Chain(calls') /\ calls' # <<>> /\ calls'[Len(calls')].at = "begin"
          /\ OpenFor(SubSeq(calls', 1, Len(calls') - 1), OpenNow')
      BY <2>1, <2>2, <2>3, <2>4, <2>6, <2>7, <2>8, ReturnedInner
    <3>2. Top'.at = "begin" /\ OpenFor(Below', OpenNow')
      BY <3>1 DEF Top, Below
    <3> QED BY <1>5, <2>5, <3>1, <3>2 DEF AckInv, OpenNow
  <2>9. CASE caller.at # "inner"
    <3>1. caller.at = "last" BY <2>3, <2>9 DEF Awaits
    <3>2. calls' = Append(rest, Closed(caller, r)) BY <2>1, <2>9
    <3>3. /\ Chain(calls') /\ calls' # <<>> /\ calls'[Len(calls')].at = "close"
          /\ calls'[Len(calls')].r =
               Ack(calls'[Len(calls')].m, calls'[Len(calls')].n)
          /\ OpenFor(calls', OpenNow')
      <4>1. r \in Nat OBVIOUS
      <4>2. Chain(rest) /\ (rest # <<>> => Awaits(rest[Len(rest)], caller))
        BY <2>2
      <4> QED BY ONLY <2>3, <2>4, <2>6, <2>7, <3>1, <3>2, <4>1, <4>2,
                      ReturnedLast
    <3>4. Top'.at = "close" /\ Top'.r = Ack(Top'.m, Top'.n)
      BY <3>3 DEF Top
    <3> QED BY <1>5, <2>5, <3>3, <3>4 DEF AckInv, OpenNow
  <2> QED BY <2>8, <2>9
<1> QED BY <1>7, <1>8

LEMMA LeafKept ==
  ASSUME AckInv, Leaf
  PROVE  AckInv'
<1> DEFINE below == Below
           top   == Top
           r     == top.n + 1
           line  == Line(top, r)
<1>1. calls # <<>> /\ top.at = "begin" /\ top.m = 0 /\ Returns(r)
  BY DEF Leaf
<1>2. lines \in Seq(AckLines) /\ OpenFor(below, OpenNow)
  BY <1>1 DEF AckInv, OpenNow
<1>3. Chain(below) /\ FrameAt(top, Len(below) + 1) BY <1>1, TopIs
<1> HIDE DEF below, top
<1>4. top \in Frames /\ top.indent = 2 * Len(below)
  <2>1. below \in Seq(Frames) /\ Len(below) \in Nat BY <1>3 DEF Chain
  <2> QED BY <1>3, <2>1 DEF FrameAt
<1>5. r \in Nat /\ r = Ack(top.m, top.n)
  <2>1. top.m \in Nat /\ top.n \in Nat BY <1>4, FrameType
  <2>2. Ack(top.m, top.n) = top.n + 1 BY <1>1, <2>1, AckIs
  <2> QED BY <2>1, <2>2
<1>6. r # Unknown /\ r \in Int BY <1>5 DEF Unknown
<1> HIDE DEF r
<1>7. /\ line.m = top.m /\ line.n = top.n /\ line.indent = top.indent
      /\ line.result = r
  BY <1>4, <1>6, AckLineIs
<1> HIDE DEF line
<1>8. OpenAfter(line, OpenNow) = OpenNow BY <1>1, <1>6, <1>7 DEF OpenAfter
<1>9. RightAfter(line, OpenNow)
  <2>1. Len(OpenNow) = Len(below) /\ Len(below) \in Nat
    BY <1>2, <1>3 DEF OpenFor, Chain
  <2> QED BY <1>1, <1>4, <1>5, <1>7, <2>1 DEF RightAfter
<1> QED BY <1>1, <1>2, <1>5, <1>8, <1>9, ReturnsKept DEF line, top, below

LEMMA CloseKept ==
  ASSUME AckInv, Close
  PROVE  AckInv'
<1> DEFINE below == Below
           top   == Top
           r     == top.r
           line  == Line(top, r)
<1>1. calls # <<>> /\ top.at = "close" /\ Returns(r) BY DEF Close
<1>2. /\ lines \in Seq(AckLines) /\ r = Ack(top.m, top.n)
      /\ OpenFor(calls, OpenNow)
  BY <1>1 DEF AckInv, OpenNow
<1>3. Chain(below) /\ FrameAt(top, Len(below) + 1) /\ calls = Append(below, top)
  BY <1>1, TopIs
<1> HIDE DEF below, top
<1>4. /\ top \in Frames /\ top.indent = 2 * Len(below) /\ top.m # 0
      /\ below \in Seq(Frames) /\ Len(below) \in Nat
  <2>1. below \in Seq(Frames) /\ Len(below) \in Nat BY <1>3 DEF Chain
  <2> QED BY <1>1, <1>3, <2>1 DEF FrameAt
<1>5. r \in Nat BY <1>1, <1>4, FrameType
<1>6. r # Unknown /\ r \in Int BY <1>5 DEF Unknown
<1> HIDE DEF r
<1>7. /\ line.m = top.m /\ line.n = top.n /\ line.indent = top.indent
      /\ line.result = r
  BY <1>4, <1>6, AckLineIs
<1>8. /\ OpenFor(below, SubSeq(OpenNow, 1, Len(OpenNow) - 1))
      /\ Len(OpenNow) = Len(below) + 1
      /\ OpenNow[Len(OpenNow)] = Line(top, Unknown)
  BY <1>2, <1>3, <1>4, OpenForFront
<1>9. line = Line(Line(top, Unknown), r) BY DEF Line
<1> HIDE DEF line
<1>10. OpenAfter(line, OpenNow) = SubSeq(OpenNow, 1, Len(OpenNow) - 1)
  BY <1>4, <1>6, <1>7 DEF OpenAfter
<1>11. RightAfter(line, OpenNow)
  BY <1>2, <1>4, <1>7, <1>8, <1>9 DEF RightAfter
<1> QED BY <1>1, <1>2, <1>5, <1>8, <1>10, <1>11, ReturnsKept
        DEF line, top, below, r

LEMMA RequestKept ==
  ASSUME AckInv, ackermann_handler
  PROVE  AckInv'
<1>1. PICK request \in AckRequests :
        calls' = <<Call(request[1], request[2], 0)>>
  BY DEF ackermann_handler
<1>2. calls = <<>> /\ answer = <<>> /\ lines' = lines /\ answer' = answer
  BY DEF ackermann_handler
<1>3. request[1] \in Nat /\ request[2] \in Nat BY AckAssumption
<1> DEFINE c == Call(request[1], request[2], 0)
<1>4. c \in Frames /\ c.at = "begin" /\ c.indent = 0 BY <1>3, CallIs
<1>5. calls' = Append(<<>>, c) BY <1>1
<1> HIDE DEF c
<1>6. Chain(<<>>) /\ OpenFor(<<>>, OpenNow) BY <1>2 DEF AckInv, OpenNow
<1>7. FrameAt(c, Len(<<>>) + 1) BY <1>4 DEF FrameAt
<1>8. /\ Chain(calls') /\ calls' # <<>> /\ calls'[Len(calls')] = c
      /\ SubSeq(calls', 1, Len(calls') - 1) = <<>>
  BY <1>5, <1>6, <1>7, ChainAppend
<1>9. Top'.at = "begin" /\ OpenFor(Below', OpenNow')
  BY <1>2, <1>4, <1>6, <1>8 DEF Top, Below, OpenNow
<1> QED BY <1>2, <1>8, <1>9 DEF AckInv, OpenNow, Right

(* Every line with a result has the value of the reference implementation, *)
(* and closes the line that is open with its arguments and indentation,    *)
(* for any arguments and however deep the recursion goes.                  *)
THEOREM AckCorrect == AckSpec => []AckAsReference
<1>1. AckInit => AckInv
  <2> SUFFICES ASSUME AckInit PROVE AckInv OBVIOUS
  <2>1. calls = <<>> /\ lines = <<>> /\ answer = <<>> BY DEF AckInit
  <2>2. lines \in Seq(AckLines) /\ Len(lines) = 0 BY <2>1
  <2>3. OpenOf(lines)[Len(lines)] = <<>> BY <2>2, OpenOfIs
  <2>4. Chain(<<>>) BY DEF Chain
  <2>5. OpenFor(<<>>, <<>>) BY DEF OpenFor, Opens
  <2> QED BY <2>1, <2>2, <2>3, <2>4, <2>5 DEF AckInv, Right
<1>2. AckInv /\ [AckNext]_ackVars => AckInv'
  <2> SUFFICES ASSUME AckInv, [AckNext]_ackVars PROVE AckInv' OBVIOUS
  <2>1. CASE UNCHANGED ackVars
    BY <2>1 DEF AckInv, ackVars, Top, Below, Right
  <2>2. CASE Take \/ SendLine
    <3>1. calls' = calls /\ lines' = lines /\ answer' = answer
      BY <2>2 DEF Take, SendLine
    <3> QED BY <3>1 DEF AckInv, Top, Below, Right
  <2> QED BY <2>1, <2>2, RequestKept, BeginKept, LeafKept, CloseKept
          DEF AckNext, async_ack
<1>3. AckInv => AckAsReference
  <2> SUFFICES ASSUME AckInv PROVE AckAsReference OBVIOUS
  <2>1. lines \in Seq(AckLines) /\ Right(lines) BY DEF AckInv
  <2>2. \A k \in 1 .. Len(lines) : OpenLines[k - 1] = OpenOf(lines)[k - 1]
    <3>1. \A k \in 1 .. Len(lines) : k - 1 \in 0 .. Len(lines) BY <2>1
    <3> QED BY <2>1, <3>1, OpenLinesAre
  <2>3. \A k \in 1 .. Len(lines) : RightAfter(lines[k], OpenLines[k - 1])
    BY <2>1, <2>2 DEF Right
  <2> QED BY <2>3 DEF AckInv, AckAsReference, RightAfter, Ack
<1> QED BY <1>1, <1>2, <1>3, PTL DEF AckSpec

-----------------------------------------------------------------------------
(* The Mermaid canvas.                                                      *)

Entries == {Create(i) : i \in Nat} \cup {Destroy(i) : i \in Nat}
           \cup {Arrow(i, j) : i \in Nat, j \in Nat}

Pages == [there : SUBSET Nat, ever : SUBSET Nat, leaving : SUBSET Nat,
          ok : BOOLEAN]

LEMMA EntryIs ==
  ASSUME NEW i \in Nat, NEW j \in Nat
  PROVE  /\ {Create(i), Destroy(i), Arrow(i, j)} \subseteq Entries
         /\ Create(i).do = "create" /\ Create(i).of = i
         /\ Destroy(i).do = "destroy" /\ Destroy(i).of = i
         /\ Arrow(i, j).do = "arrow" /\ Arrow(i, j).from = i
         /\ Arrow(i, j).to = j
BY DEF Entries, Create, Destroy, Arrow

(* What a line makes of a page.                                            *)
LEMMA ReadCreate ==
  ASSUME NEW page \in Pages, NEW i \in Nat
  PROVE  LET new == Read(Create(i), page)
         IN /\ new \in Pages
            /\ new.there = page.there \cup {i} /\ new.ever = page.ever \cup {i}
            /\ new.leaving = page.leaving
            /\ page.ok /\ i \notin page.ever /\ page.leaving = {} => new.ok
BY DEF Read, Create, Pages

LEMMA ReadDestroy ==
  ASSUME NEW page \in Pages, NEW i \in Nat
  PROVE  LET new == Read(Destroy(i), page)
         IN /\ new \in Pages
            /\ new.there = page.there /\ new.ever = page.ever
            /\ new.leaving = {i}
            /\ page.ok /\ i \in page.there /\ page.leaving = {} => new.ok
BY DEF Read, Destroy, Pages

(* An arrow is between those who are there, and of him who leaves.         *)
Allowed(page, i, j) ==
  /\ page.ok
  /\ i \in page.there /\ j \in page.there
  /\ \A p \in page.leaving : p = i \/ p = j

LEMMA ReadArrow ==
  ASSUME NEW page \in Pages, NEW i \in Nat, NEW j \in Nat,
         NEW new, new = Read(Arrow(i, j), page)
  PROVE  /\ new \in Pages
         /\ new.there = page.there \ page.leaving
         /\ new.ever = page.ever
         /\ new.leaving = {}
BY DEF Read, Arrow, Pages

LEMMA ReadAllowed ==
  ASSUME NEW page \in Pages, NEW i \in Nat, NEW j \in Nat, Allowed(page, i, j)
  PROVE  Read(Arrow(i, j), page).ok
BY DEF Read, Arrow, Pages, Allowed

LEMMA ReadType ==
  ASSUME NEW line \in Entries, NEW page \in Pages
  PROVE  Read(line, page) \in Pages
BY ReadCreate, ReadDestroy, ReadArrow DEF Entries

-----------------------------------------------------------------------------
(* The page after some diagram, as a fold.                                   *)
Reader == [line \in Entries |-> [page \in Pages |-> Read(line, page)]]

PageOf(diagram) == Folded(Pages, Blank, Reader, diagram)[Len(diagram)]

LEMMA ReaderIs ==
  /\ Blank \in Pages
  /\ Reader \in [Entries -> [Pages -> Pages]]
  /\ \A line \in Entries, page \in Pages : Reader[line][page] = Read(line, page)
<1>1. Blank \in Pages BY DEF Blank, Pages
<1>2. Reader \in [Entries -> [Pages -> Pages]]
  <2>1. \A line \in Entries, page \in Pages : Read(line, page) \in Pages
    BY ReadType
  <2> QED BY <2>1 DEF Reader
<1> QED BY <1>1, <1>2 DEF Reader

LEMMA PageOfType ==
  ASSUME NEW diagram \in Seq(Entries)
  PROVE  PageOf(diagram) \in Pages
<1>1. Folded(Pages, Blank, Reader, diagram) \in [0 .. Len(diagram) -> Pages]
  BY ReaderIs, FoldedIs
<1>2. Len(diagram) \in 0 .. Len(diagram) OBVIOUS
<1> QED BY <1>1, <1>2 DEF PageOf

LEMMA PageOfNone == PageOf(<<>>) = Blank
<1>1. <<>> \in Seq(Entries) /\ Len(<<>>) = 0 OBVIOUS
<1>2. Folds(Folded(Pages, Blank, Reader, <<>>), Blank, Reader, <<>>)
  BY <1>1, ReaderIs, FoldedIs
<1> QED BY <1>1, <1>2 DEF PageOf, Folds

(* A line more is read after those before it.                              *)
LEMMA PageOfAppend ==
  ASSUME NEW diagram \in Seq(Entries), NEW line \in Entries
  PROVE  PageOf(Append(diagram, line)) = Read(line, PageOf(diagram))
<1> DEFINE n   == Len(diagram)
           old == Folded(Pages, Blank, Reader, diagram)
           new == Folded(Pages, Blank, Reader, Append(diagram, line))
<1>1. new[n + 1] = Reader[line][old[n]] BY ReaderIs, FoldedAppend
<1>2. old[n] \in Pages BY PageOfType DEF PageOf
<1>3. Len(Append(diagram, line)) = n + 1 OBVIOUS
<1> HIDE DEF old, new, n
<1>4. new[n + 1] = Read(line, old[n]) BY <1>1, <1>2, ReaderIs
<1> QED BY <1>3, <1>4 DEF PageOf, old, new, n

LEMMA PageAfterLast ==
  ASSUME contents \in Seq(Entries)
  PROVE  PageAfter[Len(contents)] = PageOf(contents)
<1> DEFINE n    == Len(contents)
           g    == Folded(Pages, Blank, Reader, contents)
           h(f) == [k \in 0 .. n |-> IF k = 0 THEN Blank
                                     ELSE Read(contents[k], f[k - 1])]
<1>1. n \in Nat /\ \A k \in 1 .. n : contents[k] \in Entries OBVIOUS
<1>2. g \in [0 .. n -> Pages] /\ Folds(g, Blank, Reader, contents)
  BY ReaderIs, FoldedIs
<1> HIDE DEF g
<1>3. g = h(g)
  <2>1. \A k \in 1 .. n : g[k - 1] \in Pages
    <3>1. \A k \in 1 .. n : k - 1 \in 0 .. n BY <1>1
    <3> QED BY <1>2, <3>1
  <2>2. \A k \in 1 .. n : g[k] = Read(contents[k], g[k - 1])
    BY <1>1, <1>2, <2>1, ReaderIs DEF Folds
  <2>3. \A k \in 0 .. n : g[k] = IF k = 0 THEN Blank
                                 ELSE Read(contents[k], g[k - 1])
    BY <1>1, <1>2, <2>2 DEF Folds
  <2> QED BY <1>2, <2>3
<1>4. PageAfter = h(PageAfter)
  <2>1. PageAfter = CHOOSE f : f = h(f) BY Zenon DEF PageAfter
  <2> HIDE DEF h
  <2> QED BY <1>3, <2>1
<1>5. ASSUME NEW k \in 0 .. n - 1, PageAfter[k] = g[k]
      PROVE  PageAfter[k + 1] = g[k + 1]
  <2>1. k + 1 \in 0 .. n /\ k + 1 # 0 /\ (k + 1) - 1 = k BY <1>1
  <2>2. /\ PageAfter[k + 1] = Read(contents[k + 1], PageAfter[(k + 1) - 1])
        /\ g[k + 1] = Read(contents[k + 1], g[(k + 1) - 1])
    BY <1>3, <1>4, <2>1
  <2> QED BY <1>5, <2>1, <2>2
<1>6. PageAfter[0] = g[0]
  <2>1. 0 \in 0 .. n BY <1>1
  <2> QED BY <1>3, <1>4, <2>1
<1> HIDE DEF n, h
<1>7. \A k \in 0 .. n : PageAfter[k] = g[k] BY <1>1, <1>5, <1>6, SameRecursion
<1> QED BY <1>1, <1>7 DEF PageOf, n, g

LEMMA PageOfTwo ==
  ASSUME NEW diagram \in Seq(Entries), NEW one \in Entries, NEW two \in Entries
  PROVE  /\ diagram \o <<one, two>> \in Seq(Entries)
         /\ PageOf(diagram \o <<one, two>>) =
              Read(two, Read(one, PageOf(diagram)))
<1>1. Append(diagram, one) \in Seq(Entries) OBVIOUS
<1>2. diagram \o <<one, two>> = Append(Append(diagram, one), two) OBVIOUS
<1>3. PageOf(Append(diagram, one)) = Read(one, PageOf(diagram)) BY PageOfAppend
<1> DEFINE more == Append(diagram, one)
<1> HIDE DEF more
<1>4. PageOf(Append(more, two)) = Read(two, PageOf(more))
  BY <1>1, PageOfAppend DEF more
<1>5. Append(more, two) \in Seq(Entries) BY <1>1 DEF more
<1> QED BY <1>2, <1>3, <1>4, <1>5 DEF more

-----------------------------------------------------------------------------
(* Nobody is about to leave between two diagram of the program, and the      *)
(* names of those who were there are the numbers so far.                   *)
CanvasInv ==
  /\ last \in Nat
  /\ living \subseteq 1 .. last
  /\ contents \in Seq(Entries)
  /\ LET page == PageOf(contents)
     IN /\ page.ok
        /\ page.leaving = {}
        /\ page.there = living \cup {0}
        /\ page.ever = 0 .. last

LEMMA CanvasInvKept ==
  ASSUME CanvasInv, [CanvasNext]_canvasVars
  PROVE  CanvasInv'
<1> DEFINE page == PageOf(contents)
<1>1. /\ last \in Nat /\ living \subseteq 1 .. last /\ contents \in Seq(Entries)
      /\ page.ok /\ page.leaving = {} /\ page.there = living \cup {0}
      /\ page.ever = 0 .. last /\ page \in Pages
  BY PageOfType DEF CanvasInv
<1> HIDE DEF page
<1>2. CASE new_participant
  <2> DEFINE i == last + 1
             one == Read(Create(i), page)
             two == Read(Arrow(0, i), one)
  <2>1. i \in Nat /\ i \notin 0 .. last /\ 0 .. i = 0 .. last \cup {i}
        /\ 1 .. i = 1 .. last \cup {i} /\ 0 \in Nat
    BY <1>1
  <2>2. last' = i /\ living' = living \cup {i}
        /\ contents' = contents \o <<Create(i), Arrow(0, i)>>
    BY <1>2 DEF new_participant
  <2> HIDE DEF i
  <2>3. contents' \in Seq(Entries) /\ PageOf(contents)' = two
    <3>1. Create(i) \in Entries /\ Arrow(0, i) \in Entries BY <2>1, EntryIs
    <3> QED BY <1>1, <2>2, <3>1, PageOfTwo DEF page
  <2>4. /\ one \in Pages /\ one.there = page.there \cup {i}
        /\ one.ever = page.ever \cup {i} /\ one.leaving = {} /\ one.ok
    BY <1>1, <2>1, ReadCreate
  <2> HIDE DEF one
  <2>5. /\ two.there = one.there /\ two.ever = one.ever /\ two.leaving = {}
        /\ two.ok
    <3>1. Allowed(one, 0, i) BY <1>1, <2>4 DEF Allowed
    <3>2. /\ two.there = one.there \ one.leaving /\ two.ever = one.ever
          /\ two.leaving = {} /\ two.ok
      <4>1. 0 \in Nat /\ one \in Pages BY <2>4
      <4>2. i \in Nat BY <2>1
      <4>3. two.there = one.there \ one.leaving /\ two.ever = one.ever
            /\ two.leaving = {}
        <5>1. two = Read(Arrow(0, i), one) OBVIOUS
        <5> HIDE DEF two
        <5> QED BY ONLY <4>1, <4>2, <5>1, ReadArrow
      <4>4. two.ok BY ONLY <3>1, <4>1, <4>2, ReadAllowed, Zenon
      <4> QED BY <4>3, <4>4
    <3> QED BY <2>4, <3>2
  <2> HIDE DEF two
  <2> QED BY <1>1, <2>1, <2>2, <2>3, <2>4, <2>5 DEF CanvasInv
<1>3. ASSUME NEW i \in 1 .. MaxParticipants, NEW j \in 1 .. MaxParticipants,
             add_arrow_to(i, j)
      PROVE  CanvasInv'
  <2> DEFINE new == Read(Arrow(i, j), page)
  <2>1. /\ last' = last /\ living' = living
        /\ contents' = Append(contents, Arrow(i, j)) /\ {i, j} \subseteq living
    BY <1>3 DEF add_arrow_to
  <2>2. i \in Nat /\ j \in Nat OBVIOUS
  <2>3. contents' \in Seq(Entries) /\ PageOf(contents)' = new
    <3>1. Arrow(i, j) \in Entries BY <2>2, EntryIs
    <3> QED BY <1>1, <2>1, <3>1, PageOfAppend DEF page
  <2>4. /\ new.there = page.there /\ new.ever = page.ever /\ new.leaving = {}
        /\ new.ok
    <3>1. Allowed(page, i, j) BY <1>1, <2>1 DEF Allowed
    <3>2. /\ new.there = page.there \ page.leaving /\ new.ever = page.ever
          /\ new.leaving = {} /\ new.ok
      <4>1. page \in Pages BY <1>1
      <4>2. new.there = page.there \ page.leaving /\ new.ever = page.ever
            /\ new.leaving = {}
        <5>1. new = Read(Arrow(i, j), page) OBVIOUS
        <5> HIDE DEF new
        <5> QED BY ONLY <2>2, <4>1, <5>1, ReadArrow
      <4>3. new.ok BY ONLY <2>2, <3>1, <4>1, ReadAllowed, Zenon
      <4> QED BY <4>2, <4>3
    <3> QED BY <1>1, <3>2
  <2> HIDE DEF new
  <2> QED BY <1>1, <2>1, <2>3, <2>4 DEF CanvasInv
<1>4. ASSUME NEW i \in 1 .. MaxParticipants, drop(i) PROVE CanvasInv'
  <2> DEFINE one == Read(Destroy(i), page)
             two == Read(Arrow(i, 0), one)
  <2>1. /\ last' = last /\ living' = living \ {i} /\ i \in living
        /\ contents' = contents \o <<Destroy(i), Arrow(i, 0)>>
    BY <1>4 DEF drop
  <2>2. i \in Nat /\ 0 \in Nat /\ i # 0 OBVIOUS
  <2>3. contents' \in Seq(Entries) /\ PageOf(contents)' = two
    <3>1. Destroy(i) \in Entries /\ Arrow(i, 0) \in Entries BY <2>2, EntryIs
    <3> QED BY <1>1, <2>1, <3>1, PageOfTwo DEF page
  <2>4. /\ one \in Pages /\ one.there = page.there /\ one.ever = page.ever
        /\ one.leaving = {i} /\ one.ok
    BY <1>1, <2>1, <2>2, ReadDestroy
  <2> HIDE DEF one
  <2>5. /\ two.there = one.there \ {i} /\ two.ever = one.ever
        /\ two.leaving = {} /\ two.ok
    <3>1. Allowed(one, i, 0) BY <1>1, <2>1, <2>4 DEF Allowed
    <3>2. /\ two.there = one.there \ one.leaving /\ two.ever = one.ever
          /\ two.leaving = {} /\ two.ok
      <4>1. 0 \in Nat /\ one \in Pages BY <2>4
      <4>2. i \in Nat BY <2>2
      <4>3. two.there = one.there \ one.leaving /\ two.ever = one.ever
            /\ two.leaving = {}
        <5>1. two = Read(Arrow(i, 0), one) OBVIOUS
        <5> HIDE DEF two
        <5> QED BY ONLY <4>1, <4>2, <5>1, ReadArrow
      <4>4. two.ok BY ONLY <3>1, <4>1, <4>2, ReadAllowed, Zenon
      <4> QED BY <4>3, <4>4
    <3> QED BY <2>4, <3>2
  <2> HIDE DEF two
  <2> QED BY <1>1, <2>1, <2>2, <2>3, <2>4, <2>5 DEF CanvasInv
<1>5. CASE UNCHANGED canvasVars BY <1>5 DEF CanvasInv, canvasVars
<1> QED BY <1>2, <1>3, <1>4, <1>5 DEF CanvasNext

(* A diagram is readable at any time, whatever is created, linked and      *)
(* dropped and in whatever order, for any number of participants.          *)
THEOREM DiagramCorrect == CanvasSpec => []DiagramReadable
<1>1. CanvasInit => CanvasInv
  <2> SUFFICES ASSUME CanvasInit PROVE CanvasInv OBVIOUS
  <2>1. /\ last = 0 /\ living = {} /\ contents = Append(<<>>, Create(0))
        /\ <<>> \in Seq(Entries) /\ Create(0) \in Entries
    BY EntryIs DEF CanvasInit
  <2>2. PageOf(contents) = Read(Create(0), Blank)
    BY <2>1, PageOfAppend, PageOfNone
  <2>3. Blank \in Pages /\ Blank.there = {} /\ Blank.ever = {}
        /\ Blank.leaving = {} /\ Blank.ok
    BY DEF Blank, Pages
  <2>4. contents \in Seq(Entries) BY <2>1
  <2>5. 0 .. 0 = {0} OBVIOUS
  <2> QED BY <2>1, <2>2, <2>3, <2>4, <2>5, ReadCreate DEF CanvasInv
<1>2. CanvasInv /\ [CanvasNext]_canvasVars => CanvasInv' BY CanvasInvKept
<1>3. CanvasInv => DiagramReadable
  BY PageAfterLast, Zenon DEF CanvasInv, DiagramReadable
<1> QED BY <1>1, <1>2, <1>3, PTL DEF CanvasSpec

-----------------------------------------------------------------------------
(* The pieces of a text.                                                   *)
Between(t, separator, a, b) ==
  /\ a \in 0 .. Len(t) /\ b \in a + 1 .. Len(t) + 1
  /\ a = 0 \/ t[a] = separator
  /\ b = Len(t) + 1 \/ t[b] = separator
  /\ \A k \in a + 1 .. b - 1 : t[k] # separator

LEMMA StretchIs ==
  ASSUME NEW S, NEW t \in Seq(S), NEW a \in 0 .. Len(t),
         NEW b \in a + 1 .. Len(t) + 1
  PROVE  LET p == SubSeq(t, a + 1, b - 1)
         IN /\ p \in Seq(S) /\ Len(p) = b - a - 1
            /\ \A x \in 1 .. b - a - 1 : p[x] = t[a + x]
<1> DEFINE l == a + 1
           h == b - 1
           p == SubSeq(t, l, h)
<1>1. Len(t) \in Nat /\ \A i \in 1 .. Len(t) : t[i] \in S OBVIOUS
<1>2. l \in Int /\ h \in Int /\ \A i \in l .. h : t[i] \in S BY <1>1
<1>3. /\ h - l + 1 = b - a - 1 /\ b - a - 1 \in Nat
      /\ l <= h \/ b - a - 1 = 0
      /\ \A x \in 1 .. b - a - 1 : l + x - 1 = a + x
  BY <1>1
<1> HIDE DEF l, h
<1>4. /\ p \in Seq(S) /\ Len(p) = IF l <= h THEN h - l + 1 ELSE 0
      /\ \A i \in 1 .. h - l + 1 : p[i] = t[l + i - 1]
  BY <1>2, SubSeqProperties
<1>5. Len(p) = b - a - 1 BY <1>3, <1>4
<1> QED BY <1>3, <1>4, <1>5 DEF l, h

LEMMA PieceIs ==
  ASSUME NEW S, NEW t \in Seq(S), NEW separator
  PROVE  /\ \A p \in PiecesOf(t, separator) :
              \E a, b : /\ Between(t, separator, a, b)
                        /\ p = SubSeq(t, a + 1, b - 1)
         /\ \A a, b : Between(t, separator, a, b) =>
              SubSeq(t, a + 1, b - 1) \in PiecesOf(t, separator)
<1> DEFINE n    == Len(t)
           cuts == Cuts(t, separator)
           Next(i, j) == i < j /\ \A k \in cuts : ~(i < k /\ k < j)
<1>1. n \in Nat OBVIOUS
<1>2. \A k : k \in cuts <=> \/ k = 0 \/ k = n + 1
                            \/ k \in 1 .. n /\ t[k] = separator
  BY DEF Cuts
<1>3. \A p : p \in PiecesOf(t, separator) <=>
               \E a \in cuts, b \in cuts :
                 Next(a, b) /\ p = SubSeq(t, a + 1, b - 1)
  <2> DEFINE pairs == {c \in cuts \X cuts : Next(c[1], c[2])}
  <2>1. PiecesOf(t, separator) = {SubSeq(t, c[1] + 1, c[2] - 1) : c \in pairs}
    BY DEF PiecesOf
  <2> HIDE DEF cuts
  <2>2. \A c \in pairs : c[1] \in cuts /\ c[2] \in cuts /\ Next(c[1], c[2])
    OBVIOUS
  <2>3. ASSUME NEW a \in cuts, NEW b \in cuts, Next(a, b)
        PROVE  \E c \in pairs : c[1] = a /\ c[2] = b
    <3> HIDE DEF Next
    <3>1. <<a, b>> \in pairs BY <2>3
    <3> QED BY <3>1
  <2> HIDE DEF pairs, Next
  <2>4. ASSUME NEW p, p \in PiecesOf(t, separator)
        PROVE  \E a \in cuts, b \in cuts :
                 Next(a, b) /\ p = SubSeq(t, a + 1, b - 1)
    BY <2>1, <2>2, <2>4
  <2>5. ASSUME NEW a \in cuts, NEW b \in cuts, Next(a, b)
        PROVE  SubSeq(t, a + 1, b - 1) \in PiecesOf(t, separator)
    <3>1. PICK c \in pairs : c[1] = a /\ c[2] = b BY <2>3, <2>5
    <3> QED BY <2>1, <3>1
  <2> QED BY <2>4, <2>5
<1> HIDE DEF cuts
<1>4. ASSUME NEW a, NEW b
      PROVE  Between(t, separator, a, b) <=>
               a \in cuts /\ b \in cuts /\ Next(a, b)
  <2>1. ASSUME Between(t, separator, a, b)
        PROVE  a \in cuts /\ b \in cuts /\ Next(a, b)
    <3>1. a \in 0 .. n /\ b \in a + 1 .. n + 1 BY <2>1 DEF Between
    <3>2. a = 0 \/ a \in 1 .. n BY <1>1, <3>1
    <3>3. b = n + 1 \/ b \in 1 .. n BY <1>1, <3>1
    <3>4. a \in cuts /\ b \in cuts
      BY <1>2, <2>1, <3>2, <3>3 DEF Between
    <3>5. ASSUME NEW k \in cuts, a < k, k < b PROVE FALSE
      <4>1. k \in Int BY <1>1, <1>2
      <4>2. k \in a + 1 .. b - 1 /\ k # 0 /\ k # n + 1
        BY <1>1, <3>1, <3>5, <4>1
      <4> QED BY <1>2, <2>1, <4>2 DEF Between
    <3> QED BY <1>1, <3>1, <3>4, <3>5
  <2>2. ASSUME a \in cuts, b \in cuts, Next(a, b)
        PROVE  Between(t, separator, a, b)
    <3>1. a \in 0 .. n + 1 /\ b \in 0 .. n + 1 BY <1>1, <1>2, <2>2
    <3>2. a \in 0 .. n /\ b \in a + 1 .. n + 1 BY <1>1, <2>2, <3>1
    <3>3. a = 0 \/ t[a] = separator BY <1>1, <1>2, <2>2, <3>2
    <3>4. b = n + 1 \/ t[b] = separator BY <1>1, <1>2, <2>2, <3>2
    <3>5. ASSUME NEW k \in a + 1 .. b - 1 PROVE t[k] # separator
      <4>1. k \in 1 .. n /\ a < k /\ k < b BY <1>1, <3>2
      <4> QED BY <1>2, <2>2, <4>1
    <3> QED BY <3>2, <3>3, <3>4, <3>5 DEF Between
  <2> QED BY <2>1, <2>2
<1> HIDE DEF Next
<1> QED BY <1>3, <1>4

(* The first cut from a place on, and the last before it.                  *)
LEMMA NextCut ==
  ASSUME NEW S, NEW t \in Seq(S), NEW separator, NEW i \in 0 .. Len(t)
  PROVE  \E b \in i + 1 .. Len(t) + 1 :
           /\ b = Len(t) + 1 \/ t[b] = separator
           /\ \A k \in i + 1 .. b - 1 : t[k] # separator
<1> DEFINE n == Len(t)
           C == {k \in i + 1 .. n + 1 : k = n + 1 \/ t[k] = separator}
<1>1. n \in Nat OBVIOUS
<1>2. C \subseteq Nat /\ n + 1 \in C BY <1>1
<1>3. PICK b \in C : \A k \in C : b <= k
  <2> HIDE DEF C
  <2>1. C # {} BY <1>2
  <2> QED BY <1>2, <2>1, LeastNumber
<1>4. ASSUME NEW k \in i + 1 .. b - 1 PROVE t[k] # separator
  <2>1. b \in i + 1 .. n + 1 BY <1>3
  <2>2. k \in i + 1 .. n + 1 /\ ~(b <= k) BY <1>1, <2>1
  <2> QED BY <1>3, <2>2
<1> QED BY <1>3, <1>4

LEMMA LastCut ==
  ASSUME NEW S, NEW t \in Seq(S), NEW separator, NEW i \in 1 .. Len(t)
  PROVE  \E a \in 0 .. i - 1 :
           /\ a = 0 \/ t[a] = separator
           /\ \A k \in a + 1 .. i - 1 : t[k] # separator
<1> DEFINE C == {d \in 1 .. i : d = i \/ t[i - d] = separator}
<1>1. i \in Nat /\ 1 <= i OBVIOUS
<1>2. C \subseteq Nat /\ i \in C BY <1>1
<1>3. PICK d \in C : \A k \in C : d <= k
  <2> HIDE DEF C
  <2>1. C # {} BY <1>2
  <2> QED BY <1>2, <2>1, LeastNumber
<1> DEFINE a == i - d
<1>4. d \in 1 .. i /\ a \in 0 .. i - 1 /\ (a = 0 \/ t[a] = separator)
  BY <1>1, <1>3
<1>5. ASSUME NEW k \in a + 1 .. i - 1 PROVE t[k] # separator
  <2>1. i - k \in 1 .. i /\ ~(d <= i - k) /\ i - (i - k) = k BY <1>1, <1>4
  <2> QED BY <1>3, <2>1
<1> QED BY <1>4, <1>5

LEMMA FirstPiece ==
  ASSUME NEW e \in Seq(HeaderKinds)
  PROVE  \E k \in 0 .. Len(e) :
           /\ BeforeParameters(e) = SubSeq(e, 1, k)
           /\ k = Len(e) \/ e[k + 1] = "semicolon"
           /\ \A x \in 1 .. k : e[x] # "semicolon"
<1> DEFINE n == Len(e)
           Ends(v) == \E k \in 0 .. n :
                        v = SubSeq(e, 1, k) /\ (k = n \/ e[k + 1] = "semicolon")
           u == BeforeParameters(e)
<1>1. n \in Nat OBVIOUS
<1>2. u = CHOOSE v \in PiecesOf(e, "semicolon") : Ends(v)
  BY DEF BeforeParameters
<1>3. \E v \in PiecesOf(e, "semicolon") : Ends(v)
  <2>1. PICK b \in 0 + 1 .. n + 1 :
          /\ b = n + 1 \/ e[b] = "semicolon"
          /\ \A k \in 0 + 1 .. b - 1 : e[k] # "semicolon"
    <3>1. 0 \in 0 .. n BY <1>1
    <3> QED BY <3>1, NextCut
  <2>2. Between(e, "semicolon", 0, b) BY <1>1, <2>1 DEF Between
  <2>3. SubSeq(e, 0 + 1, b - 1) \in PiecesOf(e, "semicolon") BY <2>2, PieceIs
  <2>4. /\ b - 1 \in 0 .. n /\ (b - 1) + 1 = b
        /\ b = n + 1 => b - 1 = n
    BY <1>1, <2>1
  <2>5. Ends(SubSeq(e, 1, b - 1)) BY <2>1, <2>4
  <2> HIDE DEF Ends
  <2> QED BY <2>3, <2>5
<1>4. u \in PiecesOf(e, "semicolon") /\ Ends(u)
  <2> HIDE DEF Ends, u
  <2> QED BY <1>2, <1>3
<1> HIDE DEF u
<1>5. PICK k \in 0 .. n :
        u = SubSeq(e, 1, k) /\ (k = n \/ e[k + 1] = "semicolon")
  <2>1. \E k \in 0 .. n :
          u = SubSeq(e, 1, k) /\ (k = n \/ e[k + 1] = "semicolon")
    BY <1>4
  <2> QED BY <2>1
<1>6. PICK a, b : Between(e, "semicolon", a, b) /\ u = SubSeq(e, a + 1, b - 1)
  <2>1. u \in PiecesOf(e, "semicolon") BY <1>4
  <2>2. e \in Seq(HeaderKinds) OBVIOUS
  <2>3. \E a, b : Between(e, "semicolon", a, b) /\ u = SubSeq(e, a + 1, b - 1)
    BY ONLY <2>1, <2>2, PieceIs
  <2> QED BY <2>3
<1>7. a \in 0 .. n /\ b \in a + 1 .. n + 1 BY <1>6 DEF Between
<1>8. /\ Len(u) = b - a - 1
      /\ \A x \in 1 .. b - a - 1 : u[x] = e[a + x]
  BY <1>6, <1>7, StretchIs
<1>9. /\ Len(u) = k /\ \A x \in 1 .. k : u[x] = e[x]
  <2>1. 0 \in 0 .. n /\ k + 1 \in 0 + 1 .. n + 1 BY <1>1
  <2>2. /\ Len(SubSeq(e, 0 + 1, (k + 1) - 1)) = (k + 1) - 0 - 1
        /\ \A x \in 1 .. (k + 1) - 0 - 1 :
             SubSeq(e, 0 + 1, (k + 1) - 1)[x] = e[0 + x]
    BY <2>1, StretchIs
  <2>3. /\ (k + 1) - 1 = k /\ (k + 1) - 0 - 1 = k /\ 0 + 1 = 1
        /\ \A x \in 1 .. k : 0 + x = x
    BY <1>1
  <2> QED BY <1>5, <2>2, <2>3
<1>10. ASSUME NEW x \in 1 .. k PROVE e[x] # "semicolon"
  <2>1. x \in 1 .. b - a - 1 /\ a + x \in a + 1 .. b - 1
    BY <1>1, <1>7, <1>8, <1>9
  <2> QED BY <1>6, <1>8, <1>9, <2>1 DEF Between
<1> QED BY <1>5, <1>10 DEF u

(* Only spaces are trimmed.                                                *)
LEMMA TrimmedIs ==
  ASSUME NEW u \in Seq(HeaderKinds)
  PROVE  Trimmed(u) = <<"html">> <=>
           \E i \in 1 .. Len(u) :
             u[i] = "html" /\ \A x \in 1 .. Len(u) : x # i => u[x] = "space"
<1> DEFINE n     == Len(u)
           solid == {i \in 1 .. n : u[i] # "space"}
           low   == CHOOSE i \in solid : \A j \in solid : i <= j
           high  == CHOOSE i \in solid : \A j \in solid : i >= j
<1>1. n \in Nat /\ solid \subseteq Nat OBVIOUS
<1>2. Trimmed(u) = IF solid = {} THEN <<>> ELSE SubSeq(u, low, high)
  BY DEF Trimmed
<1>3. ASSUME solid # {}
      PROVE  /\ low \in solid /\ \A j \in solid : low <= j
             /\ high \in solid /\ \A j \in solid : high >= j
  <2>1. \E i \in solid : \A j \in solid : i <= j
    <3> HIDE DEF solid
    <3> QED BY <1>1, <1>3, LeastNumber
  <2>2. \E i \in solid : \A j \in solid : i >= j
    <3> DEFINE S == {d \in 0 .. n : n - d \in solid}
    <3>1. PICK i \in solid : TRUE BY <1>3
    <3>2. n - i \in S
      <4>1. n - i \in 0 .. n /\ n - (n - i) = i BY <1>1, <3>1
      <4>2. n - (n - i) \in solid BY <3>1, <4>1
      <4> HIDE DEF solid, n
      <4> QED BY <4>1, <4>2
    <3>3. S \subseteq Nat /\ S # {}
      <4>1. \A d \in 0 .. n : d \in Nat BY <1>1
      <4>2. S \subseteq 0 .. n OBVIOUS
      <4> HIDE DEF S, n
      <4> QED BY <3>2, <4>1, <4>2
    <3>4. PICK d \in S : \A k \in S : d <= k
      <4> HIDE DEF S
      <4> QED BY <3>3, LeastNumber
    <3>5. ASSUME NEW j \in solid PROVE n - d >= j
      <4>1. n - j \in S BY <1>1
      <4>2. d <= n - j /\ d \in 0 .. n /\ j \in 1 .. n BY <3>4, <4>1
      <4> QED BY <1>1, <4>2
    <3>6. n - d \in solid BY <3>4
    <3> HIDE DEF solid
    <3> QED BY <3>5, <3>6
  <2> HIDE DEF solid
  <2> QED BY <2>1, <2>2
<1> HIDE DEF low, high
<1>4. ASSUME Trimmed(u) = <<"html">>
      PROVE  \E i \in 1 .. n :
               u[i] = "html" /\ \A x \in 1 .. n : x # i => u[x] = "space"
  <2>1. solid # {}
    <3> SUFFICES ASSUME solid = {} PROVE FALSE OBVIOUS
    <3>1. <<>> = <<"html">> BY <1>2, <1>4
    <3>2. Len(<<>>) = 0 /\ Len(<<"html">>) = 1 OBVIOUS
    <3> QED BY <3>1, <3>2
  <2>2. /\ low \in 1 .. n /\ high \in 1 .. n /\ low <= high
        /\ \A x \in solid : low <= x /\ x <= high
    BY <1>1, <1>3, <2>1
  <2>3. SubSeq(u, low, high) = <<"html">> BY <1>2, <1>4, <2>1
  <2>4. /\ Len(SubSeq(u, low, high)) = (high + 1) - (low - 1) - 1
        /\ \A x \in 1 .. (high + 1) - (low - 1) - 1 :
             SubSeq(u, low, high)[x] = u[low - 1 + x]
    <3> DEFINE a == low - 1
               b == high + 1
    <3>1. /\ a \in 0 .. n /\ b \in a + 1 .. n + 1
          /\ a + 1 = low /\ b - 1 = high
      BY <1>1, <2>2
    <3> HIDE DEF a, b
    <3>2. LET p == SubSeq(u, a + 1, b - 1)
          IN /\ Len(p) = b - a - 1
             /\ \A x \in 1 .. b - a - 1 : p[x] = u[a + x]
      BY <3>1, StretchIs
    <3> QED BY <3>1, <3>2 DEF a, b
  <2>5. Len(<<"html">>) = 1 /\ <<"html">>[1] = "html" OBVIOUS
  <2>6. high = low BY <1>1, <2>2, <2>3, <2>4, <2>5
  <2>7. /\ 1 \in 1 .. (high + 1) - (low - 1) - 1
        /\ low - 1 + 1 = low
    BY <1>1, <2>2
  <2>8. u[low] = "html" BY <2>3, <2>4, <2>5, <2>7
  <2>9. \A x \in 1 .. n : x # low => u[x] = "space" BY <1>1, <2>2, <2>6
  <2> QED BY <2>2, <2>8, <2>9
<1>5. ASSUME NEW i \in 1 .. n, u[i] = "html",
             \A x \in 1 .. n : x # i => u[x] = "space"
      PROVE  Trimmed(u) = <<"html">>
  <2>1. solid = {i} BY <1>5
  <2>2. low = i /\ high = i BY <1>3, <2>1
  <2>3. SubSeq(u, i, i) = <<u[i]>>
    <3> DEFINE a == i - 1
               b == i + 1
    <3>1. /\ a \in 0 .. n /\ b \in a + 1 .. n + 1
          /\ a + 1 = i /\ b - 1 = i /\ b - a - 1 = 1
      BY <1>1
    <3> HIDE DEF a, b
    <3>2. LET p == SubSeq(u, a + 1, b - 1)
          IN /\ p \in Seq(HeaderKinds) /\ Len(p) = b - a - 1
             /\ \A x \in 1 .. b - a - 1 : p[x] = u[a + x]
      BY <3>1, StretchIs
    <3> DEFINE p == SubSeq(u, i, i)
    <3>3. p \in Seq(HeaderKinds) /\ Len(p) = 1 /\ p[1] = u[i]
      BY <3>1, <3>2
    <3> HIDE DEF p
    <3>4. p = <<u[i]>>
      <4>1. u[i] \in HeaderKinds OBVIOUS
      <4> QED BY <3>3, <4>1
    <3> QED BY <3>4 DEF p
  <2> QED BY <1>2, <1>5, <2>1, <2>2, <2>3
<1> QED BY <1>4, <1>5

-----------------------------------------------------------------------------
(* A text/html at i: the part of the element that counts is between l and  *)
(* r, and its value between a and b.                                       *)
Span(t, i, l, r, a, b) ==
  /\ Between(t, "next", a, b)
  /\ \A k \in a + 1 .. b - 1 : t[k] # "bad"
  /\ i \in 1 .. Len(t) /\ l \in a .. i - 1 /\ r \in i + 1 .. b
  /\ t[i] = "html"
  /\ l = a \/ t[l] = "comma"
  /\ r = b \/ t[r] \in {"comma", "semicolon"}
  /\ \A k \in l + 1 .. r - 1 : k # i => t[k] = "space"

LEMMA PrefixIs ==
  ASSUME NEW S, NEW e \in Seq(S), NEW k \in 0 .. Len(e)
  PROVE  LET u == SubSeq(e, 1, k)
         IN /\ u \in Seq(S) /\ Len(u) = k
            /\ \A x \in 1 .. k : u[x] = e[x]
<1> DEFINE a == 0
           b == k + 1
<1>1. /\ a \in 0 .. Len(e) /\ b \in a + 1 .. Len(e) + 1
      /\ a + 1 = 1 /\ b - 1 = k /\ b - a - 1 = k
      /\ \A x \in 1 .. k : a + x = x
  OBVIOUS
<1> HIDE DEF a, b
<1>2. LET p == SubSeq(e, a + 1, b - 1)
      IN /\ p \in Seq(S) /\ Len(p) = b - a - 1
         /\ \A x \in 1 .. b - a - 1 : p[x] = e[a + x]
  BY <1>1, StretchIs
<1> QED BY <1>1, <1>2

LEMMA HtmlFound ==
  ASSUME NEW t \in Seq(HeaderKinds), NEW v \in PiecesOf(t, "next"),
         \A x \in 1 .. Len(v) : v[x] # "bad",
         NEW e \in PiecesOf(v, "comma"),
         Trimmed(BeforeParameters(e)) = <<"html">>
  PROVE  \E i, l, r, a, b : Span(t, i, l, r, a, b)
<1> DEFINE n == Len(t)
<1>1. n \in Nat OBVIOUS
<1>2. PICK a, b : Between(t, "next", a, b) /\ v = SubSeq(t, a + 1, b - 1)
  <2>1. \E a, b : Between(t, "next", a, b) /\ v = SubSeq(t, a + 1, b - 1)
    BY PieceIs
  <2> QED BY <2>1
<1>3. a \in 0 .. n /\ b \in a + 1 .. n + 1 BY <1>2 DEF Between
<1>4. /\ v \in Seq(HeaderKinds) /\ Len(v) = b - a - 1
      /\ \A x \in 1 .. b - a - 1 : v[x] = t[a + x]
  BY <1>2, <1>3, StretchIs
<1>5. PICK c, d : Between(v, "comma", c, d) /\ e = SubSeq(v, c + 1, d - 1)
  <2>1. \E c, d : Between(v, "comma", c, d) /\ e = SubSeq(v, c + 1, d - 1)
    BY <1>4, PieceIs
  <2> QED BY <2>1
<1>6. c \in 0 .. b - a - 1 /\ d \in c + 1 .. b - a BY <1>1, <1>3, <1>4, <1>5
        DEF Between
<1>7. /\ e \in Seq(HeaderKinds) /\ Len(e) = d - c - 1
      /\ \A x \in 1 .. d - c - 1 : e[x] = v[c + x]
  <2>1. c \in 0 .. Len(v) /\ d \in c + 1 .. Len(v) + 1 BY <1>5 DEF Between
  <2> QED BY <1>4, <1>5, <2>1, StretchIs
<1> DEFINE u == BeforeParameters(e)
<1>8. PICK k \in 0 .. d - c - 1 :
        /\ u = SubSeq(e, 1, k) /\ (k = d - c - 1 \/ e[k + 1] = "semicolon")
  <2>1. \E k \in 0 .. Len(e) :
          /\ u = SubSeq(e, 1, k)
          /\ k = Len(e) \/ e[k + 1] = "semicolon"
          /\ \A x \in 1 .. k : e[x] # "semicolon"
    BY <1>7, FirstPiece
  <2> HIDE DEF u
  <2> QED BY <1>7, <2>1
<1>9. u \in Seq(HeaderKinds) /\ Len(u) = k /\ \A x \in 1 .. k : u[x] = e[x]
  BY <1>7, <1>8, PrefixIs
<1>10. PICK j \in 1 .. k :
         u[j] = "html" /\ \A x \in 1 .. k : x # j => u[x] = "space"
  <2>1. \E j \in 1 .. Len(u) :
          u[j] = "html" /\ \A x \in 1 .. Len(u) : x # j => u[x] = "space"
    BY <1>9, TrimmedIs
  <2> HIDE DEF u
  <2> QED BY <1>9, <2>1
<1> HIDE DEF u, n
<1> DEFINE l == a + c
           i == a + c + j
           r == a + c + k + 1
<1>11. ASSUME NEW x \in 1 .. d - c - 1 PROVE e[x] = t[l + x]
  <2>1. c + x \in 1 .. b - a - 1 /\ a + (c + x) = l + x
    BY <1>1, <1>3, <1>6
  <2> QED BY <1>4, <1>7, <2>1
<1>12. ASSUME NEW x \in 1 .. k
       PROVE  x \in 1 .. d - c - 1 /\ u[x] = t[l + x]
  <2>1. x \in 1 .. d - c - 1 BY <1>1, <1>3, <1>6
  <2> HIDE DEF l
  <2>2. e[x] = t[l + x] BY <1>11, <2>1
  <2> QED BY <1>9, <2>1, <2>2
<1>13. i \in 1 .. n /\ l \in a .. i - 1 /\ r \in i + 1 .. b
  BY <1>1, <1>3, <1>6
<1>14. t[i] = "html" BY <1>10, <1>12
<1>15. l = a \/ t[l] = "comma"
  <2>1. c = 0 \/ v[c] = "comma" BY <1>5 DEF Between
  <2>2. c = 0 \/ c \in 1 .. b - a - 1 BY <1>1, <1>3, <1>6
  <2>3. c = 0 => l = a BY <1>1, <1>3
  <2> QED BY <1>4, <2>1, <2>2, <2>3
<1>16. r = b \/ t[r] \in {"comma", "semicolon"}
  <2>1. CASE k # d - c - 1
    <3>1. k + 1 \in 1 .. d - c - 1 /\ l + (k + 1) = r
      BY <1>1, <1>3, <1>6, <2>1
    <3> QED BY <1>8, <1>11, <2>1, <3>1
  <2>2. CASE k = d - c - 1
    <3>1. r = a + d BY <1>1, <1>3, <1>6, <2>2
    <3>2. d = b - a \/ v[d] = "comma"
      <4>1. d = Len(v) + 1 \/ v[d] = "comma" BY <1>5 DEF Between
      <4> QED BY <1>1, <1>3, <1>4, <4>1
    <3>3. d = b - a => a + d = b BY <1>1, <1>3
    <3>4. d = b - a \/ d \in 1 .. b - a - 1 BY <1>1, <1>3, <1>6
    <3> HIDE DEF r
    <3> QED BY <1>4, <3>1, <3>2, <3>3, <3>4
  <2> QED BY <2>1, <2>2
<1>17. ASSUME NEW x \in l + 1 .. r - 1, x # i PROVE t[x] = "space"
  <2>1. x - l \in 1 .. k /\ x - l # j /\ l + (x - l) = x
    BY <1>1, <1>3, <1>6, <1>17
  <2> HIDE DEF l
  <2> QED BY <1>10, <1>12, <2>1
<1>18. ASSUME NEW x \in a + 1 .. b - 1 PROVE t[x] # "bad"
  <2>1. x - a \in 1 .. b - a - 1 /\ a + (x - a) = x BY <1>1, <1>3
  <2> QED BY <1>4, <2>1
<1> HIDE DEF i, l, r
<1>19. Span(t, i, l, r, a, b)
  BY <1>2, <1>13, <1>14, <1>15, <1>16, <1>17, <1>18 DEF Span, n
<1> QED BY <1>19

LEMMA HtmlServed ==
  ASSUME NEW t \in Seq(HeaderKinds), NEW i, NEW l, NEW r, NEW a, NEW b,
         Span(t, i, l, r, a, b)
  PROVE  \E v \in PiecesOf(t, "next") :
           /\ \A x \in 1 .. Len(v) : v[x] # "bad"
           /\ \E e \in PiecesOf(v, "comma") :
                Trimmed(BeforeParameters(e)) = <<"html">>
<1> DEFINE n == Len(t)
           v == SubSeq(t, a + 1, b - 1)
           c == l - a
           j == i - a
<1>1. n \in Nat OBVIOUS
<1>2. Between(t, "next", a, b) BY DEF Span
<1>3. /\ a \in 0 .. n /\ b \in a + 1 .. n + 1
      /\ i \in 1 .. n /\ l \in a .. i - 1 /\ r \in i + 1 .. b
  BY <1>2 DEF Span, Between
<1>4. /\ v \in Seq(HeaderKinds) /\ Len(v) = b - a - 1
      /\ \A x \in 1 .. b - a - 1 : v[x] = t[a + x]
  BY <1>3, StretchIs
<1>5. v \in PiecesOf(t, "next") BY <1>2, PieceIs
<1> HIDE DEF v
<1>6. ASSUME NEW x \in 1 .. Len(v) PROVE v[x] # "bad"
  <2>1. x \in 1 .. b - a - 1 BY <1>4
  <2>2. a + x \in a + 1 .. b - 1
    <3>1. a \in Int /\ b \in Int BY <1>3
    <3> QED BY <2>1, <3>1
  <2> QED BY <1>4, <2>1, <2>2 DEF Span
<1>7. /\ c \in 0 .. b - a - 1 /\ j \in c + 1 .. b - a - 1
      /\ a + c = l /\ a + j = i
  BY <1>1, <1>3
<1> HIDE DEF c, j, n
<1>8. PICK d \in j + 1 .. b - a :
        /\ d = b - a \/ v[d] = "comma"
        /\ \A k \in j + 1 .. d - 1 : v[k] # "comma"
  <2>1. /\ j \in 0 .. Len(v) /\ Len(v) + 1 = b - a
    BY <1>1, <1>3, <1>4, <1>7
  <2>2. \E d \in j + 1 .. Len(v) + 1 :
          /\ d = Len(v) + 1 \/ v[d] = "comma"
          /\ \A k \in j + 1 .. d - 1 : v[k] # "comma"
    BY <1>4, <2>1, NextCut
  <2> QED BY <2>1, <2>2
<1>9. \A x \in l + 1 .. r - 1 : x # i => t[x] = "space" BY DEF Span
<1>10. t[i] = "html" BY DEF Span
<1>11. Between(v, "comma", c, d)
  <2>1. c \in 0 .. Len(v) /\ d \in c + 1 .. Len(v) + 1 /\ Len(v) + 1 = b - a
    BY <1>1, <1>3, <1>4, <1>7, <1>8
  <2>2. c = 0 \/ v[c] = "comma"
    <3>1. l = a \/ t[l] = "comma" BY DEF Span
    <3>2. l = a => c = 0 BY <1>3, <1>7
    <3>3. c = 0 \/ c \in 1 .. b - a - 1 BY <1>1, <1>3, <1>7
    <3> QED BY <1>4, <1>7, <3>1, <3>2, <3>3
  <2>3. ASSUME NEW k \in c + 1 .. d - 1 PROVE v[k] # "comma"
    <3>1. k \in 1 .. b - a - 1 BY <1>1, <1>3, <1>7, <1>8
    <3>2. v[k] = t[a + k] BY <1>4, <3>1
    <3>3. CASE k < j
      <4>1. a + k \in l + 1 .. r - 1 /\ a + k # i
        BY <1>1, <1>3, <1>7, <3>1, <3>3
      <4> QED BY <1>9, <3>2, <4>1
    <3>4. CASE k = j BY <1>7, <1>10, <3>2, <3>4
    <3>5. CASE k > j
      <4>1. k \in j + 1 .. d - 1 BY <1>1, <1>3, <1>7, <1>8, <3>1, <3>5
      <4> QED BY <1>8, <4>1
    <3>6. k < j \/ k = j \/ k > j BY <1>1, <1>3, <1>7, <3>1
    <3> QED BY <3>3, <3>4, <3>5, <3>6
  <2>4. d = Len(v) + 1 \/ v[d] = "comma" BY <1>8, <2>1
  <2> QED BY <2>1, <2>2, <2>3, <2>4 DEF Between
<1> DEFINE e == SubSeq(v, c + 1, d - 1)
<1>12. e \in PiecesOf(v, "comma") BY <1>4, <1>11, PieceIs
<1>13. c \in 0 .. b - a - 1 /\ d \in c + 1 .. b - a
  BY <1>1, <1>3, <1>7, <1>8
<1>14. /\ e \in Seq(HeaderKinds) /\ Len(e) = d - c - 1
       /\ \A x \in 1 .. d - c - 1 : e[x] = v[c + x]
  <2>1. c \in 0 .. Len(v) /\ d \in c + 1 .. Len(v) + 1 BY <1>11 DEF Between
  <2> QED BY <1>4, <2>1, StretchIs
<1> HIDE DEF e
<1>15. ASSUME NEW x \in 1 .. d - c - 1 PROVE e[x] = t[l + x]
  <2>1. c + x \in 1 .. b - a - 1 /\ a + (c + x) = l + x
    BY <1>1, <1>3, <1>7, <1>13
  <2> QED BY <1>4, <1>14, <2>1
<1> DEFINE u == BeforeParameters(e)
<1>16. PICK k \in 0 .. d - c - 1 :
         /\ u = SubSeq(e, 1, k) /\ (k = d - c - 1 \/ e[k + 1] = "semicolon")
         /\ \A x \in 1 .. k : e[x] # "semicolon"
  <2>1. \E k \in 0 .. Len(e) :
          /\ u = SubSeq(e, 1, k)
          /\ k = Len(e) \/ e[k + 1] = "semicolon"
          /\ \A x \in 1 .. k : e[x] # "semicolon"
    BY <1>14, FirstPiece
  <2> HIDE DEF u
  <2> QED BY <1>14, <2>1
<1>17. u \in Seq(HeaderKinds) /\ Len(u) = k /\ \A x \in 1 .. k : u[x] = e[x]
  BY <1>14, <1>16, PrefixIs
<1> HIDE DEF u
<1>18. r - l - 1 <= d - c - 1
  <2> SUFFICES ASSUME r > a + d PROVE FALSE BY <1>1, <1>3, <1>7, <1>13
  <2>1. d \in 1 .. b - a - 1 /\ d # b - a BY <1>1, <1>3, <1>13
  <2>2. v[d] = "comma" /\ v[d] = t[a + d] BY <1>4, <1>8, <2>1
  <2>3. a + d \in l + 1 .. r - 1 /\ a + d # i BY <1>1, <1>3, <1>7, <1>8
  <2> QED BY <1>9, <2>2, <2>3
<1>19. ~(k < r - l - 1)
  <2> SUFFICES ASSUME k < r - l - 1 PROVE FALSE OBVIOUS
  <2>1. k + 1 \in 1 .. d - c - 1 /\ k # d - c - 1
    BY <1>1, <1>3, <1>13, <1>18
  <2>2. t[l + (k + 1)] = "semicolon" BY <1>15, <1>16, <2>1
  <2>3. l + (k + 1) \in l + 1 .. r - 1 BY <1>1, <1>3, <1>13
  <2> QED BY <1>9, <1>10, <2>2, <2>3
<1>20. ~(k > r - l - 1)
  <2> SUFFICES ASSUME k > r - l - 1 PROVE FALSE OBVIOUS
  <2>1. /\ r - l \in 1 .. k /\ r - l \in 1 .. d - c - 1 /\ l + (r - l) = r
        /\ c + (r - l) \in c + 1 .. d - 1
    BY <1>1, <1>3, <1>13
  <2>2. t[r] # "semicolon" BY <1>15, <1>16, <2>1
  <2>3. t[r] # "comma"
    <3>1. e[r - l] = v[c + (r - l)] BY <1>14, <2>1
    <3> QED BY <1>11, <1>15, <2>1, <3>1 DEF Between
  <2>4. r # b BY <1>1, <1>3, <1>7, <1>13, <2>1
  <2> QED BY <2>2, <2>3, <2>4 DEF Span
<1>21. k = r - l - 1 BY <1>3, <1>13, <1>19, <1>20
<1>22. ASSUME NEW x \in 1 .. k
       PROVE  u[x] = IF x = i - l THEN "html" ELSE "space"
  <2>1. x \in 1 .. d - c - 1 /\ l + x \in l + 1 .. r - 1
    BY <1>1, <1>3, <1>13, <1>21
  <2>2. u[x] = t[l + x] BY <1>15, <1>17, <2>1
  <2>3. x = i - l <=> l + x = i BY <1>3, <2>1
  <2> QED BY <1>9, <1>10, <2>1, <2>2, <2>3
<1>23. i - l \in 1 .. k BY <1>1, <1>3, <1>21
<1>24. Trimmed(u) = <<"html">>
  <2>1. \E x \in 1 .. Len(u) :
          u[x] = "html" /\ \A y \in 1 .. Len(u) : y # x => u[y] = "space"
    BY <1>17, <1>22, <1>23
  <2> QED BY <1>17, <2>1, TrimmedIs
<1> QED BY <1>5, <1>6, <1>12, <1>24 DEF u

(* What HtmlIfNamed says of a text/html at i.                              *)
NamedAt(i, l, r) ==
  /\ i \in 1 .. Len(accept) /\ accept[i] = "html"
  /\ l \in 0 .. i - 1
  /\ l \in {0, Len(accept) + 1} \/ accept[l] \in {"comma", "next"}
  /\ \A k \in l + 1 .. i - 1 : accept[k] = "space"
  /\ r \in i + 1 .. Len(accept) + 1
  /\ \/ r \in {0, Len(accept) + 1}
     \/ accept[r] \in {"comma", "semicolon", "next"}
  /\ \A k \in i + 1 .. r - 1 : accept[k] = "space"
  /\ \A k \in 1 .. Len(accept) : accept[k] = "bad" =>
       \E m \in 1 .. Len(accept) :
         accept[m] = "next" /\ ((i < m /\ m < k) \/ (k < m /\ m < i))

LEMMA SpanIsNamed ==
  ASSUME accept \in Seq(HeaderKinds),
         NEW i, NEW l, NEW r, NEW a, NEW b, Span(accept, i, l, r, a, b)
  PROVE  NamedAt(i, l, r)
<1> DEFINE t == accept
           n == Len(t)
<1>1. n \in Nat OBVIOUS
<1>2. Between(t, "next", a, b) BY DEF Span
<1>3. /\ a \in 0 .. n /\ b \in a + 1 .. n + 1
      /\ i \in 1 .. n /\ l \in a .. i - 1 /\ r \in i + 1 .. b
  BY <1>2 DEF Span, Between
<1>4. (a = 0 \/ t[a] = "next") /\ (b = n + 1 \/ t[b] = "next")
  BY <1>2 DEF Between
<1> HIDE DEF n, t
<1>5. l \in {0, n + 1} \/ t[l] \in {"comma", "next"}
  <2>1. l = a \/ t[l] = "comma" BY DEF Span, t
  <2> QED BY <1>4, <2>1
<1>6. r \in {0, n + 1} \/ t[r] \in {"comma", "semicolon", "next"}
  <2>1. r = b \/ t[r] \in {"comma", "semicolon"} BY DEF Span, t
  <2> QED BY <1>4, <2>1
<1>7. /\ \A k \in l + 1 .. i - 1 : t[k] = "space"
      /\ \A k \in i + 1 .. r - 1 : t[k] = "space"
  <2>1. \A k \in l + 1 .. r - 1 : k # i => t[k] = "space" BY DEF Span, t
  <2>2. \A k \in l + 1 .. i - 1 : k \in l + 1 .. r - 1 /\ k # i BY <1>1, <1>3
  <2>3. \A k \in i + 1 .. r - 1 : k \in l + 1 .. r - 1 /\ k # i BY <1>1, <1>3
  <2> QED BY <2>1, <2>2, <2>3
<1>8. ASSUME NEW k \in 1 .. n, t[k] = "bad"
      PROVE  \E m \in 1 .. n :
               t[m] = "next" /\ ((i < m /\ m < k) \/ (k < m /\ m < i))
  <2>1. k \notin a + 1 .. b - 1 BY <1>8 DEF Span, t
  <2>2. CASE k <= a
    <3>1. a # 0 /\ a \in 1 .. n BY <1>1, <1>3, <2>2
    <3>2. t[a] = "next" /\ k # a BY <1>4, <1>8, <3>1
    <3>3. k < a /\ a < i BY <1>1, <1>3, <2>2, <3>2
    <3> QED BY <3>1, <3>2, <3>3
  <2>3. CASE k >= b
    <3>1. b # n + 1 /\ b \in 1 .. n BY <1>1, <1>3, <2>3
    <3>2. t[b] = "next" /\ k # b BY <1>4, <1>8, <3>1
    <3>3. i < b /\ b < k BY <1>1, <1>3, <2>3, <3>2
    <3> QED BY <3>1, <3>2, <3>3
  <2> QED BY <1>1, <1>3, <2>1, <2>2, <2>3
<1>9. t[i] = "html" BY DEF Span, t
<1>10. l \in 0 .. i - 1 /\ r \in i + 1 .. n + 1 BY <1>1, <1>3
<1> QED BY <1>3, <1>5, <1>6, <1>7, <1>8, <1>9, <1>10 DEF NamedAt, n, t

LEMMA NamedIsSpan ==
  ASSUME accept \in Seq(HeaderKinds), NEW i, NEW l, NEW r, NamedAt(i, l, r)
  PROVE  \E a, b : Span(accept, i, l, r, a, b)
<1> DEFINE t == accept
           n == Len(t)
<1>1. n \in Nat OBVIOUS
<1>2. /\ i \in 1 .. n /\ t[i] = "html"
      /\ l \in 0 .. i - 1 /\ r \in i + 1 .. n + 1
      /\ l \in {0, n + 1} \/ t[l] \in {"comma", "next"}
      /\ r \in {0, n + 1} \/ t[r] \in {"comma", "semicolon", "next"}
      /\ \A k \in l + 1 .. i - 1 : t[k] = "space"
      /\ \A k \in i + 1 .. r - 1 : t[k] = "space"
  BY DEF NamedAt
<1>3. PICK a \in 0 .. i - 1 : /\ a = 0 \/ t[a] = "next"
                             /\ \A k \in a + 1 .. i - 1 : t[k] # "next"
  <2>1. t \in Seq(HeaderKinds) /\ i \in 1 .. Len(t) BY <1>2
  <2>2. \E a \in 0 .. i - 1 : /\ a = 0 \/ t[a] = "next"
                             /\ \A k \in a + 1 .. i - 1 : t[k] # "next"
    BY ONLY <2>1, LastCut
  <2> QED BY <2>2
<1>4. PICK b \in i + 1 .. n + 1 : /\ b = n + 1 \/ t[b] = "next"
                                 /\ \A k \in i + 1 .. b - 1 : t[k] # "next"
  <2>1. i \in 0 .. n BY <1>1, <1>2
  <2> QED BY <2>1, NextCut
<1> HIDE DEF n, t
<1>5. \A k \in a + 1 .. b - 1 : t[k] # "next"
  <2>1. \A k \in a + 1 .. b - 1 :
          k \in a + 1 .. i - 1 \/ k = i \/ k \in i + 1 .. b - 1
    BY <1>1, <1>2, <1>3, <1>4
  <2> QED BY <1>2, <1>3, <1>4, <2>1
<1>6. Between(t, "next", a, b)
  <2>1. a \in 0 .. n /\ b \in a + 1 .. n + 1 BY <1>1, <1>2, <1>3, <1>4
  <2> QED BY <1>3, <1>4, <1>5, <2>1 DEF Between, n
<1>7. a <= l
  <2> SUFFICES ASSUME a > l PROVE FALSE BY <1>1, <1>2, <1>3
  <2>1. a # 0 /\ a \in l + 1 .. i - 1 BY <1>1, <1>2, <1>3
  <2> QED BY <1>2, <1>3, <2>1
<1>8. r <= b
  <2> SUFFICES ASSUME b < r PROVE FALSE BY <1>1, <1>2, <1>4
  <2>1. b # n + 1 /\ b \in i + 1 .. r - 1 BY <1>1, <1>2, <1>4
  <2> QED BY <1>2, <1>4, <2>1
<1>9. l = a \/ t[l] = "comma"
  <2> SUFFICES ASSUME l # a PROVE t[l] = "comma" OBVIOUS
  <2>1. l \in a + 1 .. b - 1 /\ l \notin {0, n + 1}
    BY <1>1, <1>2, <1>3, <1>4, <1>7
  <2> QED BY <1>2, <1>5, <2>1
<1>10. r = b \/ t[r] \in {"comma", "semicolon"}
  <2> SUFFICES ASSUME r # b PROVE t[r] \in {"comma", "semicolon"} OBVIOUS
  <2>1. r \in a + 1 .. b - 1 /\ r \notin {0, n + 1}
    BY <1>1, <1>2, <1>3, <1>4, <1>8
  <2> QED BY <1>2, <1>5, <2>1
<1>11. ASSUME NEW k \in l + 1 .. r - 1, k # i PROVE t[k] = "space"
  <2>1. k \in l + 1 .. i - 1 \/ k \in i + 1 .. r - 1 BY <1>1, <1>2, <1>11
  <2> QED BY <1>2, <2>1
<1>12. ASSUME NEW k \in a + 1 .. b - 1, t[k] = "bad" PROVE FALSE
  <2>1. k \in 1 .. n BY <1>1, <1>2, <1>3, <1>4
  <2>2. PICK m \in 1 .. n :
          t[m] = "next" /\ ((i < m /\ m < k) \/ (k < m /\ m < i))
    BY <1>12, <2>1 DEF NamedAt, t, n
  <2>3. m \in a + 1 .. b - 1 BY <1>1, <1>2, <1>3, <1>4, <2>1, <2>2
  <2> QED BY <1>5, <2>2, <2>3
<1>13. l \in a .. i - 1 /\ r \in i + 1 .. b
  BY <1>1, <1>2, <1>3, <1>4, <1>7, <1>8
<1>14. Span(t, i, l, r, a, b)
  BY <1>2, <1>6, <1>9, <1>10, <1>11, <1>12, <1>13 DEF Span, n
<1> QED BY <1>14 DEF t

(* A page is HTML exactly for those whose headers name text/html, for      *)
(* headers of any length.                                                  *)
THEOREM HtmlCorrect == HeaderSpec => []HtmlIfNamed
<1> DEFINE Typed == accept \in Seq(HeaderKinds)
<1>1. HeaderInit => Typed BY DEF HeaderInit
<1>2. Typed /\ [Extend]_headerVars => Typed'
  <2> SUFFICES ASSUME Typed, [Extend]_headerVars PROVE Typed' OBVIOUS
  <2>1. CASE Extend
    <3>1. PICK kind \in HeaderKinds : accept' = Append(accept, kind)
      BY <2>1 DEF Extend
    <3> QED BY <3>1
  <2>2. CASE UNCHANGED headerVars BY <2>2 DEF headerVars
  <2> QED BY <2>1, <2>2
<1>3. Typed => HtmlIfNamed
  <2> SUFFICES ASSUME Typed PROVE HtmlIfNamed OBVIOUS
  <2>1. Served = "html" <=> accept_header_contains_text_html BY DEF Served
  <2>2. accept_header_contains_text_html => \E i, l, r : NamedAt(i, l, r)
    <3> SUFFICES ASSUME accept_header_contains_text_html
                 PROVE  \E i, l, r : NamedAt(i, l, r)
      OBVIOUS
    <3>1. PICK v \in PiecesOf(accept, "next") :
            /\ \A x \in 1 .. Len(v) : v[x] # "bad"
            /\ \E e \in PiecesOf(v, "comma") :
                 Trimmed(BeforeParameters(e)) = <<"html">>
      BY DEF accept_header_contains_text_html
    <3>2. PICK e \in PiecesOf(v, "comma") :
            Trimmed(BeforeParameters(e)) = <<"html">>
      BY <3>1
    <3>3. PICK i, l, r, a, b : Span(accept, i, l, r, a, b)
      <4>1. \E i, l, r, a, b : Span(accept, i, l, r, a, b)
        BY <3>1, <3>2, HtmlFound
      <4> QED BY <4>1
    <3> QED BY <3>3, SpanIsNamed
  <2>3. ASSUME NEW i, NEW l, NEW r, NamedAt(i, l, r)
        PROVE  accept_header_contains_text_html
    <3>1. PICK a, b : Span(accept, i, l, r, a, b) BY <2>3, NamedIsSpan
    <3> QED BY <3>1, HtmlServed DEF accept_header_contains_text_html
  <2>4. Served = "html" <=> \E i, l, r : NamedAt(i, l, r)
    BY <2>1, <2>2, <2>3
  <2> QED BY <2>4 DEF HtmlIfNamed, NamedAt
<1> QED BY <1>1, <1>2, <1>3, PTL DEF HeaderSpec

-----------------------------------------------------------------------------
(* The end of the text: where an expression is that has matched all of it. *)
End == Len(text) + 1

LEMMA Downwards ==
  ASSUME NEW n \in Nat, NEW S,
         \A i \in 1 .. n : (\A j \in i + 1 .. n : j \in S) => i \in S
  PROVE  \A i \in 1 .. n : i \in S
<1> DEFINE C == {d \in 0 .. n - 1 : n - d \notin S}
<1> SUFFICES ASSUME NEW i \in 1 .. n, i \notin S PROVE FALSE OBVIOUS
<1>1. n - i \in C /\ C \subseteq Nat OBVIOUS
<1>2. \E d \in C : \A k \in C : d <= k
  <2> HIDE DEF C
  <2> QED BY <1>1, LeastNumber
<1>3. PICK d \in C : \A k \in C : d <= k BY <1>2
<1>4. n - d \in 1 .. n /\ n - d \notin S /\ d \in 0 .. n - 1 OBVIOUS
<1>5. ASSUME NEW j \in n - d + 1 .. n PROVE j \in S
  <2>1. n - j \in 0 .. n - 1 /\ ~(d <= n - j) /\ n - (n - j) = j BY <1>4
  <2> QED BY <1>3, <2>1
<1> QED BY <1>4, <1>5

-----------------------------------------------------------------------------
(* Expressions that match something if they match, or never go back.       *)
Forward(p) == \A i \in 1 .. End : p[i] = 0 \/ p[i] \in i + 1 .. End
Stays(p)   == \A i \in 1 .. End : p[i] = 0 \/ p[i] \in i .. End

LEMMA EndIs ==
  ASSUME text \in Seq(Kinds)
  PROVE  End \in Nat /\ 1 <= End /\ Positions = 1 .. End /\ End = Len(text) + 1
BY DEF End, Positions

LEMMA CharIs ==
  ASSUME text \in Seq(Kinds), NEW K
  PROVE  /\ Forward(Char(K))
         /\ \A i \in 1 .. End :
              Char(K)[i] = IF i # End /\ text[i] \in K THEN i + 1 ELSE 0
<1>1. \A i \in 1 .. End : (i <= Len(text)) <=> i # End BY EndIs
<1>2. \A i \in 1 .. End :
        Char(K)[i] = IF i # End /\ text[i] \in K THEN i + 1 ELSE 0
  BY <1>1, EndIs DEF Char
<1> QED BY <1>2, EndIs DEF Forward

LEMMA ThenIs ==
  ASSUME text \in Seq(Kinds), NEW p, NEW q
  PROVE  \A i \in 1 .. End :
           Then(p, q)[i] = IF p[i] = 0 THEN 0 ELSE q[p[i]]
BY EndIs DEF Then

LEMMA ThenType ==
  ASSUME text \in Seq(Kinds), NEW p, NEW q, Stays(p), Stays(q)
  PROVE  /\ Stays(Then(p, q))
         /\ Forward(p) \/ Forward(q) => Forward(Then(p, q))
<1> SUFFICES ASSUME NEW i \in 1 .. End
             PROVE  LET r == Then(p, q)[i]
                    IN /\ r = 0 \/ r \in i .. End
                       /\ Forward(p) \/ Forward(q) =>
                             r = 0 \/ r \in i + 1 .. End
  BY DEF Stays, Forward
<1> DEFINE r == Then(p, q)[i]
<1>1. r = IF p[i] = 0 THEN 0 ELSE q[p[i]] BY ThenIs
<1> HIDE DEF r
<1>2. CASE p[i] = 0 BY <1>1, <1>2 DEF r
<1>3. CASE p[i] # 0
  <2>1. p[i] \in i .. End /\ (Forward(p) => p[i] \in i + 1 .. End)
    BY <1>3 DEF Stays, Forward
  <2> DEFINE a == p[i]
  <2>2. a \in 1 .. End BY <2>1, EndIs
  <2>3. /\ q[a] = 0 \/ q[a] \in a .. End
        /\ Forward(q) => q[a] = 0 \/ q[a] \in a + 1 .. End
    BY <2>2 DEF Stays, Forward
  <2>4. r = q[a] BY <1>1, <1>3
  <2> HIDE DEF a
  <2>5. a \in i .. End /\ (Forward(p) => a \in i + 1 .. End) BY <2>1 DEF a
  <2> QED BY <2>3, <2>4, <2>5, EndIs DEF r
<1> QED BY <1>2, <1>3 DEF r

LEMMA ForwardStays ==
  ASSUME text \in Seq(Kinds), NEW p, Forward(p)
  PROVE  Stays(p)
BY EndIs DEF Forward, Stays

LEMMA OrElseIs ==
  ASSUME text \in Seq(Kinds), NEW p, NEW q
  PROVE  /\ \A i \in 1 .. End :
              OrElse(p, q)[i] = IF p[i] # 0 THEN p[i] ELSE q[i]
         /\ Forward(p) /\ Forward(q) => Forward(OrElse(p, q))
BY EndIs DEF OrElse, Forward

-----------------------------------------------------------------------------
(* The repetition exists: from the end of the text on, backwards.          *)
Repeats(p, f) ==
  f = [i \in 1 .. End |-> IF p[i] = 0 THEN i ELSE f[p[i]]]

LEMMA RepetitionExists ==
  ASSUME text \in Seq(Kinds), NEW p, Forward(p)
  PROVE  \E f : Repeats(p, f)
<1> DEFINE Part(i, f) ==
             f = [k \in i .. End |-> IF p[k] = 0 THEN k ELSE f[p[k]]]
           S == {i \in 1 .. End : \E f : Part(i, f)}
<1>1. End \in Nat /\ 1 <= End BY EndIs
<1>2. ASSUME NEW i \in 1 .. End, \A j \in i + 1 .. End : j \in S
      PROVE  i \in S
  <2>1. \E g : /\ DOMAIN g = i + 1 .. End
               /\ \A k \in i + 1 .. End :
                    g[k] = IF p[k] = 0 THEN k ELSE g[p[k]]
    <3>1. CASE i = End
      <4> DEFINE g == [k \in i + 1 .. End |-> k]
      <4>1. i + 1 .. End = {} BY <1>1, <3>1
      <4>2. DOMAIN g = i + 1 .. End OBVIOUS
      <4> QED BY <4>1, <4>2
    <3>2. CASE i # End
      <4>1. i + 1 \in S BY <1>1, <1>2, <3>2
      <4>2. PICK g : Part(i + 1, g) BY <4>1
      <4> QED BY <4>2
    <3> QED BY <3>1, <3>2
  <2>2. PICK g : /\ DOMAIN g = i + 1 .. End
                 /\ \A k \in i + 1 .. End :
                      g[k] = IF p[k] = 0 THEN k ELSE g[p[k]]
    BY <2>1
  <2> DEFINE f == [k \in i .. End |-> IF k # i THEN g[k]
                                      ELSE IF p[i] = 0 THEN i ELSE g[p[i]]]
  <2>3. \A k \in i .. End : k # i => k \in i + 1 .. End BY <1>1
  <2>4. \A k \in i .. End : p[k] # 0 => p[k] \in i + 1 .. End /\ p[k] # i
    <3> SUFFICES ASSUME NEW k \in i .. End, p[k] # 0
                 PROVE  p[k] \in i + 1 .. End /\ p[k] # i
      OBVIOUS
    <3>1. p[k] \in k + 1 .. End BY <1>1 DEF Forward
    <3> QED BY <1>1, <3>1
  <2>5. \A k \in i + 1 .. End : k \in i .. End /\ k # i BY <1>1
  <2>6. \A k \in i .. End : p[k] # 0 => f[p[k]] = g[p[k]]
    BY <2>4, <2>5
  <2>7. \A k \in i .. End : f[k] = IF p[k] = 0 THEN k ELSE f[p[k]]
    <3> SUFFICES ASSUME NEW k \in i .. End
                 PROVE  f[k] = IF p[k] = 0 THEN k ELSE f[p[k]]
      OBVIOUS
    <3>1. CASE k = i BY <2>6, <3>1
    <3>2. CASE k # i
      <4>1. f[k] = g[k] BY <3>2
      <4>2. g[k] = IF p[k] = 0 THEN k ELSE g[p[k]] BY <2>2, <2>3, <3>2
      <4> HIDE DEF f
      <4> QED BY <2>6, <4>1, <4>2
    <3> QED BY <3>1, <3>2
  <2>8. f = [k \in i .. End |-> f[k]] OBVIOUS
  <2>9. Part(i, f)
    <3> HIDE DEF f
    <3> QED BY <2>7, <2>8
  <2> QED BY <2>9
<1>3. 1 \in S
  <2> HIDE DEF S
  <2>1. \A i \in 1 .. End : i \in S BY <1>1, <1>2, Downwards
  <2> QED BY <1>1, <2>1
<1> QED BY <1>3 DEF Repeats

LEMMA ManyIs ==
  ASSUME text \in Seq(Kinds), NEW p, Forward(p)
  PROVE  /\ \A i \in 1 .. End :
              Many(p)[i] = IF p[i] = 0 THEN i ELSE Many(p)[p[i]]
         /\ \A i \in 1 .. End :
              Many(p)[i] \in i .. End /\ p[Many(p)[i]] = 0
<1> DEFINE m == Many(p)
<1>1. Many(p) = CHOOSE f : Repeats(p, f)
  <2>1. Positions = 1 .. End BY EndIs
  <2>2. Many(p) = CHOOSE f : f = [i \in Positions |->
                                    IF p[i] = 0 THEN i ELSE f[p[i]]]
    BY Zenon DEF Many
  <2> QED BY <2>1, <2>2, Zenon DEF Repeats
<1>2. Repeats(p, m) BY <1>1, RepetitionExists
<1> HIDE DEF m
<1>3. \A i \in 1 .. End : m[i] = IF p[i] = 0 THEN i ELSE m[p[i]]
  BY <1>2 DEF Repeats
<1> DEFINE S == {i \in 1 .. End : m[i] \in i .. End /\ p[m[i]] = 0}
<1>4. ASSUME NEW i \in 1 .. End, \A j \in i + 1 .. End : j \in S
      PROVE  i \in S
  <2>1. CASE p[i] = 0 BY <1>3, <2>1, EndIs
  <2>2. CASE p[i] # 0
    <3>1. p[i] \in i + 1 .. End BY <2>2 DEF Forward
    <3>2. m[i] = m[p[i]] /\ p[i] \in S BY <1>3, <1>4, <2>2, <3>1
    <3>3. m[i] \in p[i] .. End /\ p[m[i]] = 0 BY <3>2
    <3> QED BY <3>1, <3>3, EndIs
  <2> QED BY <2>1, <2>2
<1> HIDE DEF S
<1>5. \A i \in 1 .. End : i \in S BY <1>4, Downwards, EndIs
<1> QED BY <1>3, <1>5 DEF S, m

LEMMA ManyType ==
  ASSUME text \in Seq(Kinds), NEW p, Forward(p)
  PROVE  Stays(Many(p))
BY ManyIs DEF Stays

LEMMA SomeIs ==
  ASSUME text \in Seq(Kinds), NEW p, Forward(p)
  PROVE  /\ Forward(Some(p))
         /\ \A i \in 1 .. End :
              Some(p)[i] = IF p[i] = 0 THEN 0 ELSE Many(p)[p[i]]
BY ManyType, ForwardStays, ThenType, ThenIs DEF Some

-----------------------------------------------------------------------------
(* Runs of characters: what a repetition takes.                            *)
Run(K, i, j) == \A k \in i .. j - 1 : text[k] \in K

RunTo(K, i, j) ==
  /\ j \in i .. End
  /\ Run(K, i, j)
  /\ j # End => text[j] \notin K

LEMMA ManyChar ==
  ASSUME text \in Seq(Kinds), NEW K
  PROVE  \A i \in 1 .. End : RunTo(K, i, Many(Char(K))[i])
<1> DEFINE p == Char(K)
           m == Many(p)
           S == {i \in 1 .. End : RunTo(K, i, m[i])}
<1>1. Forward(p) /\ \A i \in 1 .. End :
                      p[i] = IF i # End /\ text[i] \in K THEN i + 1 ELSE 0
  BY CharIs
<1> HIDE DEF p
<1>2. \A i \in 1 .. End : /\ m[i] = IF p[i] = 0 THEN i ELSE m[p[i]]
                          /\ m[i] \in i .. End /\ p[m[i]] = 0
  BY <1>1, ManyIs
<1> HIDE DEF m
<1>3. ASSUME NEW i \in 1 .. End, \A j \in i + 1 .. End : j \in S
      PROVE  i \in S
  <2>1. m[i] \in 1 .. End /\ m[i] \in i .. End BY <1>2, EndIs
  <2>2. m[i] # End => text[m[i]] \notin K BY <1>1, <1>2, <2>1, EndIs
  <2>3. CASE p[i] = 0
    <3>1. m[i] = i BY <1>2, <2>3
    <3> QED BY <2>1, <2>2, <3>1, EndIs DEF RunTo, Run
  <2>4. CASE p[i] # 0
    <3>1. i # End /\ text[i] \in K /\ p[i] = i + 1 BY <1>1, <2>4
    <3>2. m[i] = m[i + 1] /\ i + 1 \in i + 1 .. End
      BY <1>2, <2>4, <3>1, EndIs
    <3>3. RunTo(K, i + 1, m[i]) BY <1>3, <3>2
    <3>4. \A k \in i .. m[i] - 1 : k = i \/ k \in i + 1 .. m[i] - 1
      BY EndIs
    <3> QED BY <2>1, <2>2, <3>1, <3>3, <3>4 DEF RunTo, Run
  <2> QED BY <2>3, <2>4
<1> HIDE DEF S
<1>4. \A i \in 1 .. End : i \in S BY <1>3, Downwards, EndIs
<1> QED BY <1>4 DEF S, m, p

LEMMA RunOnly ==
  ASSUME text \in Seq(Kinds), NEW K, NEW i \in 1 .. End, NEW j, NEW k,
         RunTo(K, i, j), RunTo(K, i, k)
  PROVE  j = k
<1>1. j \in i .. End /\ k \in i .. End /\ i \in Nat /\ End \in Nat
  BY EndIs DEF RunTo
<1>2. CASE j < k
  <2>1. j \in i .. k - 1 /\ j # End BY <1>1, <1>2
  <2> QED BY <2>1 DEF RunTo, Run
<1>3. CASE k < j
  <2>1. k \in i .. j - 1 /\ k # End BY <1>1, <1>3
  <2> QED BY <2>1 DEF RunTo, Run
<1> QED BY <1>1, <1>2, <1>3

LEMMA SomeChar ==
  ASSUME text \in Seq(Kinds), NEW K
  PROVE  /\ Forward(Some(Char(K)))
         /\ \A i \in 1 .. End :
              LET j == Some(Char(K))[i]
              IN IF i # End /\ text[i] \in K
                 THEN j \in i + 1 .. End /\ RunTo(K, i, j) ELSE j = 0
<1> DEFINE p == Char(K)
<1>1. Forward(p) /\ \A i \in 1 .. End :
                      p[i] = IF i # End /\ text[i] \in K THEN i + 1 ELSE 0
  BY CharIs
<1>2. \A i \in 1 .. End : RunTo(K, i, Many(p)[i]) BY ManyChar
<1> HIDE DEF p
<1>3. /\ Forward(Some(p))
      /\ \A i \in 1 .. End :
           Some(p)[i] = IF p[i] = 0 THEN 0 ELSE Many(p)[p[i]]
  BY <1>1, SomeIs
<1>4. ASSUME NEW i \in 1 .. End, i # End, text[i] \in K
      PROVE  Some(p)[i] \in i + 1 .. End /\ RunTo(K, i, Some(p)[i])
  <2>1. p[i] = i + 1 /\ i + 1 \in 1 .. End BY <1>1, <1>4, EndIs
  <2>2. Some(p)[i] = Many(p)[i + 1] BY <1>3, <2>1
  <2>3. RunTo(K, i + 1, Some(p)[i]) BY <1>2, <2>1, <2>2
  <2>4. Some(p)[i] \in i + 1 .. End BY <2>3 DEF RunTo
  <2>5. \A k \in i .. Some(p)[i] - 1 : k = i \/ k \in i + 1 .. Some(p)[i] - 1
    BY <2>4, EndIs
  <2>6. Some(p)[i] \in i .. End BY <2>4, EndIs
  <2> QED BY <1>4, <2>3, <2>4, <2>5, <2>6 DEF RunTo, Run
<1>5. ASSUME NEW i \in 1 .. End, ~(i # End /\ text[i] \in K)
      PROVE  Some(p)[i] = 0
  BY <1>1, <1>3, <1>5
<1> QED BY <1>3, <1>4, <1>5 DEF p

(* Two characters to choose from, as in `lo | dg`.                         *)
LEMMA CharOrElse ==
  ASSUME text \in Seq(Kinds), NEW K, NEW L
  PROVE  OrElse(Char(K), Char(L)) = Char(K \cup L)
<1>1. \A i \in Positions : /\ Char(K \cup L)[i] \in Nat
                           /\ OrElse(Char(K), Char(L))[i] = Char(K \cup L)[i]
  <2>1. \A i \in Positions : i \in 1 .. End /\ i + 1 \in Nat /\ i + 1 # 0
    BY EndIs
  <2> QED BY <2>1, CharIs, OrElseIs
<1>2. /\ OrElse(Char(K), Char(L)) =
           [i \in Positions |-> OrElse(Char(K), Char(L))[i]]
      /\ Char(K \cup L) = [i \in Positions |-> Char(K \cup L)[i]]
  BY DEF OrElse, Char
<1> QED BY <1>1, <1>2

Small  == {"lo", "dg"}
Large  == {"up", "dg"}
Alpha  == {"lo", "up"}
Alnum  == {"lo", "up", "dg"}

LEMMA KindsAre ==
  ASSUME text \in Seq(Kinds)
  PROVE  /\ lodg = Char(Small) /\ updg = Char(Large)
         /\ OrElse(alpha, dg) = Char(Alnum)
<1>1. /\ {"lo"} \cup {"dg"} = Small /\ {"up"} \cup {"dg"} = Large
      /\ {"lo", "up"} \cup {"dg"} = Alnum
  BY DEF Small, Large, Alnum
<1> QED BY <1>1, CharOrElse DEF lodg, updg, alpha, lo, up, dg

-----------------------------------------------------------------------------
(* A word of a camel name: a capital, digits, and small letters and digits *)
(* of which the first is a letter.                                         *)
Word == Then(up, Then(Many(dg), Then(Some(lo), Many(lodg))))

FirstLo(i, k) ==
  text[k] = "lo" /\ \A m \in i + 1 .. k - 1 : text[m] = "dg"

IsWord(i, j) ==
  /\ i # End /\ text[i] = "up"
  /\ RunTo(Small, i + 1, j)
  /\ \E k \in i + 1 .. j - 1 : FirstLo(i, k)

LEMMA WordType ==
  ASSUME text \in Seq(Kinds)
  PROVE  Forward(Word)
<1>1. Forward(up) /\ Forward(dg) /\ Forward(lodg) /\ Forward(Some(lo))
  BY CharIs, KindsAre, SomeChar DEF up, dg, lo
<1>2. Stays(Many(dg)) /\ Stays(Many(lodg)) /\ Stays(up) /\ Stays(Some(lo))
  BY <1>1, ManyType, ForwardStays
<1>3. Stays(Then(Some(lo), Many(lodg))) BY <1>2, ThenType
<1>4. Stays(Then(Many(dg), Then(Some(lo), Many(lodg)))) BY <1>2, <1>3, ThenType
<1> QED BY <1>1, <1>2, <1>4, ThenType DEF Word

LEMMA WordFound ==
  ASSUME text \in Seq(Kinds), NEW i \in 1 .. End, Word[i] # 0
  PROVE  IsWord(i, Word[i])
<1> DEFINE tail == Then(Some(lo), Many(lodg))
           rest == Then(Many(dg), tail)
<1>1. Word[i] = IF up[i] = 0 THEN 0 ELSE rest[up[i]] BY ThenIs DEF Word
<1>2. up[i] = IF i # End /\ text[i] = "up" THEN i + 1 ELSE 0
  BY CharIs DEF up
<1>3. i # End /\ text[i] = "up" /\ i + 1 \in 1 .. End /\ i \in Nat
      /\ Word[i] = rest[i + 1] /\ End \in Nat
  BY <1>1, <1>2, EndIs
<1> DEFINE a == Many(dg)[i + 1]
<1>4. RunTo({"dg"}, i + 1, a) BY <1>3, ManyChar DEF dg
<1>5. a \in i + 1 .. End /\ a \in 1 .. End BY <1>3, <1>4, EndIs DEF RunTo
<1>6. rest[i + 1] = IF a = 0 THEN 0 ELSE tail[a] BY <1>3, ThenIs
<1> HIDE DEF a
<1>7. Word[i] = tail[a] BY <1>3, <1>5, <1>6
<1> DEFINE b == Some(lo)[a]
<1>8. tail[a] = IF b = 0 THEN 0 ELSE Many(lodg)[b] BY <1>5, ThenIs
<1>9. IF a # End /\ text[a] = "lo"
      THEN b \in a + 1 .. End /\ RunTo({"lo"}, a, b) ELSE b = 0
  BY <1>5, SomeChar DEF lo
<1> HIDE DEF b
<1>10. /\ a # End /\ text[a] = "lo" /\ b \in a + 1 .. End
       /\ RunTo({"lo"}, a, b) /\ Word[i] = Many(lodg)[b]
  BY <1>7, <1>8, <1>9
<1>11. b \in 1 .. End BY <1>5, <1>10, EndIs
<1> DEFINE c == Word[i]
<1>12. RunTo(Small, b, c) BY <1>10, <1>11, ManyChar, KindsAre
<1> HIDE DEF c
<1>13. c \in b .. End /\ (c # End => text[c] \notin Small)
  BY <1>12 DEF RunTo
<1>14. ASSUME NEW k \in i + 1 .. c - 1 PROVE text[k] \in Small
  <2>1. k \in i + 1 .. a - 1 \/ k \in a .. b - 1 \/ k \in b .. c - 1
    BY <1>5, <1>10, <1>13, EndIs
  <2> QED BY <1>4, <1>10, <1>12, <2>1 DEF RunTo, Run, Small
<1>15. RunTo(Small, i + 1, c)
  <2>1. c \in i + 1 .. End BY <1>5, <1>10, <1>13, EndIs
  <2> QED BY <1>13, <1>14, <2>1 DEF RunTo, Run
<1>16. a \in i + 1 .. c - 1 BY <1>5, <1>10, <1>13, EndIs
<1>17. FirstLo(i, a) BY <1>4, <1>10 DEF RunTo, Run, FirstLo
<1> QED BY <1>3, <1>15, <1>16, <1>17 DEF IsWord, c

LEMMA WordTaken ==
  ASSUME text \in Seq(Kinds), NEW i \in 1 .. End, NEW j, IsWord(i, j)
  PROVE  Word[i] = j
<1> DEFINE tail == Then(Some(lo), Many(lodg))
           rest == Then(Many(dg), tail)
<1>1. PICK k \in i + 1 .. j - 1 : FirstLo(i, k) BY DEF IsWord
<1>2. /\ i # End /\ text[i] = "up" /\ RunTo(Small, i + 1, j)
      /\ j \in i + 1 .. End
  BY DEF IsWord, RunTo
<1>3. Word[i] = IF up[i] = 0 THEN 0 ELSE rest[up[i]] BY ThenIs DEF Word
<1>4. up[i] = i + 1 BY <1>2, CharIs DEF up
<1>5. /\ i + 1 \in 1 .. End /\ k \in 1 .. End /\ k # End /\ i \in Nat
      /\ End \in Nat
  BY <1>1, <1>2, EndIs
<1>6. Word[i] = rest[i + 1] BY <1>3, <1>4, <1>5
<1> DEFINE a == Many(dg)[i + 1]
<1>7. RunTo({"dg"}, i + 1, a) BY <1>5, ManyChar DEF dg
<1>8. RunTo({"dg"}, i + 1, k)
  <2>1. k \in i + 1 .. End BY <1>1, <1>2, <1>5
  <2> QED BY <1>1, <2>1 DEF RunTo, Run, FirstLo
<1>9. a = k BY <1>5, <1>7, <1>8, RunOnly
<1>10. rest[i + 1] = IF a = 0 THEN 0 ELSE tail[a] BY <1>5, ThenIs
<1> HIDE DEF a
<1>11. Word[i] = tail[k] BY <1>5, <1>6, <1>9, <1>10
<1> DEFINE b == Some(lo)[k]
<1>12. tail[k] = IF b = 0 THEN 0 ELSE Many(lodg)[b] BY <1>5, ThenIs
<1>13. b \in k + 1 .. End /\ RunTo({"lo"}, k, b)
  BY <1>1, <1>5, SomeChar DEF lo, FirstLo
<1> HIDE DEF b
<1>14. b \in 1 .. End /\ Word[i] = Many(lodg)[b]
  BY <1>5, <1>11, <1>12, <1>13, EndIs
<1>15. RunTo(Small, b, Word[i]) BY <1>14, ManyChar, KindsAre
<1>16. b <= j
  <2>1. SUFFICES ASSUME ~(b <= j) PROVE FALSE OBVIOUS
  <2>2. j \in k .. b - 1 /\ j # End BY <1>1, <1>2, <1>5, <1>13, <2>1
  <2> QED BY <1>2, <1>13, <2>2 DEF RunTo, Run, Small
<1>17. RunTo(Small, b, j)
  <2>1. j \in b .. End BY <1>2, <1>5, <1>13, <1>16
  <2>2. \A x \in b .. j - 1 : x \in i + 1 .. j - 1
    BY <1>1, <1>2, <1>5, <1>13
  <2> QED BY <1>2, <2>1, <2>2 DEF RunTo, Run
<1> QED BY <1>14, <1>15, <1>17, RunOnly

-----------------------------------------------------------------------------
(* A name ends at a comma or with the text.                                *)
Stop(e) == e \in 1 .. End /\ (e # End => text[e] = "comma")

Caps(s, e) ==
  \A k \in s .. e - 1 :
    /\ text[k] \in Alnum
    /\ text[k] = "up" => \E j \in k + 1 .. e - 1 : FirstLo(k, j)

LEMMA ManyWords ==
  ASSUME text \in Seq(Kinds), NEW e, Stop(e)
  PROVE  \A s \in 1 .. e :
           Many(Word)[s] = e <=> Caps(s, e) /\ (s = e \/ text[s] = "up")
<1> DEFINE m == Many(Word)
           Says(s) == m[s] = e <=> Caps(s, e) /\ (s = e \/ text[s] = "up")
           S == {s \in 1 .. e : Says(s)}
<1>1. /\ e \in Nat /\ 1 <= e /\ e \in 1 .. End /\ End \in Nat
      /\ e # End => text[e] = "comma"
  BY EndIs DEF Stop
<1>2. \A s \in 1 .. End : /\ m[s] = IF Word[s] = 0 THEN s ELSE m[Word[s]]
                          /\ m[s] \in s .. End
  BY ManyIs, WordType
<1> HIDE DEF m
<1>3. ASSUME NEW s \in 1 .. e, \A j \in s + 1 .. e : j \in S
      PROVE  s \in S
  <2>1. s \in 1 .. End /\ s \in Nat BY <1>1
  <2>2. CASE s = e
    <3>1. text[e] # "up" \/ e = End BY <1>1
    <3>2. Word[e] = 0 BY <2>1, <2>2, <3>1, WordFound DEF IsWord
    <3>3. m[s] = e BY <1>2, <2>1, <2>2, <3>2
    <3>4. Caps(s, e) BY <1>1, <2>2 DEF Caps
    <3> QED BY <2>2, <3>3, <3>4
  <2>3. CASE s # e /\ m[s] = e
    <3>1. Word[s] # 0 BY <1>2, <2>1, <2>3
    <3> DEFINE j == Word[s]
    <3>2. IsWord(s, j) BY <2>1, <3>1, WordFound
    <3>3. m[s] = m[j] BY <1>2, <2>1, <3>1
    <3> HIDE DEF j
    <3>4. j \in s + 1 .. End BY <3>2 DEF IsWord, RunTo
    <3>5. j \in 1 .. End /\ m[j] \in j .. End BY <1>2, <2>1, <3>4, EndIs
    <3>6. j \in s + 1 .. e BY <2>3, <3>3, <3>4, <3>5, <1>1
    <3>7. Caps(j, e) BY <1>3, <2>3, <3>3, <3>6
    <3>8. PICK x \in s + 1 .. j - 1 : FirstLo(s, x) BY <3>2 DEF IsWord
    <3>9. ASSUME NEW k \in s .. e - 1
          PROVE  /\ text[k] \in Alnum
                 /\ text[k] = "up" => \E y \in k + 1 .. e - 1 : FirstLo(k, y)
      <4>1. CASE k = s
        <5>1. x \in k + 1 .. e - 1 BY <1>1, <2>1, <3>6, <4>1
        <5>2. text[k] = "up" BY <3>2, <4>1 DEF IsWord
        <5> QED BY <3>8, <4>1, <5>1, <5>2 DEF Alnum
      <4>2. CASE k \in s + 1 .. j - 1
        <5>1. text[k] \in Small BY <3>2, <4>2 DEF IsWord, RunTo, Run
        <5> QED BY <5>1 DEF Small, Alnum
      <4>3. CASE k \in j .. e - 1 BY <3>7, <4>3 DEF Caps
      <4>4. k = s \/ k \in s + 1 .. j - 1 \/ k \in j .. e - 1
        BY <1>1, <2>1, <3>6
      <4> QED BY <4>1, <4>2, <4>3, <4>4
    <3>10. Caps(s, e) BY <3>9 DEF Caps
    <3>11. text[s] = "up" BY <3>2 DEF IsWord
    <3> QED BY <2>3, <3>10, <3>11
  <2>4. CASE s # e /\ Caps(s, e) /\ text[s] = "up"
    <3>1. s \in s .. e - 1 /\ s # End BY <1>1, <2>1, <2>4
    <3>2. PICK x \in s + 1 .. e - 1 : FirstLo(s, x)
      <4>1. \E x \in s + 1 .. e - 1 : FirstLo(s, x) BY <2>4, <3>1 DEF Caps
      <4> QED BY <4>1
    <3>3. s + 1 \in 1 .. End BY <1>1, <2>1, <3>1
    <3> DEFINE j == Many(Char(Small))[s + 1]
    <3>4. RunTo(Small, s + 1, j) BY <3>3, ManyChar
    <3> HIDE DEF j
    <3>5. j \in s + 1 .. End BY <3>4 DEF RunTo
    <3>6. j <= e
      <4>1. SUFFICES ASSUME ~(j <= e) PROVE FALSE OBVIOUS
      <4>2. e \in s + 1 .. j - 1 /\ e # End BY <1>1, <2>1, <3>1, <3>5, <4>1
      <4> QED BY <1>1, <3>4, <4>2 DEF RunTo, Run, Small
    <3>7. x < j
      <4>1. SUFFICES ASSUME ~(x < j) PROVE FALSE OBVIOUS
      <4>2. j # End /\ (j = x \/ j \in s + 1 .. x - 1)
        BY <1>1, <2>1, <3>2, <3>5, <4>1
      <4> QED BY <3>2, <3>4, <4>2, <1>1 DEF RunTo, FirstLo, Small
    <3>8. x \in s + 1 .. j - 1 BY <1>1, <2>1, <3>2, <3>5, <3>7
    <3>9. IsWord(s, j) BY <2>4, <3>1, <3>2, <3>4, <3>8 DEF IsWord
    <3>10. Word[s] = j /\ j # 0 BY <2>1, <3>5, <3>9, WordTaken
    <3>11. m[s] = m[j] BY <1>2, <2>1, <3>10
    <3>12. Caps(j, e)
      <4>1. \A k \in j .. e - 1 : k \in s .. e - 1
        BY <1>1, <2>1, <3>5
      <4> QED BY <2>4, <4>1 DEF Caps
    <3>13. j = e \/ text[j] = "up"
      <4>1. SUFFICES ASSUME j # e PROVE text[j] = "up" OBVIOUS
      <4>2. j \in s .. e - 1 /\ j # End BY <1>1, <2>1, <3>5, <3>6, <4>1
      <4>3. text[j] \in Alnum BY <2>4, <4>2 DEF Caps
      <4>4. text[j] \notin Small BY <3>4, <4>2 DEF RunTo
      <4> QED BY <4>3, <4>4 DEF Alnum, Small
    <3>14. j \in s + 1 .. e BY <1>1, <2>1, <3>5, <3>6
    <3> QED BY <1>3, <2>4, <3>11, <3>12, <3>13, <3>14
  <2> QED BY <2>2, <2>3, <2>4
<1> HIDE DEF S
<1>4. \A s \in 1 .. e : s \in S BY <1>1, <1>3, Downwards
<1> QED BY <1>4 DEF S, m

(* The names of the four rules, as stretches of the text.                  *)
CamelAt(first, s, e) ==
  /\ s < e /\ text[s] = first
  /\ \E k \in s .. e - 1 : text[k] = "up"
  /\ Caps(s, e)

LEMMA CamelCaseIs ==
  ASSUME text \in Seq(Kinds)
  PROVE  /\ Forward(camel_case)
         /\ \A s \in 1 .. End : s = End \/ text[s] # "up" => camel_case[s] = 0
         /\ \A s \in 1 .. End : camel_case[s] # 0 =>
              \E k \in s + 1 .. End : k # End /\ FirstLo(s, k)
         /\ \A e : Stop(e) =>
              \A s \in 1 .. e : camel_case[s] = e <=> CamelAt("up", s, e)
<1>1. camel_case = Some(Word) BY DEF camel_case, Word
<1>2. /\ Forward(camel_case)
      /\ \A i \in 1 .. End :
           camel_case[i] = IF Word[i] = 0 THEN 0 ELSE Many(Word)[Word[i]]
  BY <1>1, WordType, SomeIs
<1>3. \A i \in 1 .. End :
        /\ Many(Word)[i] = IF Word[i] = 0 THEN i ELSE Many(Word)[Word[i]]
        /\ Word[i] = 0 \/ Word[i] \in i + 1 .. End
        /\ Word[i] # 0 => Many(Word)[Word[i]] \in Word[i] .. End
  <2>1. \A i \in 1 .. End : Word[i] = 0 \/ Word[i] \in i + 1 .. End
    BY WordType DEF Forward
  <2>2. \A i \in 1 .. End : Word[i] # 0 => Word[i] \in 1 .. End
    <3> TAKE i \in 1 .. End
    <3>1. Word[i] = 0 \/ Word[i] \in i + 1 .. End BY <2>1
    <3> QED BY <3>1, EndIs
  <2> QED BY <2>1, <2>2, WordType, ManyIs
<1>4. ASSUME NEW s \in 1 .. End, s = End \/ text[s] # "up"
      PROVE  camel_case[s] = 0
  <2>1. Word[s] = 0 BY <1>4, WordFound DEF IsWord
  <2> QED BY <1>2, <2>1
<1>5. ASSUME NEW s \in 1 .. End, camel_case[s] # 0
      PROVE  \E k \in s + 1 .. End : k # End /\ FirstLo(s, k)
  <2>1. Word[s] # 0 BY <1>2, <1>5
  <2>2. IsWord(s, Word[s]) BY <2>1, WordFound
  <2>3. PICK k \in s + 1 .. Word[s] - 1 : FirstLo(s, k) BY <2>2 DEF IsWord
  <2>4. Word[s] \in s + 1 .. End BY <2>2 DEF IsWord, RunTo
  <2>5. k \in s + 1 .. End /\ k # End BY <2>3, <2>4, EndIs
  <2> QED BY <2>3, <2>5
<1>6. ASSUME NEW e, Stop(e), NEW s \in 1 .. e
      PROVE  camel_case[s] = e <=> CamelAt("up", s, e)
  <2>1. /\ e \in Nat /\ 1 <= e /\ s \in 1 .. End /\ End \in Nat /\ s \in Nat
        /\ e \in 1 .. End
    BY <1>6, EndIs DEF Stop
  <2>2. Many(Word)[s] = e <=> Caps(s, e) /\ (s = e \/ text[s] = "up")
    BY <1>6, ManyWords
  <2>3. CASE Word[s] = 0
    <3>1. Many(Word)[s] = s /\ camel_case[s] = 0 BY <1>2, <1>3, <2>1, <2>3
    <3>2. ~CamelAt("up", s, e)
      <4>1. SUFFICES ASSUME CamelAt("up", s, e) PROVE FALSE OBVIOUS
      <4>2. s = e BY <2>2, <3>1, <4>1 DEF CamelAt
      <4> QED BY <2>1, <4>1, <4>2 DEF CamelAt
    <3> QED BY <2>1, <3>1, <3>2
  <2>4. CASE Word[s] # 0
    <3>1. camel_case[s] = Many(Word)[s] BY <1>2, <1>3, <2>1, <2>4
    <3>2. Word[s] \in s + 1 .. End /\ Many(Word)[s] \in Word[s] .. End
      BY <1>3, <2>1, <2>4
    <3>3. Many(Word)[s] > s BY <2>1, <3>2
    <3>4. s < e => s \in s .. e - 1 BY <2>1
    <3> QED BY <2>1, <2>2, <3>1, <3>3, <3>4 DEF CamelAt
  <2> QED BY <2>3, <2>4
<1> QED BY <1>2, <1>4, <1>5, <1>6

LEMMA CamelBackIs ==
  ASSUME text \in Seq(Kinds)
  PROVE  /\ Forward(camel_back)
         /\ \A s \in 1 .. End : s = End \/ text[s] # "lo" => camel_back[s] = 0
         /\ \A s \in 1 .. End : camel_back[s] # 0 =>
              \E k \in s + 1 .. End :
                k # End /\ text[k] = "up" /\ Run(Small, s + 1, k)
         /\ \A e : Stop(e) =>
              \A s \in 1 .. e : camel_back[s] = e <=> CamelAt("lo", s, e)
<1> DEFINE tail == Then(Many(lodg), camel_case)
<1>1. Forward(lo) /\ \A i \in 1 .. End :
        lo[i] = IF i # End /\ text[i] = "lo" THEN i + 1 ELSE 0
  BY CharIs DEF lo
<1>2. Forward(camel_case) BY CamelCaseIs
<1>3. Forward(camel_back)
  <2>1. Forward(lodg) BY CharIs, KindsAre
  <2>2. Stays(Many(lodg)) /\ Stays(camel_case)
    BY <1>2, <2>1, ManyType, ForwardStays
  <2>3. Stays(tail) BY <2>2, ThenType
  <2>4. Stays(lo) BY <1>1, ForwardStays
  <2> HIDE DEF tail
  <2>5. Forward(Then(lo, tail)) BY <1>1, <2>3, <2>4, ThenType
  <2> QED BY <2>5 DEF camel_back, tail
<1>4. \A s \in 1 .. End : camel_back[s] = IF lo[s] = 0 THEN 0 ELSE tail[lo[s]]
  BY ThenIs DEF camel_back
<1>5. ASSUME NEW s \in 1 .. End, s = End \/ text[s] # "lo"
      PROVE  camel_back[s] = 0
  BY <1>1, <1>4, <1>5
<1>6. ASSUME NEW s \in 1 .. End, s # End, text[s] = "lo"
      PROVE  LET a == Many(lodg)[s + 1]
             IN RunTo(Small, s + 1, a) /\ camel_back[s] = camel_case[a]
  <2> DEFINE a == Many(lodg)[s + 1]
  <2>1. s + 1 \in 1 .. End /\ lo[s] = s + 1 /\ s + 1 # 0 BY <1>1, <1>6, EndIs
  <2>2. camel_back[s] = tail[s + 1] BY <1>4, <2>1
  <2>3. tail[s + 1] = IF a = 0 THEN 0 ELSE camel_case[a] BY <2>1, ThenIs
  <2>4. RunTo(Small, s + 1, a) BY <2>1, ManyChar, KindsAre
  <2>5. a # 0 BY <2>1, <2>4, EndIs DEF RunTo
  <2> QED BY <2>2, <2>3, <2>4, <2>5
<1> HIDE DEF tail
<1>7. ASSUME NEW s \in 1 .. End, camel_back[s] # 0
      PROVE  \E k \in s + 1 .. End :
               k # End /\ text[k] = "up" /\ Run(Small, s + 1, k)
  <2> DEFINE a == Many(lodg)[s + 1]
  <2>1. s # End /\ text[s] = "lo" BY <1>5, <1>7
  <2>2. RunTo(Small, s + 1, a) /\ camel_case[a] # 0 BY <1>6, <1>7, <2>1
  <2> HIDE DEF a
  <2>3. a \in s + 1 .. End /\ a \in 1 .. End BY <2>2, EndIs DEF RunTo
  <2>4. a # End /\ text[a] = "up" BY <2>2, <2>3, CamelCaseIs
  <2> QED BY <2>2, <2>3, <2>4 DEF RunTo
<1>8. ASSUME NEW e, Stop(e), NEW s \in 1 .. e
      PROVE  camel_back[s] = e <=> CamelAt("lo", s, e)
  <2>1. /\ e \in Nat /\ 1 <= e /\ s \in 1 .. End /\ End \in Nat /\ s \in Nat
        /\ e \in 1 .. End
        /\ e # End => text[e] = "comma"
    BY <1>8, EndIs DEF Stop
  <2>2. CASE s = End \/ text[s] # "lo"
    <3>1. camel_back[s] = 0 BY <1>5, <2>1, <2>2
    <3>2. ~CamelAt("lo", s, e) BY <2>1, <2>2 DEF CamelAt
    <3> QED BY <2>1, <3>1, <3>2
  <2>3. CASE s # End /\ text[s] = "lo"
    <3> DEFINE a == Many(lodg)[s + 1]
    <3>1. RunTo(Small, s + 1, a) /\ camel_back[s] = camel_case[a]
      BY <1>6, <2>1, <2>3
    <3> HIDE DEF a
    <3>2. a \in s + 1 .. End /\ a \in 1 .. End BY <3>1, EndIs DEF RunTo
    <3>3. s # e BY <2>1, <2>3
    <3>4. a <= e
      <4>1. SUFFICES ASSUME ~(a <= e) PROVE FALSE OBVIOUS
      <4>2. e \in s + 1 .. a - 1 /\ e # End BY <2>1, <3>2, <3>3, <4>1
      <4> QED BY <2>1, <3>1, <4>2 DEF RunTo, Run, Small
    <3>5. a \in 1 .. e /\ a \in Nat BY <2>1, <3>2, <3>4
    <3>6. camel_back[s] = e <=> CamelAt("up", a, e)
      BY <1>8, <3>1, <3>5, CamelCaseIs
    <3>7. ASSUME CamelAt("up", a, e) PROVE CamelAt("lo", s, e)
      <4>1. \E k \in s .. e - 1 : text[k] = "up"
        <5>1. a \in s .. e - 1 BY <2>1, <3>2, <3>5, <3>7 DEF CamelAt
        <5> QED BY <3>7, <5>1 DEF CamelAt
      <4>2. ASSUME NEW k \in s .. e - 1
            PROVE  /\ text[k] \in Alnum
                   /\ text[k] = "up" => \E j \in k + 1 .. e - 1 : FirstLo(k, j)
        <5>1. CASE k = s BY <2>3, <5>1 DEF Alnum
        <5>2. CASE k \in s + 1 .. a - 1
          <6>1. text[k] \in Small BY <3>1, <5>2 DEF RunTo, Run
          <6> QED BY <6>1 DEF Small, Alnum
        <5>3. CASE k \in a .. e - 1 BY <3>7, <5>3 DEF CamelAt, Caps
        <5>4. k = s \/ k \in s + 1 .. a - 1 \/ k \in a .. e - 1
          BY <2>1, <3>2, <3>5
        <5> QED BY <5>1, <5>2, <5>3, <5>4
      <4>3. Caps(s, e) BY <4>2 DEF Caps
      <4> QED BY <2>1, <2>3, <3>3, <4>1, <4>3 DEF CamelAt
    <3>8. ASSUME CamelAt("lo", s, e) PROVE CamelAt("up", a, e)
      <4>1. PICK k \in s .. e - 1 : text[k] = "up" BY <3>8 DEF CamelAt
      <4>2. a <= k
        <5>1. SUFFICES ASSUME ~(a <= k) PROVE FALSE OBVIOUS
        <5>2. k # s BY <2>3, <4>1
        <5>3. k \in s + 1 .. a - 1 BY <2>1, <3>5, <5>1, <5>2
        <5> QED BY <3>1, <4>1, <5>3 DEF RunTo, Run, Small
      <4>3. a \in s .. e - 1 /\ a # End BY <2>1, <3>2, <3>5, <4>2
      <4>4. text[a] \in Alnum BY <3>8, <4>3 DEF CamelAt, Caps
      <4>5. text[a] \notin Small BY <3>1, <4>3 DEF RunTo
      <4>6. text[a] = "up" BY <4>4, <4>5 DEF Alnum, Small
      <4>7. \A x \in a .. e - 1 : x \in s .. e - 1 BY <2>1, <4>3, <3>5
      <4>8. Caps(a, e) BY <3>8, <4>7 DEF CamelAt, Caps
      <4>9. a < e /\ a \in a .. e - 1 BY <2>1, <3>5, <4>3
      <4> QED BY <4>6, <4>8, <4>9 DEF CamelAt
    <3> QED BY <3>6, <3>7, <3>8
  <2> QED BY <2>2, <2>3
<1> QED BY <1>3, <1>5, <1>7, <1>8

-----------------------------------------------------------------------------
(* A snake name in the small or in the capital letters.                    *)
Letters(c) == {c, "dg"}
Part(c)    == Then(bar, Some(Char(Letters(c))))
SnakeRule(c) ==
  Then(Char({c}), Then(Many(Char(Letters(c))), Many(Part(c))))

LEMMA SnakeRules ==
  ASSUME text \in Seq(Kinds)
  PROVE  lower_snake = SnakeRule("lo") /\ upper_snake = SnakeRule("up")
<1>1. Letters("lo") = Small /\ Letters("up") = Large
  BY DEF Letters, Small, Large
<1> QED BY <1>1, KindsAre
        DEF lower_snake, upper_snake, SnakeRule, Part, lo, up

(* What is left of a name, from an underscore on or at its end.            *)
SnakeTail(c, s, e) ==
  /\ \A k \in s .. e - 1 : text[k] \in {c, "dg", "underscore"}
  /\ \A k \in s .. e - 2 :
       ~(text[k] = "underscore" /\ text[k + 1] = "underscore")
  /\ s < e => text[e - 1] # "underscore"

SnakeAt(c, s, e) == s < e /\ text[s] = c /\ SnakeTail(c, s, e)

LEMMA PartIs ==
  ASSUME text \in Seq(Kinds), NEW c
  PROVE  /\ Forward(Part(c))
         /\ \A i \in 1 .. End : Part(c)[i] # 0 =>
              /\ i # End /\ text[i] = "underscore"
              /\ Part(c)[i] \in i + 2 .. End
              /\ RunTo(Letters(c), i + 1, Part(c)[i])
         /\ \A i \in 1 .. End : \A j \in i + 2 .. End :
              i # End /\ text[i] = "underscore" /\ RunTo(Letters(c), i + 1, j)
                => Part(c)[i] = j
<1> DEFINE q == Some(Char(Letters(c)))
<1>1. Forward(bar) /\ \A i \in 1 .. End :
        bar[i] = IF i # End /\ text[i] = "underscore" THEN i + 1 ELSE 0
  BY CharIs DEF bar
<1>2. /\ Forward(q)
      /\ \A i \in 1 .. End :
           IF i # End /\ text[i] \in Letters(c)
           THEN q[i] \in i + 1 .. End /\ RunTo(Letters(c), i, q[i])
           ELSE q[i] = 0
  BY SomeChar
<1>3. \A i \in 1 .. End :
        Part(c)[i] = IF bar[i] = 0 THEN 0 ELSE q[bar[i]]
  BY ThenIs DEF Part
<1>4. Stays(q) /\ Stays(bar) BY <1>1, <1>2, ForwardStays
<1>5. Forward(Part(c))
  <2> HIDE DEF q
  <2>1. Forward(Then(bar, q)) BY <1>1, <1>4, ThenType
  <2> QED BY <2>1 DEF Part, q
<1> HIDE DEF q
<1>6. ASSUME NEW i \in 1 .. End, Part(c)[i] # 0
      PROVE  /\ i # End /\ text[i] = "underscore"
             /\ Part(c)[i] \in i + 2 .. End
             /\ RunTo(Letters(c), i + 1, Part(c)[i])
  <2>1. bar[i] # 0 BY <1>3, <1>6
  <2>2. i # End /\ text[i] = "underscore" /\ bar[i] = i + 1 BY <1>1, <2>1
  <2>3. i + 1 \in 1 .. End /\ i \in Nat BY <2>2, EndIs
  <2>4. Part(c)[i] = q[i + 1] BY <1>3, <2>1, <2>2
  <2>5. Part(c)[i] \in i + 1 + 1 .. End /\ RunTo(Letters(c), i + 1, q[i + 1])
    BY <1>2, <1>6, <2>3, <2>4
  <2> QED BY <2>2, <2>3, <2>4, <2>5
<1>7. ASSUME NEW i \in 1 .. End, NEW j \in i + 2 .. End,
             i # End, text[i] = "underscore", RunTo(Letters(c), i + 1, j)
      PROVE  Part(c)[i] = j
  <2>1. bar[i] = i + 1 /\ i + 1 \in 1 .. End /\ i + 1 # 0 /\ i + 1 # End
    BY <1>1, <1>7, EndIs
  <2>2. Part(c)[i] = q[i + 1] BY <1>3, <2>1
  <2>3. i + 1 \in i + 1 .. j - 1 BY EndIs
  <2>4. text[i + 1] \in Letters(c) BY <1>7, <2>3 DEF RunTo, Run
  <2>5. RunTo(Letters(c), i + 1, q[i + 1]) BY <1>2, <2>1, <2>4
  <2> QED BY <1>7, <2>1, <2>2, <2>5, RunOnly
<1> QED BY <1>5, <1>6, <1>7

LEMMA ManyParts ==
  ASSUME text \in Seq(Kinds), NEW e, Stop(e), NEW c \in Alpha
  PROVE  \A s \in 1 .. e :
           Many(Part(c))[s] = e <=>
             SnakeTail(c, s, e) /\ (s = e \/ text[s] = "underscore")
<1> DEFINE m == Many(Part(c))
           Says(s) == m[s] = e <=>
             SnakeTail(c, s, e) /\ (s = e \/ text[s] = "underscore")
           S == {s \in 1 .. e : Says(s)}
<1>1. /\ e \in Nat /\ 1 <= e /\ e \in 1 .. End /\ End \in Nat
      /\ e # End => text[e] = "comma"
  BY EndIs DEF Stop
<1>2. \A s \in 1 .. End :
        /\ m[s] = IF Part(c)[s] = 0 THEN s ELSE m[Part(c)[s]]
        /\ m[s] \in s .. End
  BY ManyIs, PartIs
<1> HIDE DEF m
<1>3. "underscore" \notin Letters(c) /\ "comma" \notin Letters(c)
      /\ Letters(c) = {c, "dg"}
  BY DEF Letters, Alpha
<1>4. ASSUME NEW s \in 1 .. e, \A j \in s + 1 .. e : j \in S
      PROVE  s \in S
  <2>1. s \in 1 .. End /\ s \in Nat BY <1>1
  <2>2. CASE s = e
    <3>1. text[e] # "underscore" \/ e = End BY <1>1
    <3>2. Part(c)[e] = 0 BY <2>1, <2>2, <3>1, PartIs
    <3>3. m[s] = e BY <1>2, <2>1, <2>2, <3>2
    <3>4. SnakeTail(c, s, e) BY <1>1, <2>2 DEF SnakeTail
    <3> QED BY <2>2, <3>3, <3>4
  <2>3. CASE s # e /\ m[s] = e
    <3>1. Part(c)[s] # 0 BY <1>2, <2>1, <2>3
    <3> DEFINE j == Part(c)[s]
    <3>2. /\ s # End /\ text[s] = "underscore"
          /\ j \in s + 2 .. End /\ RunTo(Letters(c), s + 1, j)
      BY <2>1, <3>1, PartIs
    <3>3. m[s] = m[j] BY <1>2, <2>1, <3>1
    <3> HIDE DEF j
    <3>4. j \in 1 .. End /\ m[j] \in j .. End BY <1>2, <2>1, <3>2, EndIs
    <3>5. j \in s + 2 .. e /\ j \in s + 1 .. e
      BY <1>1, <2>1, <2>3, <3>2, <3>3, <3>4
    <3>6. SnakeTail(c, j, e) /\ (j = e \/ text[j] = "underscore")
      BY <1>4, <2>3, <3>3, <3>5
    <3>7. \A k \in s + 1 .. j - 1 : text[k] \in Letters(c)
      BY <3>2 DEF RunTo, Run
    <3>8. \A k \in s .. e - 1 :
             k = s \/ k \in s + 1 .. j - 1 \/ k \in j .. e - 1
      BY <1>1, <2>1, <3>5
    <3>9. \A k \in s .. e - 1 : text[k] \in {c, "dg", "underscore"}
      BY <1>3, <3>2, <3>6, <3>7, <3>8 DEF SnakeTail
    <3>10. ASSUME NEW k \in s .. e - 2,
                  text[k] = "underscore", text[k + 1] = "underscore"
           PROVE  FALSE
      <4>1. CASE k = s
        <5>1. s + 1 \in s + 1 .. j - 1 BY <2>1, <3>5
        <5> QED BY <1>3, <3>7, <3>10, <4>1, <5>1
      <4>2. CASE k \in s + 1 .. j - 1 BY <1>3, <3>7, <3>10, <4>2
      <4>3. CASE k \in j .. e - 2 BY <3>6, <3>10, <4>3 DEF SnakeTail
      <4>4. k = s \/ k \in s + 1 .. j - 1 \/ k \in j .. e - 2
        BY <1>1, <2>1, <3>5
      <4> QED BY <4>1, <4>2, <4>3, <4>4
    <3>11. text[e - 1] # "underscore"
      <4>1. CASE j = e
        <5>1. e - 1 \in s + 1 .. j - 1 BY <1>1, <2>1, <3>5, <4>1
        <5> QED BY <1>3, <3>7, <5>1
      <4>2. CASE j # e BY <1>1, <3>5, <3>6, <4>2 DEF SnakeTail
      <4> QED BY <4>1, <4>2
    <3> QED BY <2>3, <3>2, <3>9, <3>10, <3>11 DEF SnakeTail
  <2>4. CASE s # e /\ SnakeTail(c, s, e) /\ text[s] = "underscore"
    <3>1. s < e /\ s # End /\ s + 1 \in 1 .. End BY <1>1, <2>1, <2>4
    <3>2. s # e - 1 BY <2>4, <3>1 DEF SnakeTail
    <3>3. s \in s .. e - 2 /\ s + 1 \in s .. e - 1 BY <1>1, <2>1, <3>1, <3>2
    <3>4. text[s + 1] \in Letters(c) BY <1>3, <2>4, <3>3 DEF SnakeTail
    <3> DEFINE j == Many(Char(Letters(c)))[s + 1]
    <3>5. RunTo(Letters(c), s + 1, j) BY <3>1, ManyChar
    <3> HIDE DEF j
    <3>6. j \in s + 1 .. End BY <3>5 DEF RunTo
    <3>7. j # s + 1
      <4>1. s + 1 # End BY <1>1, <3>3
      <4> QED BY <3>4, <3>5, <4>1 DEF RunTo
    <3>8. j \in s + 2 .. End BY <1>1, <2>1, <3>6, <3>7
    <3>9. j <= e
      <4>1. SUFFICES ASSUME ~(j <= e) PROVE FALSE OBVIOUS
      <4>2. e \in s + 1 .. j - 1 /\ e # End BY <1>1, <2>1, <3>1, <3>6, <4>1
      <4> QED BY <1>1, <1>3, <3>5, <4>2 DEF RunTo, Run
    <3>10. Part(c)[s] = j /\ j # 0
      <4>1. Part(c)[s] = j BY <2>1, <2>4, <3>1, <3>5, <3>8, PartIs
      <4> QED BY <2>1, <3>8, <4>1
    <3>11. m[s] = m[j] BY <1>2, <2>1, <3>10
    <3>12. SnakeTail(c, j, e)
      <4>1. /\ \A k \in j .. e - 1 : k \in s .. e - 1
            /\ \A k \in j .. e - 2 : k \in s .. e - 2
        BY <1>1, <2>1, <3>8
      <4> QED BY <2>4, <3>1, <4>1 DEF SnakeTail
    <3>13. j = e \/ text[j] = "underscore"
      <4>1. SUFFICES ASSUME j # e PROVE text[j] = "underscore" OBVIOUS
      <4>2. j \in s .. e - 1 /\ j # End BY <1>1, <2>1, <3>8, <3>9, <4>1
      <4>3. text[j] \in {c, "dg", "underscore"} BY <2>4, <4>2 DEF SnakeTail
      <4>4. text[j] \notin Letters(c) BY <3>5, <4>2 DEF RunTo
      <4> QED BY <1>3, <4>3, <4>4
    <3>14. j \in s + 1 .. e BY <1>1, <2>1, <3>8, <3>9
    <3> QED BY <1>4, <2>4, <3>11, <3>12, <3>13, <3>14
  <2> QED BY <2>2, <2>3, <2>4
<1> HIDE DEF S
<1>5. \A s \in 1 .. e : s \in S BY <1>1, <1>4, Downwards
<1> QED BY <1>5 DEF S, m

LEMMA SnakeIs ==
  ASSUME text \in Seq(Kinds), NEW c \in Alpha
  PROVE  /\ Forward(SnakeRule(c))
         /\ \A s \in 1 .. End : s = End \/ text[s] # c => SnakeRule(c)[s] = 0
         /\ \A e : Stop(e) =>
              \A s \in 1 .. e : SnakeRule(c)[s] = e <=> SnakeAt(c, s, e)
<1> DEFINE p    == Char({c})
           run  == Many(Char(Letters(c)))
           tail == Then(run, Many(Part(c)))
<1>1. Forward(p) /\ \A i \in 1 .. End :
        p[i] = IF i # End /\ text[i] = c THEN i + 1 ELSE 0
  BY CharIs
<1>2. Stays(p) /\ Stays(tail)
  <2>1. Forward(Char(Letters(c))) /\ Forward(Part(c)) BY CharIs, PartIs
  <2>2. Stays(run) /\ Stays(Many(Part(c))) BY <2>1, ManyType
  <2> QED BY <1>1, <2>2, ForwardStays, ThenType
<1>3. \A i \in 1 .. End : RunTo(Letters(c), i, run[i]) BY ManyChar
<1> HIDE DEF p, run
<1>4. \A i \in 1 .. End : tail[i] = IF run[i] = 0 THEN 0
                                    ELSE Many(Part(c))[run[i]]
  BY ThenIs
<1> HIDE DEF tail
<1>5. \A i \in 1 .. End : SnakeRule(c)[i] = IF p[i] = 0 THEN 0 ELSE tail[p[i]]
  BY ThenIs DEF SnakeRule, p, run, tail
<1>6. Forward(SnakeRule(c))
  <2>1. Forward(Then(p, tail)) BY <1>1, <1>2, ThenType
  <2> QED BY <2>1 DEF SnakeRule, p, run, tail
<1>7. ASSUME NEW s \in 1 .. End, s = End \/ text[s] # c
      PROVE  SnakeRule(c)[s] = 0
  BY <1>1, <1>5, <1>7
<1>8. ASSUME NEW e, Stop(e), NEW s \in 1 .. e
      PROVE  SnakeRule(c)[s] = e <=> SnakeAt(c, s, e)
  <2>1. /\ e \in Nat /\ 1 <= e /\ s \in 1 .. End /\ End \in Nat /\ s \in Nat
        /\ e \in 1 .. End
        /\ e # End => text[e] = "comma"
    BY <1>8, EndIs DEF Stop
  <2>2. CASE s = End \/ text[s] # c
    <3>1. SnakeRule(c)[s] = 0 BY <1>7, <2>1, <2>2
    <3>2. ~SnakeAt(c, s, e) BY <2>1, <2>2 DEF SnakeAt
    <3> QED BY <2>1, <3>1, <3>2
  <2>3. CASE s # End /\ text[s] = c
    <3> DEFINE a == run[s + 1]
    <3>1. s + 1 \in 1 .. End /\ p[s] = s + 1 /\ s + 1 # 0
      BY <1>1, <2>1, <2>3
    <3>2. RunTo(Letters(c), s + 1, a) BY <1>3, <3>1
    <3>3. a \in s + 1 .. End /\ a \in 1 .. End /\ a # 0
      BY <2>1, <3>2 DEF RunTo
    <3>4. SnakeRule(c)[s] = Many(Part(c))[a] BY <1>4, <1>5, <2>1, <3>1, <3>3
    <3> HIDE DEF a
    <3>5. "underscore" \notin Letters(c) /\ "comma" \notin Letters(c)
          /\ Letters(c) = {c, "dg"} /\ c # "comma" /\ c # "underscore"
      BY DEF Letters, Alpha
    <3>6. s # e BY <2>1, <2>3, <3>5
    <3>7. a <= e
      <4>1. SUFFICES ASSUME ~(a <= e) PROVE FALSE OBVIOUS
      <4>2. e \in s + 1 .. a - 1 /\ e # End BY <2>1, <3>3, <3>6, <4>1
      <4> QED BY <2>1, <3>2, <3>5, <4>2 DEF RunTo, Run
    <3>8. a \in 1 .. e /\ a \in Nat BY <2>1, <3>3, <3>7
    <3>9. SnakeRule(c)[s] = e <=>
            SnakeTail(c, a, e) /\ (a = e \/ text[a] = "underscore")
      BY <1>8, <3>4, <3>8, ManyParts
    <3>10. \A k \in s + 1 .. a - 1 : text[k] \in Letters(c)
      BY <3>2 DEF RunTo, Run
    <3>11. ASSUME SnakeTail(c, a, e) PROVE SnakeAt(c, s, e)
      <4>1. \A k \in s .. e - 1 :
              k = s \/ k \in s + 1 .. a - 1 \/ k \in a .. e - 1
        BY <2>1, <3>3, <3>8
      <4>2. \A k \in s .. e - 1 : text[k] \in {c, "dg", "underscore"}
        BY <2>3, <3>5, <3>10, <3>11, <4>1 DEF SnakeTail
      <4>3. ASSUME NEW k \in s .. e - 2,
                   text[k] = "underscore", text[k + 1] = "underscore"
            PROVE  FALSE
        <5>1. k = s \/ k \in s + 1 .. a - 1 \/ k \in a .. e - 2
          BY <2>1, <3>3, <3>8
        <5> QED BY <2>3, <3>5, <3>10, <3>11, <4>3, <5>1 DEF SnakeTail
      <4>4. text[e - 1] # "underscore"
        <5>1. CASE a # e BY <2>1, <3>8, <3>11, <5>1 DEF SnakeTail
        <5>2. CASE a = e
          <6>1. e - 1 = s \/ e - 1 \in s + 1 .. a - 1
            BY <2>1, <3>3, <5>2
          <6> QED BY <2>3, <3>5, <3>10, <6>1
        <5> QED BY <5>1, <5>2
      <4>5. s < e BY <2>1, <3>6
      <4> QED BY <2>3, <4>2, <4>3, <4>4, <4>5 DEF SnakeAt, SnakeTail
    <3>12. ASSUME SnakeAt(c, s, e)
           PROVE  SnakeTail(c, a, e) /\ (a = e \/ text[a] = "underscore")
      <4>1. /\ \A k \in a .. e - 1 : k \in s .. e - 1
            /\ \A k \in a .. e - 2 : k \in s .. e - 2
        BY <2>1, <3>3
      <4>2. SnakeTail(c, a, e) BY <3>12, <4>1 DEF SnakeAt, SnakeTail
      <4>3. ASSUME a # e PROVE text[a] = "underscore"
        <5>1. a \in a .. e - 1 /\ a # End BY <2>1, <3>8, <4>3
        <5>2. text[a] \in {c, "dg", "underscore"} BY <4>2, <5>1 DEF SnakeTail
        <5>3. text[a] \notin Letters(c) BY <3>2, <5>1 DEF RunTo
        <5> QED BY <3>5, <5>2, <5>3
      <4> QED BY <4>2, <4>3
    <3> QED BY <3>9, <3>11, <3>12
  <2> QED BY <2>2, <2>3
<1> QED BY <1>6, <1>7, <1>8

-----------------------------------------------------------------------------
(* The rule that describes a name is the first that matches a beginning of *)
(* it.                                                                     *)
LEMMA CamelBackFirst ==
  ASSUME text \in Seq(Kinds), NEW s \in 1 .. End, text[s] = "lo"
  PROVE  camel_case[s] = 0
BY CamelCaseIs

LEMMA LowerSnakeFirst ==
  ASSUME text \in Seq(Kinds), NEW e, Stop(e), NEW s \in 1 .. e,
         SnakeAt("lo", s, e)
  PROVE  camel_case[s] = 0 /\ camel_back[s] = 0
<1>1. /\ e \in Nat /\ s \in Nat /\ s \in 1 .. End /\ End \in Nat
      /\ e \in 1 .. End
      /\ e # End => text[e] = "comma"
  BY EndIs DEF Stop
<1>2. text[s] = "lo" /\ s < e BY DEF SnakeAt
<1>3. camel_case[s] = 0 BY <1>1, <1>2, CamelBackFirst
<1>4. camel_back[s] = 0
  <2> SUFFICES ASSUME camel_back[s] # 0 PROVE FALSE OBVIOUS
  <2>1. PICK k \in s + 1 .. End :
               k # End /\ text[k] = "up" /\ Run(Small, s + 1, k)
    <3>1. \E k \in s + 1 .. End :
            k # End /\ text[k] = "up" /\ Run(Small, s + 1, k)
      BY <1>1, CamelBackIs
    <3> QED BY <3>1
  <2>2. CASE k \in s .. e - 1
    BY <2>1, <2>2 DEF SnakeAt, SnakeTail
  <2>3. CASE k = e BY <1>1, <2>1, <2>3
  <2>4. CASE e \in s + 1 .. k - 1
    <3>1. e # End BY <1>1, <2>1, <2>4
    <3> QED BY <1>1, <2>1, <2>4, <3>1 DEF Run, Small
  <2> QED BY <1>1, <1>2, <2>1, <2>2, <2>3, <2>4
<1> QED BY <1>3, <1>4

LEMMA UpperSnakeFirst ==
  ASSUME text \in Seq(Kinds), NEW e, Stop(e), NEW s \in 1 .. e,
         SnakeAt("up", s, e)
  PROVE  camel_case[s] = 0 /\ camel_back[s] = 0 /\ lower_snake[s] = 0
<1>1. /\ e \in Nat /\ s \in Nat /\ s \in 1 .. End /\ End \in Nat
      /\ e \in 1 .. End
      /\ e # End => text[e] = "comma"
  BY EndIs DEF Stop
<1>2. text[s] = "up" /\ s < e BY DEF SnakeAt
<1>3. camel_back[s] = 0 BY <1>1, <1>2, CamelBackIs
<1>4. lower_snake[s] = 0
  <2>1. SnakeRule("lo")[s] = 0 BY <1>1, <1>2, SnakeIs DEF Alpha
  <2> QED BY <2>1, SnakeRules
<1>5. camel_case[s] = 0
  <2> SUFFICES ASSUME camel_case[s] # 0 PROVE FALSE OBVIOUS
  <2>1. PICK k \in s + 1 .. End : k # End /\ FirstLo(s, k)
    <3>1. \E k \in s + 1 .. End : k # End /\ FirstLo(s, k)
      BY <1>1, CamelCaseIs
    <3> QED BY <3>1
  <2>2. CASE k \in s .. e - 1
    BY <2>1, <2>2 DEF SnakeAt, SnakeTail, FirstLo
  <2>3. CASE k = e BY <1>1, <2>1, <2>3 DEF FirstLo
  <2>4. CASE e \in s + 1 .. k - 1
    <3>1. e # End BY <1>1, <2>1, <2>4
    <3> QED BY <1>1, <2>1, <2>4, <3>1 DEF FirstLo
  <2> QED BY <1>1, <1>2, <2>1, <2>2, <2>3, <2>4
<1> QED BY <1>3, <1>4, <1>5

LEMMA LowerIs ==
  ASSUME text \in Seq(Kinds)
  PROVE  /\ Forward(lower_snake)
         /\ \A e : Stop(e) =>
              \A s \in 1 .. e : lower_snake[s] = e <=> SnakeAt("lo", s, e)
BY SnakeIs, SnakeRules DEF Alpha

LEMMA UpperIs ==
  ASSUME text \in Seq(Kinds)
  PROVE  /\ Forward(upper_snake)
         /\ \A e : Stop(e) =>
              \A s \in 1 .. e : upper_snake[s] = e <=> SnakeAt("up", s, e)
BY SnakeIs, SnakeRules DEF Alpha

NameAt(s, e) ==
  \/ CamelAt("up", s, e) \/ CamelAt("lo", s, e)
  \/ SnakeAt("lo", s, e) \/ SnakeAt("up", s, e)

LEMMA SingleTermIs ==
  ASSUME text \in Seq(Kinds)
  PROVE  /\ Forward(single_term)
         /\ \A s \in 1 .. End :
              single_term[s] = IF camel_case[s] # 0 THEN camel_case[s]
                               ELSE IF camel_back[s] # 0 THEN camel_back[s]
                               ELSE IF lower_snake[s] # 0 THEN lower_snake[s]
                               ELSE upper_snake[s]
         /\ \A e : Stop(e) =>
              \A s \in 1 .. e : single_term[s] = e <=> NameAt(s, e)
<1> DEFINE q == OrElse(lower_snake, upper_snake)
           p == OrElse(camel_back, q)
<1>1. /\ Forward(camel_case) /\ Forward(camel_back)
      /\ Forward(lower_snake) /\ Forward(upper_snake)
  BY CamelCaseIs, CamelBackIs, LowerIs, UpperIs
<1>2. Forward(q) /\ \A s \in 1 .. End :
        q[s] = IF lower_snake[s] # 0 THEN lower_snake[s] ELSE upper_snake[s]
  BY <1>1, OrElseIs
<1> HIDE DEF q
<1>3. Forward(p) /\ \A s \in 1 .. End :
        p[s] = IF camel_back[s] # 0 THEN camel_back[s] ELSE q[s]
  BY <1>1, <1>2, OrElseIs
<1> HIDE DEF p
<1>4. single_term = OrElse(camel_case, p) BY DEF single_term, p, q
<1>5. Forward(single_term) /\ \A s \in 1 .. End :
        single_term[s] = IF camel_case[s] # 0 THEN camel_case[s] ELSE p[s]
  BY <1>1, <1>3, <1>4, OrElseIs
<1>6. \A s \in 1 .. End :
        single_term[s] = IF camel_case[s] # 0 THEN camel_case[s]
                         ELSE IF camel_back[s] # 0 THEN camel_back[s]
                         ELSE IF lower_snake[s] # 0 THEN lower_snake[s]
                         ELSE upper_snake[s]
  BY <1>2, <1>3, <1>5
<1>7. ASSUME NEW e, Stop(e), NEW s \in 1 .. e
      PROVE  single_term[s] = e <=> NameAt(s, e)
  <2>1. e # 0 /\ s \in 1 .. End BY <1>7, EndIs DEF Stop
  <2>2. /\ camel_case[s] = e <=> CamelAt("up", s, e)
        /\ camel_back[s] = e <=> CamelAt("lo", s, e)
    BY <1>7, CamelCaseIs, CamelBackIs
  <2>3. /\ lower_snake[s] = e <=> SnakeAt("lo", s, e)
        /\ upper_snake[s] = e <=> SnakeAt("up", s, e)
    BY <1>7, LowerIs, UpperIs
  <2>4. CamelAt("lo", s, e) => camel_case[s] = 0
    BY <2>1, CamelBackFirst DEF CamelAt
  <2>5. SnakeAt("lo", s, e) => camel_case[s] = 0 /\ camel_back[s] = 0
    BY <1>7, LowerSnakeFirst
  <2>6. SnakeAt("up", s, e) =>
          camel_case[s] = 0 /\ camel_back[s] = 0 /\ lower_snake[s] = 0
    BY <1>7, UpperSnakeFirst
  <2>7. /\ NameAt(s, e) <=> \/ CamelAt("up", s, e) \/ CamelAt("lo", s, e)
                            \/ SnakeAt("lo", s, e) \/ SnakeAt("up", s, e)
        /\ single_term[s] = IF camel_case[s] # 0 THEN camel_case[s]
                            ELSE IF camel_back[s] # 0 THEN camel_back[s]
                            ELSE IF lower_snake[s] # 0 THEN lower_snake[s]
                            ELSE upper_snake[s]
    BY <1>6, <2>1 DEF NameAt
  <2> QED BY ONLY <2>1, <2>2, <2>3, <2>4, <2>5, <2>6, <2>7
<1> QED BY <1>5, <1>6, <1>7

-----------------------------------------------------------------------------
(* A stretch of the text as a text of its own.                             *)
Cut(t, s, e) ==
  /\ Len(t) = e - s
  /\ \A i \in 1 .. e - s : t[i] = text[s + i - 1]

LEMMA CamelCut ==
  ASSUME text \in Seq(Kinds), NEW e \in 1 .. End, NEW s \in 1 .. e,
         NEW t \in Seq(Kinds), Cut(t, s, e), NEW first
  PROVE  Camel(t, first) <=> CamelAt(first, s, e)
<1> DEFINE n == e - s
<1>1. /\ e \in Nat /\ s \in Nat /\ n \in Nat /\ n = Len(t) /\ e = s + n
      /\ \A i \in 1 .. n : t[i] = text[s + i - 1]
  BY EndIs DEF Cut
<1>2. /\ \A i \in 1 .. n : s + i - 1 \in s .. e - 1
      /\ \A k \in s .. e - 1 : /\ k - s + 1 \in 1 .. n
                               /\ t[k - s + 1] = text[k]
                               /\ s + (k - s + 1) - 1 = k
  <2> HIDE DEF n
  <2>1. \A i \in 1 .. n : s + i - 1 \in s .. e - 1 BY <1>1
  <2>2. \A k \in s .. e - 1 : /\ k - s + 1 \in 1 .. n
                              /\ s + (k - s + 1) - 1 = k
    BY <1>1
  <2> QED BY <1>1, <2>1, <2>2
<1>3. (t # <<>>) <=> s < e BY <1>1
<1> HIDE DEF n
<1>4. s < e => t[1] = text[s]
  <2> SUFFICES ASSUME s < e PROVE t[1] = text[s] OBVIOUS
  <2>1. s \in s .. e - 1 /\ s - s + 1 = 1 BY <1>1
  <2> QED BY <1>2, <2>1
<1>5. (\E i \in 1 .. n : t[i] = "up") <=> \E k \in s .. e - 1 : text[k] = "up"
  <2>1. ASSUME NEW i \in 1 .. n, t[i] = "up"
        PROVE  \E k \in s .. e - 1 : text[k] = "up"
    BY <1>1, <1>2, <2>1
  <2>2. ASSUME NEW k \in s .. e - 1, text[k] = "up"
        PROVE  \E i \in 1 .. n : t[i] = "up"
    BY <1>2, <2>2
  <2> QED BY <2>1, <2>2
<1>6. Only(t, Alnum) <=> \A k \in s .. e - 1 : text[k] \in Alnum
  <2>1. ASSUME \A i \in 1 .. n : t[i] \in Alnum, NEW k \in s .. e - 1
        PROVE  text[k] \in Alnum
    BY <1>2, <2>1
  <2>2. ASSUME \A k \in s .. e - 1 : text[k] \in Alnum, NEW i \in 1 .. n
        PROVE  t[i] \in Alnum
    BY <1>1, <1>2, <2>2
  <2>3. Only(t, Alnum) <=> \A i \in 1 .. n : t[i] \in Alnum BY <1>1 DEF Only
  <2> QED BY <2>1, <2>2, <2>3
<1>7. ASSUME NEW i \in 1 .. n
      PROVE  (\E j \in i + 1 .. n : t[j] = "lo" /\ \A k \in i + 1 .. j - 1 :
                                                     t[k] = "dg")
               <=> \E j \in s + i .. e - 1 : FirstLo(s + i - 1, j)
  <2>1. i \in Nat /\ (s + i - 1) + 1 = s + i BY <1>1
  <2>2. ASSUME NEW j \in i + 1 .. n
        PROVE  /\ s + j - 1 \in s + i .. e - 1
               /\ t[j] = "lo" /\ (\A k \in i + 1 .. j - 1 : t[k] = "dg")
                    => FirstLo(s + i - 1, s + j - 1)
    <3>1. s + j - 1 \in s + i .. e - 1 /\ j \in 1 .. n BY <1>1, <2>1
    <3>2. t[j] = text[s + j - 1] BY <1>1, <3>1
    <3>3. ASSUME \A k \in i + 1 .. j - 1 : t[k] = "dg",
                 NEW m \in s + i .. s + j - 2
          PROVE  text[m] = "dg"
      <4>1. m - s + 1 \in i + 1 .. j - 1 /\ m \in s .. e - 1
        BY <1>1, <2>1, <3>1
      <4> QED BY <1>2, <3>3, <4>1
    <3>4. s + j - 1 - 1 = s + j - 2 BY <1>1, <3>1
    <3> QED BY <2>1, <3>1, <3>2, <3>3, <3>4 DEF FirstLo
  <2>3. ASSUME NEW j \in s + i .. e - 1, FirstLo(s + i - 1, j)
        PROVE  /\ j - s + 1 \in i + 1 .. n
               /\ t[j - s + 1] = "lo"
               /\ \A k \in i + 1 .. (j - s + 1) - 1 : t[k] = "dg"
    <3>1. j - s + 1 \in i + 1 .. n /\ j \in s .. e - 1 BY <1>1, <2>1
    <3>2. ASSUME NEW k \in i + 1 .. (j - s + 1) - 1 PROVE t[k] = "dg"
      <4>1. k \in 1 .. n /\ s + k - 1 \in s + i .. j - 1 BY <1>1, <2>1, <3>1
      <4> QED BY <1>1, <2>1, <2>3, <4>1 DEF FirstLo
    <3> QED BY <1>2, <2>3, <3>1, <3>2 DEF FirstLo
  <2> QED BY <2>2, <2>3
<1>8. CamelWords(t) <=>
        \A k \in s .. e - 1 :
          text[k] = "up" => \E j \in k + 1 .. e - 1 : FirstLo(k, j)
  <2>1. ASSUME CamelWords(t), NEW k \in s .. e - 1, text[k] = "up"
        PROVE  \E j \in k + 1 .. e - 1 : FirstLo(k, j)
    <3> DEFINE i == k - s + 1
    <3>1. i \in 1 .. n /\ t[i] = "up" /\ s + i - 1 = k BY <1>2, <2>1
    <3>2. s + i = k + 1 BY <1>1
    <3> HIDE DEF i
    <3>3. \E j \in i + 1 .. n :
            t[j] = "lo" /\ \A x \in i + 1 .. j - 1 : t[x] = "dg"
      BY <1>1, <2>1, <3>1 DEF CamelWords
    <3> QED BY <1>7, <3>1, <3>2, <3>3
  <2>2. ASSUME \A k \in s .. e - 1 :
                 text[k] = "up" => \E j \in k + 1 .. e - 1 : FirstLo(k, j),
               NEW i \in 1 .. n, t[i] = "up"
        PROVE  \E j \in i + 1 .. n :
                 t[j] = "lo" /\ \A k \in i + 1 .. j - 1 : t[k] = "dg"
    <3> DEFINE k == s + i - 1
    <3>1. k \in s .. e - 1 /\ text[k] = "up" BY <1>1, <1>2, <2>2
    <3>2. k + 1 = s + i BY <1>1
    <3> HIDE DEF k
    <3>3. \E j \in s + i .. e - 1 : FirstLo(k, j) BY <2>2, <3>1, <3>2
    <3> QED BY <1>7, <3>3 DEF k
  <2> QED BY <1>1, <2>1, <2>2 DEF CamelWords
<1>9. Caps(s, e) <=> Only(t, Alnum) /\ CamelWords(t)
  BY <1>6, <1>8 DEF Caps
<1>10. Camel(t, first) <=>
         /\ t # <<>> /\ t[1] = first
         /\ Only(t, Alnum)
         /\ \E i \in 1 .. n : t[i] = "up"
         /\ CamelWords(t)
  BY <1>1 DEF Camel, Alnum
<1> QED BY <1>3, <1>4, <1>5, <1>9, <1>10 DEF CamelAt

LEMMA SnakeCut ==
  ASSUME text \in Seq(Kinds), NEW e \in 1 .. End, NEW s \in 1 .. e,
         NEW t \in Seq(Kinds), Cut(t, s, e), NEW c
  PROVE  Snake(t, c) <=> SnakeAt(c, s, e)
<1> DEFINE n == e - s
           K == {c, "dg", "underscore"}
<1>1. /\ e \in Nat /\ s \in Nat /\ n \in Nat /\ n = Len(t) /\ e = s + n
      /\ \A i \in 1 .. n : t[i] = text[s + i - 1]
  BY EndIs DEF Cut
<1>2. /\ \A i \in 1 .. n : s + i - 1 \in s .. e - 1
      /\ \A k \in s .. e - 1 : /\ k - s + 1 \in 1 .. n
                               /\ t[k - s + 1] = text[k]
  <2> HIDE DEF n
  <2>1. \A i \in 1 .. n : s + i - 1 \in s .. e - 1 BY <1>1
  <2>2. \A k \in s .. e - 1 : /\ k - s + 1 \in 1 .. n
                              /\ s + (k - s + 1) - 1 = k
    BY <1>1
  <2> QED BY <1>1, <2>1, <2>2
<1>3. (t # <<>>) <=> s < e BY <1>1
<1> HIDE DEF n
<1>4. s < e => t[1] = text[s] /\ t[n] = text[e - 1]
  <2> SUFFICES ASSUME s < e PROVE t[1] = text[s] /\ t[n] = text[e - 1]
    OBVIOUS
  <2>1. s \in s .. e - 1 /\ s - s + 1 = 1 BY <1>1
  <2>2. e - 1 \in s .. e - 1 /\ (e - 1) - s + 1 = n BY <1>1
  <2> QED BY <1>2, <2>1, <2>2
<1>5. Only(t, K) <=> \A k \in s .. e - 1 : text[k] \in K
  <2>1. ASSUME \A i \in 1 .. n : t[i] \in K, NEW k \in s .. e - 1
        PROVE  text[k] \in K
    BY <1>2, <2>1
  <2>2. ASSUME \A k \in s .. e - 1 : text[k] \in K, NEW i \in 1 .. n
        PROVE  t[i] \in K
    BY <1>1, <1>2, <2>2
  <2>3. Only(t, K) <=> \A i \in 1 .. n : t[i] \in K BY <1>1 DEF Only
  <2> QED BY <2>1, <2>2, <2>3
<1>6. (\A i \in 1 .. n - 1 : ~(t[i] = "underscore" /\ t[i + 1] = "underscore"))
        <=> \A k \in s .. e - 2 :
              ~(text[k] = "underscore" /\ text[k + 1] = "underscore")
  <2>1. ASSUME NEW i \in 1 .. n - 1
        PROVE  /\ s + i - 1 \in s .. e - 2
               /\ t[i] = text[s + i - 1] /\ t[i + 1] = text[(s + i - 1) + 1]
    <3>1. /\ i \in 1 .. n /\ i + 1 \in 1 .. n /\ s + i - 1 \in s .. e - 2
          /\ s + (i + 1) - 1 = (s + i - 1) + 1
      BY <1>1
    <3>2. t[i + 1] = text[s + (i + 1) - 1] BY <1>1, <3>1
    <3> QED BY <1>1, <3>1, <3>2
  <2>2. ASSUME NEW k \in s .. e - 2
        PROVE  /\ k - s + 1 \in 1 .. n - 1
               /\ t[k - s + 1] = text[k] /\ t[(k - s + 1) + 1] = text[k + 1]
    <3>1. /\ k \in s .. e - 1 /\ k + 1 \in s .. e - 1
          /\ k - s + 1 \in 1 .. n - 1 /\ (k + 1) - s + 1 = (k - s + 1) + 1
      BY <1>1
    <3>2. t[(k + 1) - s + 1] = text[k + 1] BY <1>2, <3>1
    <3> QED BY <1>2, <3>1, <3>2
  <2>3. ASSUME \A i \in 1 .. n - 1 :
                 ~(t[i] = "underscore" /\ t[i + 1] = "underscore"),
               NEW k \in s .. e - 2,
               text[k] = "underscore", text[k + 1] = "underscore"
        PROVE  FALSE
    <3> DEFINE i == k - s + 1
    <3>1. i \in 1 .. n - 1 /\ t[i] = text[k] /\ t[i + 1] = text[k + 1]
      BY <2>2
    <3> HIDE DEF i
    <3> QED BY <2>3, <3>1
  <2>4. ASSUME \A k \in s .. e - 2 :
                 ~(text[k] = "underscore" /\ text[k + 1] = "underscore"),
               NEW i \in 1 .. n - 1,
               t[i] = "underscore", t[i + 1] = "underscore"
        PROVE  FALSE
    <3> DEFINE k == s + i - 1
    <3>1. k \in s .. e - 2 /\ t[i] = text[k] /\ t[i + 1] = text[k + 1]
      BY <2>1
    <3> HIDE DEF k
    <3> QED BY <2>4, <3>1
  <2> QED BY <2>3, <2>4, Zenon
<1> QED BY <1>1, <1>3, <1>4, <1>5, <1>6 DEF Snake, SnakeAt, SnakeTail

LEMMA NameCut ==
  ASSUME text \in Seq(Kinds), NEW e \in 1 .. End, NEW s \in 1 .. e,
         NEW t \in Seq(Kinds), Cut(t, s, e)
  PROVE  IsName(t) <=> NameAt(s, e)
<1>1. /\ Camel(t, "up") <=> CamelAt("up", s, e)
      /\ Camel(t, "lo") <=> CamelAt("lo", s, e)
  BY CamelCut
<1>2. /\ Snake(t, "lo") <=> SnakeAt("lo", s, e)
      /\ Snake(t, "up") <=> SnakeAt("up", s, e)
  BY SnakeCut
<1>3. IsName(t) <=> \/ NameClasses(t)[1] \/ NameClasses(t)[2]
                    \/ NameClasses(t)[3] \/ NameClasses(t)[4]
  <2>1. /\ 1 \in 1 .. 4 /\ 2 \in 1 .. 4 /\ 3 \in 1 .. 4 /\ 4 \in 1 .. 4
        /\ \A k \in 1 .. 4 : k = 1 \/ k = 2 \/ k = 3 \/ k = 4
    OBVIOUS
  <2> QED BY <2>1, Zenon DEF IsName
<1>4. /\ NameClasses(t)[1] = Camel(t, "up")
      /\ NameClasses(t)[2] = Camel(t, "lo")
      /\ NameClasses(t)[3] = Snake(t, "lo")
      /\ NameClasses(t)[4] = Snake(t, "up")
  BY DEF NameClasses
<1> QED BY <1>1, <1>2, <1>3, <1>4 DEF NameAt

-----------------------------------------------------------------------------
(* One name.                                                               *)
LEMMA TextIs ==
  ASSUME text \in Seq(Kinds)
  PROVE  Stop(End) /\ Cut(text, 1, End) /\ 1 \in 1 .. End /\ End \in 1 .. End
BY EndIs DEF Stop, Cut

LEMMA TermIs ==
  ASSUME text \in Seq(Kinds)
  PROVE  term[1] = IF single_term[1] = End THEN End ELSE 0
<1> DEFINE q == Then(single_term, EOI)
<1>1. /\ SOI[1] = 1 /\ 1 \in 1 .. End
      /\ \A i \in 1 .. End : EOI[i] = IF i = End THEN i ELSE 0
  BY EndIs DEF SOI, EOI
<1>2. \A i \in 1 .. End : term[i] = IF SOI[i] = 0 THEN 0 ELSE q[SOI[i]]
  BY ThenIs DEF term
<1>3. \A i \in 1 .. End :
        q[i] = IF single_term[i] = 0 THEN 0 ELSE EOI[single_term[i]]
  BY ThenIs
<1> HIDE DEF q
<1>4. single_term[1] = 0 \/ single_term[1] \in 1 .. End
  <2>1. single_term[1] = 0 \/ single_term[1] \in 1 + 1 .. End
    BY <1>1, SingleTermIs DEF Forward
  <2> QED BY <2>1, EndIs
<1>5. End # 0 BY EndIs
<1> QED BY <1>1, <1>2, <1>3, <1>4, <1>5

LEMMA NameParsed ==
  ASSUME text \in Seq(Kinds), NEW k \in 1 .. 4
  PROVE  (term[1] # 0 /\ Rules[k][1] = term[1]
            /\ \A j \in 1 .. k - 1 : Rules[j][1] = 0)
           <=> NameClasses(text)[k]
<1> DEFINE s == single_term[1]
           a == camel_case[1]
           b == camel_back[1]
           c == lower_snake[1]
           d == upper_snake[1]
<1>1. /\ Stop(End) /\ 1 \in 1 .. End /\ End # 0 /\ text \in Seq(Kinds)
      /\ Cut(text, 1, End) /\ End \in 1 .. End
  BY TextIs, EndIs
<1>2. /\ a = End <=> CamelAt("up", 1, End)
      /\ b = End <=> CamelAt("lo", 1, End)
  BY <1>1, CamelCaseIs, CamelBackIs
<1>3. /\ c = End <=> SnakeAt("lo", 1, End)
      /\ d = End <=> SnakeAt("up", 1, End)
  BY <1>1, LowerIs, UpperIs
<1>4. CamelAt("lo", 1, End) => a = 0
  BY <1>1, CamelBackFirst DEF CamelAt
<1>5. SnakeAt("lo", 1, End) => a = 0 /\ b = 0
  BY <1>1, LowerSnakeFirst
<1>6. SnakeAt("up", 1, End) => a = 0 /\ b = 0 /\ c = 0
  BY <1>1, UpperSnakeFirst
<1>7. s = IF a # 0 THEN a ELSE IF b # 0 THEN b ELSE IF c # 0 THEN c ELSE d
  BY <1>1, SingleTermIs
<1>8. term[1] = IF s = End THEN End ELSE 0 BY TermIs
<1>9. /\ Camel(text, "up") <=> CamelAt("up", 1, End)
      /\ Camel(text, "lo") <=> CamelAt("lo", 1, End)
  BY <1>1, CamelCut
<1>10. /\ Snake(text, "lo") <=> SnakeAt("lo", 1, End)
       /\ Snake(text, "up") <=> SnakeAt("up", 1, End)
  BY <1>1, SnakeCut
<1>11. Rules[1][1] = a /\ Rules[2][1] = b /\ Rules[3][1] = c /\ Rules[4][1] = d
  BY DEF Rules
<1>12. /\ NameClasses(text)[1] = Camel(text, "up")
       /\ NameClasses(text)[2] = Camel(text, "lo")
       /\ NameClasses(text)[3] = Snake(text, "lo")
       /\ NameClasses(text)[4] = Snake(text, "up")
  BY DEF NameClasses
<1> HIDE DEF s, a, b, c, d
<1> DEFINE Parsed == /\ term[1] # 0 /\ Rules[k][1] = term[1]
                     /\ \A j \in 1 .. k - 1 : Rules[j][1] = 0
<1>13. k = 1 \/ k = 2 \/ k = 3 \/ k = 4 OBVIOUS
<1>14. CASE k = 1
  <2>1. Parsed <=> term[1] # 0 /\ a = term[1] BY <1>11, <1>14
  <2>2. Parsed <=> Camel(text, "up")
    BY ONLY <2>1, <1>1, <1>2, <1>7, <1>8, <1>9
  <2> HIDE DEF Parsed
  <2>3. Parsed <=> NameClasses(text)[k] BY <1>12, <1>14, <2>2
  <2> QED BY <2>3 DEF Parsed
<1>15. CASE k = 2
  <2>1. Parsed <=> term[1] # 0 /\ b = term[1] /\ a = 0
    <3>1. \A j : j \in 1 .. k - 1 <=> j = 1 BY <1>15
    <3> QED BY <1>11, <1>15, <3>1
  <2>2. Parsed <=> Camel(text, "lo")
    BY ONLY <2>1, <1>1, <1>2, <1>4, <1>7, <1>8, <1>9
  <2> HIDE DEF Parsed
  <2>3. Parsed <=> NameClasses(text)[k] BY <1>12, <1>15, <2>2
  <2> QED BY <2>3 DEF Parsed
<1>16. CASE k = 3
  <2>1. Parsed <=> term[1] # 0 /\ c = term[1] /\ a = 0 /\ b = 0
    <3>1. \A j : j \in 1 .. k - 1 <=> j = 1 \/ j = 2 BY <1>16
    <3> QED BY <1>11, <1>16, <3>1
  <2>2. Parsed <=> Snake(text, "lo")
    BY ONLY <2>1, <1>1, <1>3, <1>5, <1>7, <1>8, <1>10
  <2> HIDE DEF Parsed
  <2>3. Parsed <=> NameClasses(text)[k] BY <1>12, <1>16, <2>2
  <2> QED BY <2>3 DEF Parsed
<1>17. CASE k = 4
  <2>1. Parsed <=> term[1] # 0 /\ d = term[1] /\ a = 0 /\ b = 0 /\ c = 0
    <3>1. \A j : j \in 1 .. k - 1 <=> j = 1 \/ j = 2 \/ j = 3 BY <1>17
    <3> QED BY <1>11, <1>17, <3>1
  <2>2. Parsed <=> Snake(text, "up")
    BY ONLY <2>1, <1>1, <1>3, <1>6, <1>7, <1>8, <1>10
  <2> HIDE DEF Parsed
  <2>3. Parsed <=> NameClasses(text)[k] BY <1>12, <1>17, <2>2
  <2> QED BY <2>3 DEF Parsed
<1> QED BY <1>13, <1>14, <1>15, <1>16, <1>17

-----------------------------------------------------------------------------
(* A list of names: what is left of it, from a comma on.                   *)
More == Then(Char({"comma"}), single_term)

AllNames(a) ==
  \A c, d : Between(text, "comma", c, d) /\ a <= c => NameAt(c + 1, d)

LEMMA NoComma ==
  ASSUME NEW s, NEW e, NameAt(s, e)
  PROVE  \A k \in s .. e - 1 : text[k] # "comma"
<1> SUFFICES ASSUME NEW k \in s .. e - 1 PROVE text[k] # "comma" OBVIOUS
<1>1. CASE CamelAt("up", s, e) \/ CamelAt("lo", s, e)
  BY <1>1 DEF CamelAt, Caps, Alnum
<1>2. CASE SnakeAt("lo", s, e) BY <1>2 DEF SnakeAt, SnakeTail
<1>3. CASE SnakeAt("up", s, e) BY <1>3 DEF SnakeAt, SnakeTail
<1> QED BY <1>1, <1>2, <1>3 DEF NameAt

LEMMA NamesFrom ==
  ASSUME text \in Seq(Kinds), NEW a \in 0 .. Len(text), NEW b, Stop(b),
         a = 0 \/ text[a] = "comma", a + 1 <= b, NameAt(a + 1, b)
  PROVE  AllNames(a) <=> AllNames(b)
<1>1. /\ a \in Nat /\ b \in 1 .. End /\ End \in Nat /\ End = Len(text) + 1
      /\ b # End => text[b] = "comma"
  BY EndIs DEF Stop
<1>2. \A k \in a + 1 .. b - 1 : text[k] # "comma" BY NoComma
<1>3. ASSUME NEW c, NEW d, Between(text, "comma", c, d), a <= c
      PROVE  (c = a /\ d = b) \/ b <= c
  <2>1. /\ c \in 0 .. Len(text) /\ d \in c + 1 .. Len(text) + 1
        /\ c = 0 \/ text[c] = "comma"
        /\ d = Len(text) + 1 \/ text[d] = "comma"
        /\ \A k \in c + 1 .. d - 1 : text[k] # "comma"
    BY <1>3 DEF Between
  <2>2. CASE c # a
    <3>1. text[c] = "comma" BY <1>1, <1>3, <2>1, <2>2
    <3>2. c \notin a + 1 .. b - 1 BY <1>2, <3>1
    <3> QED BY <1>1, <1>3, <2>1, <2>2, <3>2
  <2>3. CASE c = a
    <3>1. ~(d < b)
      <4>1. SUFFICES ASSUME d < b PROVE FALSE OBVIOUS
      <4>2. d \in a + 1 .. b - 1 /\ d # Len(text) + 1 BY <1>1, <2>1, <2>3, <4>1
      <4> QED BY <1>2, <2>1, <4>2
    <3>2. ~(b < d)
      <4>1. SUFFICES ASSUME b < d PROVE FALSE OBVIOUS
      <4>2. b \in c + 1 .. d - 1 /\ b # End BY <1>1, <2>1, <2>3, <4>1
      <4> QED BY <1>1, <2>1, <4>2
    <3> QED BY <1>1, <2>1, <2>3, <3>1, <3>2
  <2> QED BY <2>2, <2>3
<1>4. ASSUME AllNames(b), NEW c, NEW d, Between(text, "comma", c, d), a <= c
      PROVE  NameAt(c + 1, d)
  <2>1. CASE c = a /\ d = b BY <2>1
  <2>2. CASE b <= c BY <1>4, <2>2 DEF AllNames
  <2> QED BY <1>3, <1>4, <2>1, <2>2
<1>5. ASSUME AllNames(a), NEW c, NEW d, Between(text, "comma", c, d), b <= c
      PROVE  NameAt(c + 1, d)
  <2>1. c \in 0 .. Len(text) BY <1>5 DEF Between
  <2>2. a <= c BY <1>1, <1>5, <2>1
  <2> QED BY <1>5, <2>2 DEF AllNames
<1>6. AllNames(b) => AllNames(a) BY <1>4 DEF AllNames
<1>7. AllNames(a) => AllNames(b) BY <1>5 DEF AllNames
<1> QED BY <1>6, <1>7

LEMMA MoreIs ==
  ASSUME text \in Seq(Kinds)
  PROVE  /\ Forward(More)
         /\ \A i \in 1 .. End :
              More[i] = IF i # End /\ text[i] = "comma"
                        THEN single_term[i + 1] ELSE 0
<1> DEFINE p == Char({"comma"})
<1>1. Forward(p) /\ \A i \in 1 .. End :
        p[i] = IF i # End /\ text[i] = "comma" THEN i + 1 ELSE 0
  BY CharIs
<1> HIDE DEF p
<1>2. \A i \in 1 .. End : More[i] = IF p[i] = 0 THEN 0 ELSE single_term[p[i]]
  BY ThenIs DEF More, p
<1>3. Stays(p) /\ Stays(single_term) BY <1>1, SingleTermIs, ForwardStays
<1>4. Forward(More)
  <2>1. Forward(Then(p, single_term)) BY <1>1, <1>3, ThenType
  <2> QED BY <2>1 DEF More, p
<1>5. \A i \in 1 .. End : i + 1 # 0 BY EndIs
<1> QED BY <1>1, <1>2, <1>4, <1>5

LEMMA ManyNames ==
  ASSUME text \in Seq(Kinds)
  PROVE  \A a \in 1 .. End :
           Many(More)[a] = End <=>
             (a = End \/ text[a] = "comma") /\ AllNames(a)
<1> DEFINE m == Many(More)
           Says(a) == m[a] = End
                    <=> (a = End \/ text[a] = "comma") /\ AllNames(a)
           S == {a \in 1 .. End : Says(a)}
<1>1. End \in Nat /\ 1 <= End /\ End = Len(text) + 1 BY EndIs
<1>2. \A a \in 1 .. End : /\ m[a] = IF More[a] = 0 THEN a ELSE m[More[a]]
                          /\ More[a] = 0 \/ More[a] \in a + 1 .. End
                          /\ More[a] = IF a # End /\ text[a] = "comma"
                                       THEN single_term[a + 1] ELSE 0
  <2>1. \A a \in 1 .. End : More[a] = 0 \/ More[a] \in a + 1 .. End
    BY MoreIs DEF Forward
  <2> QED BY <2>1, MoreIs, ManyIs
<1> HIDE DEF m
<1>3. ASSUME NEW a \in 1 .. End, \A j \in a + 1 .. End : j \in S
      PROVE  a \in S
  <2>1. a \in Nat /\ a \in 1 .. End BY <1>1
  <2>2. CASE a = End
    <3>1. m[a] = End BY <1>2, <2>2
    <3>2. AllNames(a)
      <4> SUFFICES ASSUME NEW c, NEW d, Between(text, "comma", c, d), a <= c
                   PROVE  FALSE
        BY DEF AllNames
      <4> QED BY <1>1, <2>2 DEF Between
    <3> QED BY <2>2, <3>1, <3>2
  <2>3. CASE a # End /\ text[a] # "comma"
    <3>1. m[a] = a BY <1>2, <2>3
    <3> QED BY <2>3, <3>1
  <2>4. CASE a # End /\ text[a] = "comma"
    <3>1. a + 1 \in 1 .. End /\ a \in 0 .. Len(text) BY <1>1, <2>4
    <3> DEFINE b == single_term[a + 1]
    <3>2. More[a] = b BY <1>2, <2>4
    <3>3. ASSUME m[a] = End PROVE AllNames(a)
      <4>1. More[a] # 0 BY <1>2, <2>4, <3>3
      <4>2. m[b] = End /\ b \in a + 1 .. End BY <1>2, <3>2, <3>3, <4>1
      <4> HIDE DEF b
      <4>3. (b = End \/ text[b] = "comma") /\ AllNames(b) BY <1>3, <4>2
      <4>4. Stop(b) /\ a + 1 \in 1 .. b /\ a + 1 <= b
        BY <1>1, <3>1, <4>2, <4>3 DEF Stop
      <4>5. NameAt(a + 1, b) BY <4>4, SingleTermIs DEF b
      <4> QED BY <2>4, <3>1, <4>3, <4>4, <4>5, NamesFrom
    <3>4. ASSUME AllNames(a) PROVE m[a] = End
      <4>1. PICK d \in a + 1 .. Len(text) + 1 :
                   /\ d = Len(text) + 1 \/ text[d] = "comma"
                   /\ \A k \in a + 1 .. d - 1 : text[k] # "comma"
        <5>1. \E d \in a + 1 .. Len(text) + 1 :
                /\ d = Len(text) + 1 \/ text[d] = "comma"
                /\ \A k \in a + 1 .. d - 1 : text[k] # "comma"
          BY <3>1, NextCut
        <5> QED BY <5>1
      <4>2. Between(text, "comma", a, d) BY <2>4, <3>1, <4>1 DEF Between
      <4>3. NameAt(a + 1, d) BY <2>1, <3>4, <4>2 DEF AllNames
      <4>4. Stop(d) /\ a + 1 \in 1 .. d /\ a + 1 <= d
        BY <1>1, <3>1, <4>1 DEF Stop
      <4>5. b = d BY <4>3, <4>4, SingleTermIs
      <4>6. m[a] = m[d] /\ d # 0 BY <1>1, <1>2, <3>2, <4>1, <4>5
      <4>7. AllNames(d) BY <2>4, <3>1, <3>4, <4>3, <4>4, NamesFrom
      <4>8. d \in a + 1 .. End /\ (d = End \/ text[d] = "comma")
        BY <1>1, <4>1
      <4> QED BY <1>3, <4>6, <4>7, <4>8
    <3> QED BY <2>4, <3>3, <3>4
  <2> QED BY <2>2, <2>3, <2>4
<1> HIDE DEF S
<1>4. \A a \in 1 .. End : a \in S BY <1>1, <1>3, Downwards
<1> QED BY <1>4 DEF S, m

LEMMA TermsAre ==
  ASSUME text \in Seq(Kinds)
  PROVE  (terms[1] # 0) <=> AllNames(0)
<1> DEFINE m == Many(More)
           r == Then(m, EOI)
           q == Then(single_term, r)
           a == single_term[1]
<1>1. /\ SOI[1] = 1 /\ 1 \in 1 .. End /\ End \in Nat /\ End # 0
      /\ \A i \in 1 .. End : EOI[i] = IF i = End THEN i ELSE 0
      /\ End = Len(text) + 1 /\ 0 \in 0 .. Len(text)
  BY EndIs DEF SOI, EOI
<1>2. \A i \in 1 .. End : m[i] \in i .. End
  BY MoreIs, ManyIs
<1> HIDE DEF m
<1>3. \A i \in 1 .. End : r[i] = IF m[i] = 0 THEN 0 ELSE EOI[m[i]] BY ThenIs
<1>4. \A i \in 1 .. End : (r[i] # 0) <=> m[i] = End
  <2> SUFFICES ASSUME NEW i \in 1 .. End PROVE (r[i] # 0) <=> m[i] = End
    OBVIOUS
  <2>1. m[i] \in i .. End BY <1>2
  <2>2. m[i] \in 1 .. End /\ m[i] # 0 BY <1>1, <2>1
  <2> QED BY <1>1, <1>3, <2>2
<1> HIDE DEF r
<1>5. \A i \in 1 .. End :
        q[i] = IF single_term[i] = 0 THEN 0 ELSE r[single_term[i]]
  BY ThenIs
<1>6. \A i \in 1 .. End : terms[i] = IF SOI[i] = 0 THEN 0 ELSE q[SOI[i]]
  <2>1. terms = Then(SOI, q) BY DEF terms, r, m, More
  <2> HIDE DEF q
  <2> QED BY <2>1, ThenIs
<1> HIDE DEF q
<1>7. (a = 0 \/ a \in 2 .. End) /\ (a # 0 => a \in 1 .. End)
  <2>1. a = 0 \/ a \in 1 + 1 .. End BY <1>1, SingleTermIs DEF Forward
  <2> HIDE DEF a
  <2> QED BY <1>1, <2>1
<1>8. (terms[1] # 0) <=> a # 0 /\ m[a] = End BY <1>1, <1>4, <1>5, <1>6, <1>7
<1>9. ASSUME a # 0, m[a] = End PROVE AllNames(0)
  <2>1. a \in 1 .. End BY <1>7, <1>9
  <2>2. (a = End \/ text[a] = "comma") /\ AllNames(a)
    BY <1>9, <2>1, ManyNames DEF m
  <2>3. Stop(a) /\ 1 \in 1 .. a /\ 0 + 1 <= a /\ 0 + 1 = 1
    BY <1>1, <2>1, <2>2 DEF Stop
  <2>4. NameAt(1, a) BY <2>3, SingleTermIs
  <2> QED BY <1>1, <2>2, <2>3, <2>4, NamesFrom
<1>10. ASSUME AllNames(0) PROVE a # 0 /\ m[a] = End
  <2>1. PICK i \in 0 .. Len(text) : i = 0 BY <1>1
  <2>2. PICK d \in i + 1 .. Len(text) + 1 :
               /\ d = Len(text) + 1 \/ text[d] = "comma"
               /\ \A k \in i + 1 .. d - 1 : text[k] # "comma"
    <3>1. \E d \in i + 1 .. Len(text) + 1 :
            /\ d = Len(text) + 1 \/ text[d] = "comma"
            /\ \A k \in i + 1 .. d - 1 : text[k] # "comma"
      BY NextCut
    <3> QED BY <3>1
  <2>3. NameAt(0 + 1, d) /\ 0 + 1 = 1
    <3>1. Between(text, "comma", i, d) BY <1>1, <2>1, <2>2 DEF Between
    <3>2. NameAt(i + 1, d) BY <1>10, <2>1, <3>1 DEF AllNames
    <3> QED BY <2>1, <3>2
  <2>4. Stop(d) /\ 1 \in 1 .. d /\ 0 + 1 <= d /\ d # 0
    BY <1>1, <2>1, <2>2 DEF Stop
  <2>5. a = d BY <2>3, <2>4, SingleTermIs
  <2>6. AllNames(d) BY <1>1, <1>10, <2>3, <2>4, NamesFrom
  <2>7. d \in 1 .. End /\ (d = End \/ text[d] = "comma")
    BY <1>1, <2>1, <2>2
  <2> QED BY <2>4, <2>5, <2>6, <2>7, ManyNames DEF m
<1> QED BY <1>8, <1>9, <1>10

LEMMA PiecesAreNames ==
  ASSUME text \in Seq(Kinds)
  PROVE  (\A piece \in PiecesOf(text, "comma") : IsName(piece)) <=> AllNames(0)
<1>1. /\ \A p \in PiecesOf(text, "comma") :
           \E a, b : /\ Between(text, "comma", a, b)
                     /\ p = SubSeq(text, a + 1, b - 1)
      /\ \A a, b : Between(text, "comma", a, b) =>
           SubSeq(text, a + 1, b - 1) \in PiecesOf(text, "comma")
  BY PieceIs
<1>2. ASSUME NEW a, NEW b, Between(text, "comma", a, b)
      PROVE  /\ IsName(SubSeq(text, a + 1, b - 1)) <=> NameAt(a + 1, b)
             /\ 0 <= a
  <2> DEFINE t == SubSeq(text, a + 1, b - 1)
  <2>1. /\ a \in 0 .. Len(text) /\ b \in a + 1 .. Len(text) + 1
        /\ Len(text) \in Nat
    BY <1>2 DEF Between
  <2>2. /\ t \in Seq(Kinds) /\ Len(t) = b - a - 1
        /\ \A i \in 1 .. b - a - 1 : t[i] = text[a + i]
    BY <2>1, StretchIs
  <2> HIDE DEF t
  <2>3. b - (a + 1) = b - a - 1 /\ \A i \in Nat : (a + 1) + i - 1 = a + i
    BY <2>1
  <2>4. Cut(t, a + 1, b)
    <3>1. \A i \in 1 .. b - a - 1 : (a + 1) + i - 1 = a + i BY <2>1
    <3> QED BY <2>2, <2>3, <3>1 DEF Cut
  <2>5. b \in 1 .. End /\ a + 1 \in 1 .. b BY <2>1, EndIs
  <2>6. IsName(t) <=> NameAt(a + 1, b) BY <2>2, <2>4, <2>5, NameCut
  <2> QED BY <2>1, <2>6 DEF t
<1>3. ASSUME AllNames(0), NEW p \in PiecesOf(text, "comma") PROVE IsName(p)
  <2>1. PICK a, b : /\ Between(text, "comma", a, b)
                    /\ p = SubSeq(text, a + 1, b - 1)
    BY <1>1
  <2>2. NameAt(a + 1, b) BY <1>2, <1>3, <2>1 DEF AllNames
  <2> QED BY <1>2, <2>1, <2>2
<1>4. ASSUME \A p \in PiecesOf(text, "comma") : IsName(p),
             NEW a, NEW b, Between(text, "comma", a, b)
      PROVE  NameAt(a + 1, b)
  <2>1. IsName(SubSeq(text, a + 1, b - 1)) BY <1>1, <1>4
  <2> QED BY <1>2, <1>4, <2>1
<1>5. (\A p \in PiecesOf(text, "comma") : IsName(p)) => AllNames(0)
  BY <1>4 DEF AllNames
<1> QED BY <1>3, <1>5

LEMMA NamesAreParsed ==
  ASSUME text \in Seq(Kinds)
  PROVE  NamesParsed
BY NameParsed, TermsAre, PiecesAreNames DEF NamesParsed

-----------------------------------------------------------------------------
(* Tokens.                                                                 *)
Solid == {"lo", "up", "dg", "sign"}

IsToken(i, j) ==
  /\ i # End /\ j \in i + 1 .. End
  /\ \/ text[i] \in Alpha /\ RunTo(Alnum, i, j)
     \/ text[i] = "dg" /\ RunTo({"dg"}, i, j)
     \/ text[i] = "sign" /\ j = i + 1

LEMMA IdentifierIs ==
  ASSUME text \in Seq(Kinds)
  PROVE  /\ Forward(identifier)
         /\ \A i \in 1 .. End :
              IF i # End /\ text[i] \in Alpha
              THEN identifier[i] \in i + 1 .. End
                    /\ RunTo(Alnum, i, identifier[i])
              ELSE identifier[i] = 0
<1> DEFINE q == Many(Char(Alnum))
<1>1. identifier = Then(alpha, q) BY KindsAre DEF identifier
<1>2. Forward(alpha) /\ \A i \in 1 .. End :
        alpha[i] = IF i # End /\ text[i] \in Alpha THEN i + 1 ELSE 0
  BY CharIs DEF alpha, Alpha
<1>3. Stays(q) BY CharIs, ManyType
<1>4. Stays(alpha) BY <1>2, ForwardStays
<1>5. \A i \in 1 .. End : RunTo(Alnum, i, q[i]) BY ManyChar
<1> HIDE DEF q
<1>6. Forward(identifier) BY <1>1, <1>2, <1>3, <1>4, ThenType
<1>7. \A i \in 1 .. End :
        identifier[i] = IF alpha[i] = 0 THEN 0 ELSE q[alpha[i]]
  BY <1>1, ThenIs
<1>8. ASSUME NEW i \in 1 .. End, i # End, text[i] \in Alpha
      PROVE  identifier[i] \in i + 1 .. End /\ RunTo(Alnum, i, identifier[i])
  <2>1. i + 1 \in 1 .. End /\ alpha[i] = i + 1 /\ i + 1 # 0
    BY <1>2, <1>8, EndIs
  <2>2. identifier[i] = q[i + 1] BY <1>7, <2>1
  <2> DEFINE j == identifier[i]
  <2>3. RunTo(Alnum, i + 1, j) BY <1>5, <2>1, <2>2
  <2> HIDE DEF j
  <2>4. j \in i + 1 .. End BY <2>3 DEF RunTo
  <2>5. j \in i .. End /\ \A k \in i .. j - 1 : k = i \/ k \in i + 1 .. j - 1
    BY <2>4, EndIs
  <2>6. text[i] \in Alnum BY <1>8 DEF Alpha, Alnum
  <2>7. RunTo(Alnum, i, j) BY <2>3, <2>5, <2>6 DEF RunTo, Run
  <2> QED BY <2>4, <2>7 DEF j
<1>9. ASSUME NEW i \in 1 .. End, ~(i # End /\ text[i] \in Alpha)
      PROVE  identifier[i] = 0
  BY <1>2, <1>7, <1>9
<1> QED BY <1>6, <1>8, <1>9

LEMMA TokenIs ==
  ASSUME text \in Seq(Kinds)
  PROVE  /\ Forward(token)
         /\ \A i \in 1 .. End : token[i] # 0 => IsToken(i, token[i])
         /\ \A i \in 1 .. End : i # End /\ text[i] \in Solid => token[i] # 0
<1> DEFINE q == OrElse(number, op)
<1>1. /\ Forward(number)
      /\ \A i \in 1 .. End :
           IF i # End /\ text[i] = "dg"
           THEN number[i] \in i + 1 .. End /\ RunTo({"dg"}, i, number[i])
           ELSE number[i] = 0
  BY SomeChar DEF number, dg
<1>2. Forward(op) /\ \A i \in 1 .. End :
        op[i] = IF i # End /\ text[i] = "sign" THEN i + 1 ELSE 0
  BY CharIs DEF op
<1>3. Forward(q) /\ \A i \in 1 .. End :
        q[i] = IF number[i] # 0 THEN number[i] ELSE op[i]
  BY <1>1, <1>2, OrElseIs
<1> HIDE DEF q
<1>4. Forward(token) /\ \A i \in 1 .. End :
        token[i] = IF identifier[i] # 0 THEN identifier[i] ELSE q[i]
  BY <1>3, IdentifierIs, OrElseIs DEF token, q
<1>5. ASSUME NEW i \in 1 .. End, token[i] # 0 PROVE IsToken(i, token[i])
  <2>1. CASE identifier[i] # 0
    BY <1>4, <2>1, IdentifierIs DEF IsToken
  <2>2. CASE identifier[i] = 0 /\ number[i] # 0
    <3>1. token[i] = number[i] BY <1>3, <1>4, <2>2
    <3> QED BY <1>1, <2>2, <3>1 DEF IsToken
  <2>3. CASE identifier[i] = 0 /\ number[i] = 0
    <3>1. token[i] = op[i] BY <1>3, <1>4, <2>3
    <3>2. i # End /\ text[i] = "sign" /\ token[i] = i + 1
      BY <1>2, <1>5, <3>1
    <3>3. i + 1 \in i + 1 .. End BY <3>2, EndIs
    <3> QED BY <3>2, <3>3 DEF IsToken
  <2> QED BY <2>1, <2>2, <2>3
<1>6. ASSUME NEW i \in 1 .. End, i # End, text[i] \in Solid
      PROVE  token[i] # 0
  <2>1. i + 1 # 0 /\ \A j \in i + 1 .. End : j # 0 BY EndIs
  <2>2. text[i] \in Alpha \/ text[i] = "dg" \/ text[i] = "sign"
    BY <1>6 DEF Solid, Alpha
  <2>3. CASE text[i] \in Alpha BY <1>4, <1>6, <2>1, <2>3, IdentifierIs
  <2>4. CASE text[i] = "dg" BY <1>1, <1>3, <1>4, <1>6, <2>1, <2>4
  <2>5. CASE text[i] = "sign" BY <1>2, <1>3, <1>4, <1>6, <2>1, <2>5
  <2> QED BY <2>2, <2>3, <2>4, <2>5
<1> QED BY <1>4, <1>5, <1>6

(* Spaces and a token.                                                     *)
Gap == Then(Some(Char({"space"})), token)

LEMMA GapIs ==
  ASSUME text \in Seq(Kinds)
  PROVE  /\ Forward(Gap)
         /\ \A i \in 1 .. End : Gap[i] # 0 =>
              \E s \in i + 1 .. End :
                RunTo({"space"}, i, s) /\ IsToken(s, Gap[i])
         /\ \A i \in 1 .. End : \A s \in i + 1 .. End :
              RunTo({"space"}, i, s) /\ s # End /\ text[s] \in Solid
                => Gap[i] # 0
<1> DEFINE p == Some(Char({"space"}))
<1>1. /\ Forward(p)
      /\ \A i \in 1 .. End :
           IF i # End /\ text[i] = "space"
           THEN p[i] \in i + 1 .. End /\ RunTo({"space"}, i, p[i])
           ELSE p[i] = 0
  BY SomeChar
<1> HIDE DEF p
<1>2. \A i \in 1 .. End : Gap[i] = IF p[i] = 0 THEN 0 ELSE token[p[i]]
  BY ThenIs DEF Gap, p
<1>3. Stays(p) /\ Stays(token) BY <1>1, TokenIs, ForwardStays
<1>4. Forward(Gap)
  <2>1. Forward(Then(p, token)) BY <1>1, <1>3, ThenType
  <2> QED BY <2>1 DEF Gap, p
<1>5. ASSUME NEW i \in 1 .. End, Gap[i] # 0
      PROVE  \E s \in i + 1 .. End :
               RunTo({"space"}, i, s) /\ IsToken(s, Gap[i])
  <2>1. p[i] # 0 /\ Gap[i] = token[p[i]] BY <1>2, <1>5
  <2>2. p[i] \in i + 1 .. End /\ RunTo({"space"}, i, p[i]) BY <1>1, <2>1
  <2>3. p[i] \in 1 .. End BY <2>2, EndIs
  <2>4. IsToken(p[i], Gap[i]) BY <1>5, <2>1, <2>3, TokenIs
  <2> QED BY <2>2, <2>4
<1>6. ASSUME NEW i \in 1 .. End, NEW s \in i + 1 .. End,
             RunTo({"space"}, i, s), s # End, text[s] \in Solid
      PROVE  Gap[i] # 0
  <2>1. i \in i .. s - 1 /\ s \in 1 .. End /\ s # 0 /\ i # End BY EndIs
  <2>2. text[i] = "space" BY <1>6, <2>1 DEF RunTo, Run
  <2>3. RunTo({"space"}, i, p[i]) BY <1>1, <2>1, <2>2
  <2>4. p[i] = s BY <1>6, <2>3, RunOnly
  <2> QED BY <1>2, <1>6, <2>1, <2>4, TokenIs
<1> QED BY <1>4, <1>5, <1>6

-----------------------------------------------------------------------------
(* A beginning of the text that is tokens with spaces between.             *)
Joined(i) ==
  \/ text[i] = "space" \/ text[i + 1] = "space"
  \/ text[i] = "dg" /\ text[i + 1] = "dg"
  \/ /\ text[i] \in Alnum /\ text[i + 1] \in Alnum
     /\ \E j \in 1 .. i : /\ text[j] \in Alpha
                          /\ \A k \in j .. i : text[k] \in Alnum

WordsTo(m) ==
  /\ m \in 1 .. Len(text) /\ text[1] # "space" /\ text[m] # "space"
  /\ \A i \in 1 .. m : text[i] \in Solid \/ text[i] = "space"
  /\ \A i \in 1 .. m - 1 : Joined(i)

LEMMA WordsAre ==
  ASSUME text \in Seq(Kinds), NEW m \in 1 .. Len(text)
  PROVE  Words(SubSeq(text, 1, m)) <=> WordsTo(m)
<1> DEFINE t == SubSeq(text, 1, m)
<1>1. /\ t \in Seq(Kinds) /\ Len(t) = m /\ m \in Nat /\ 1 <= m
      /\ \A i \in 1 .. m : t[i] = text[i]
  <2>1. /\ Len(text) \in Nat /\ 1 \in Int /\ m \in Int /\ 1 <= m
        /\ \A i \in 1 .. m : text[i] \in Kinds
    OBVIOUS
  <2>2. /\ t \in Seq(Kinds) /\ Len(t) = IF 1 <= m THEN m - 1 + 1 ELSE 0
        /\ \A i \in 1 .. m - 1 + 1 : t[i] = text[1 + i - 1]
    BY <2>1, SubSeqProperties
  <2>3. m - 1 + 1 = m /\ \A i \in 1 .. m : 1 + i - 1 = i BY <2>1
  <2> HIDE DEF t
  <2> QED BY <2>1, <2>2, <2>3
<1> HIDE DEF t
<1>2. t # <<>> /\ t[1] = text[1] /\ t[m] = text[m]
  <2>1. 1 \in 1 .. m /\ m \in 1 .. m BY <1>1
  <2> QED BY <1>1, <2>1
<1>3. Only(t, {"lo", "up", "dg", "sign", "space"}) <=>
        \A i \in 1 .. m : text[i] \in Solid \/ text[i] = "space"
  BY <1>1 DEF Only, Solid
<1> DEFINE Fits(i) ==
             \/ t[i] = "space" \/ t[i + 1] = "space"
             \/ t[i] = "dg" /\ t[i + 1] = "dg"
             \/ /\ t[i] \in {"lo", "up", "dg"}
                /\ t[i + 1] \in {"lo", "up", "dg"}
                /\ \E j \in 1 .. i : /\ t[j] \in {"lo", "up"}
                                     /\ \A k \in j .. i :
                                          t[k] \in {"lo", "up", "dg"}
<1>4. ASSUME NEW i \in 1 .. m - 1 PROVE Fits(i) <=> Joined(i)
  <2>1. i \in 1 .. m /\ i + 1 \in 1 .. m BY <1>1
  <2>2. t[i] = text[i] /\ t[i + 1] = text[i + 1] BY <1>1, <2>1
  <2>3. \A j \in 1 .. i : t[j] = text[j] /\ \A k \in j .. i : t[k] = text[k]
    <3>1. \A j \in 1 .. i : j \in 1 .. m /\ \A k \in j .. i : k \in 1 .. m
      BY <1>1, <2>1
    <3> QED BY <1>1, <3>1
  <2> QED BY <2>2, <2>3 DEF Joined, Alnum, Alpha
<1>5. Words(t) <=> /\ t # <<>> /\ t[1] # "space" /\ t[m] # "space"
                   /\ Only(t, {"lo", "up", "dg", "sign", "space"})
                   /\ \A i \in 1 .. m - 1 : Fits(i)
  BY <1>1 DEF Words
<1> HIDE DEF Fits
<1>6. Words(t) <=> WordsTo(m) BY <1>2, <1>3, <1>4, <1>5 DEF WordsTo
<1> QED BY <1>6 DEF t

LEMMA TokenJoined ==
  ASSUME text \in Seq(Kinds), NEW s \in 1 .. End, NEW e, IsToken(s, e)
  PROVE  /\ e \in s + 1 .. End
         /\ \A i \in s .. e - 1 : text[i] \in Solid
         /\ \A i \in s .. e - 2 : Joined(i)
<1>1. /\ s \in Nat /\ e \in s + 1 .. End /\ e \in Nat /\ End \in Nat
      /\ s \in s .. e - 1
  BY EndIs DEF IsToken
<1>2. \A i \in s .. e - 2 : i \in s .. e - 1 /\ i + 1 \in s .. e - 1
  BY <1>1
<1>3. CASE text[s] \in Alpha /\ RunTo(Alnum, s, e)
  <2>1. \A i \in s .. e - 1 : text[i] \in Alnum BY <1>3 DEF RunTo, Run
  <2>2. ASSUME NEW i \in s .. e - 2 PROVE Joined(i)
    <3>1. s \in 1 .. i /\ \A k \in s .. i : k \in s .. e - 1 BY <1>1
    <3> QED BY <1>2, <1>3, <2>1, <3>1 DEF Joined
  <2> QED BY <1>1, <2>1, <2>2 DEF Alnum, Solid
<1>4. CASE text[s] = "dg" /\ RunTo({"dg"}, s, e)
  <2>1. \A i \in s .. e - 1 : text[i] = "dg" BY <1>4 DEF RunTo, Run
  <2> QED BY <1>1, <1>2, <2>1 DEF Joined, Solid
<1>5. CASE text[s] = "sign" /\ e = s + 1
  <2>1. \A i \in s .. e - 1 : i = s BY <1>1, <1>5
  <2>2. s .. e - 2 = {} BY <1>1, <1>5
  <2> QED BY <1>1, <1>5, <2>1, <2>2 DEF Solid
<1> QED BY <1>3, <1>4, <1>5 DEF IsToken

(* One more token after spaces.                                            *)
LEMMA GapJoined ==
  ASSUME text \in Seq(Kinds), NEW a \in 1 .. End, WordsTo(a - 1), Gap[a] # 0
  PROVE  WordsTo(Gap[a] - 1)
<1> DEFINE e == Gap[a]
<1>1. PICK s \in a + 1 .. End : RunTo({"space"}, a, s) /\ IsToken(s, e)
  BY GapIs
<1> HIDE DEF e
<1>2. /\ a \in Nat /\ End = Len(text) + 1 /\ End \in Nat /\ s \in 1 .. End
      /\ s \in Nat /\ 1 <= a - 1
  BY EndIs DEF WordsTo
<1>3. /\ e \in s + 1 .. End
      /\ \A i \in s .. e - 1 : text[i] \in Solid
      /\ \A i \in s .. e - 2 : Joined(i)
  BY <1>1, <1>2, TokenJoined
<1>4. \A i \in a .. s - 1 : text[i] = "space" BY <1>1 DEF RunTo, Run
<1>5. \A i \in 1 .. e - 1 :
        i \in 1 .. a - 1 \/ i \in a .. s - 1 \/ i \in s .. e - 1
  BY <1>2, <1>3
<1>6. \A i \in 1 .. e - 1 : text[i] \in Solid \/ text[i] = "space"
  BY <1>3, <1>4, <1>5 DEF WordsTo
<1>7. ASSUME NEW i \in 1 .. (e - 1) - 1 PROVE Joined(i)
  <2>1. CASE i \in 1 .. (a - 1) - 1 BY <2>1 DEF WordsTo
  <2>2. CASE i = a - 1
    <3>1. i + 1 \in a .. s - 1 BY <1>2, <2>2
    <3> QED BY <1>4, <3>1 DEF Joined
  <2>3. CASE i \in a .. s - 1 BY <1>4, <2>3 DEF Joined
  <2>4. CASE i \in s .. e - 2 BY <1>3, <2>4
  <2>5. \/ i \in 1 .. (a - 1) - 1 \/ i = a - 1 \/ i \in a .. s - 1
        \/ i \in s .. e - 2
    BY <1>2, <1>3
  <2> QED BY <2>1, <2>2, <2>3, <2>4, <2>5
<1>8. text[e - 1] # "space"
  <2>1. e - 1 \in s .. e - 1 BY <1>2, <1>3
  <2> QED BY <1>3, <2>1 DEF Solid
<1>9. e - 1 \in 1 .. Len(text) BY <1>2, <1>3
<1>10. text[1] # "space" BY DEF WordsTo
<1> QED BY <1>6, <1>7, <1>8, <1>9, <1>10 DEF WordsTo, e

LEMMA GapsJoined ==
  ASSUME text \in Seq(Kinds)
  PROVE  \A a \in 1 .. End : WordsTo(a - 1) => WordsTo(Many(Gap)[a] - 1)
<1> DEFINE m == Many(Gap)
           S == {a \in 1 .. End : WordsTo(a - 1) => WordsTo(m[a] - 1)}
<1>1. \A a \in 1 .. End : /\ m[a] = IF Gap[a] = 0 THEN a ELSE m[Gap[a]]
                          /\ Gap[a] = 0 \/ Gap[a] \in a + 1 .. End
  BY ManyIs, GapIs DEF Forward
<1> HIDE DEF m
<1>2. ASSUME NEW a \in 1 .. End, \A j \in a + 1 .. End : j \in S
      PROVE  a \in S
  <2> SUFFICES ASSUME WordsTo(a - 1) PROVE WordsTo(m[a] - 1) OBVIOUS
  <2>1. CASE Gap[a] = 0 BY <1>1, <2>1
  <2>2. CASE Gap[a] # 0
    <3>1. WordsTo(Gap[a] - 1) BY <2>2, GapJoined
    <3>2. m[a] = m[Gap[a]] /\ Gap[a] \in a + 1 .. End BY <1>1, <2>2
    <3> QED BY <1>2, <3>1, <3>2
  <2> QED BY <2>1, <2>2
<1> HIDE DEF S
<1>3. \A a \in 1 .. End : a \in S BY <1>2, Downwards, EndIs
<1> QED BY <1>3 DEF S, m

-----------------------------------------------------------------------------
(* After a token, anything that belongs to more words is a space.          *)
TokenEnds(s, a) ==
  s \in 1 .. End /\ (s = 1 \/ text[s - 1] = "space") /\ IsToken(s, a)

LEMMA SpaceFollows ==
  ASSUME text \in Seq(Kinds), NEW s, NEW a, TokenEnds(s, a),
         NEW m, WordsTo(m), a <= m
  PROVE  text[a] = "space"
<1>1. /\ s \in 1 .. End /\ s \in Nat /\ a \in s + 1 .. End /\ a \in Nat
      /\ End = Len(text) + 1 /\ m \in 1 .. Len(text) /\ m \in Nat
      /\ s = 1 \/ text[s - 1] = "space"
  BY EndIs DEF TokenEnds, IsToken, WordsTo
<1>2. a # End /\ a - 1 \in 1 .. m - 1 /\ a - 1 \in s .. a - 1 /\ a \in 1 .. m
  BY <1>1
<1>3. Joined(a - 1) /\ (a - 1) + 1 = a BY <1>1, <1>2 DEF WordsTo
<1>4. text[a - 1] # "space"
  <2>1. text[a - 1] \in Solid BY <1>2, TokenJoined DEF TokenEnds
  <2> QED BY <2>1 DEF Solid
<1>5. CASE text[s] \in Alpha /\ RunTo(Alnum, s, a)
  <2>1. text[a] \notin Alnum BY <1>2, <1>5 DEF RunTo
  <2> QED BY <1>3, <1>4, <2>1 DEF Joined, Alnum
<1>6. CASE text[s] = "dg" /\ RunTo({"dg"}, s, a)
  <2>1. text[a] # "dg" BY <1>2, <1>6 DEF RunTo
  <2>2. \A k \in s .. a - 1 : text[k] = "dg" BY <1>6 DEF RunTo, Run
  <2>3. ASSUME NEW j \in 1 .. a - 1, text[j] \in Alpha,
               \A k \in j .. a - 1 : text[k] \in Alnum
        PROVE  FALSE
    <3>1. CASE s <= j
      <4>1. j \in s .. a - 1 BY <1>1, <3>1
      <4> QED BY <2>2, <2>3, <4>1 DEF Alpha
    <3>2. CASE ~(s <= j)
      <4>1. s # 1 /\ s - 1 \in j .. a - 1 BY <1>1, <3>2
      <4> QED BY <1>1, <2>3, <4>1 DEF Alnum
    <3> QED BY <3>1, <3>2
  <2> QED BY <1>3, <1>4, <2>1, <2>3 DEF Joined
<1>7. CASE text[s] = "sign" /\ a = s + 1
  <2>1. text[a - 1] = "sign" BY <1>1, <1>7
  <2> QED BY <1>3, <2>1 DEF Joined, Alnum
<1> QED BY <1>5, <1>6, <1>7 DEF TokenEnds, IsToken

LEMMA GapsTaken ==
  ASSUME text \in Seq(Kinds), NEW m, WordsTo(m)
  PROVE  \A a \in 1 .. End : \A s : TokenEnds(s, a) => m + 1 <= Many(Gap)[a]
<1> DEFINE g == Many(Gap)
           S == {a \in 1 .. End : \A s : TokenEnds(s, a) => m + 1 <= g[a]}
<1>1. /\ \A a \in 1 .. End : /\ g[a] = IF Gap[a] = 0 THEN a ELSE g[Gap[a]]
                             /\ g[a] \in a .. End
      /\ \A a \in 1 .. End : Gap[a] = 0 \/ Gap[a] \in a + 1 .. End
  BY ManyIs, GapIs DEF Forward
<1> HIDE DEF g
<1>2. /\ m \in 1 .. Len(text) /\ m \in Nat /\ End = Len(text) + 1
      /\ End \in Nat
  BY EndIs DEF WordsTo
<1>3. ASSUME NEW a \in 1 .. End, \A j \in a + 1 .. End : j \in S
      PROVE  a \in S
  <2> SUFFICES ASSUME NEW s, TokenEnds(s, a) PROVE m + 1 <= g[a] OBVIOUS
  <2>1. a \in Nat /\ g[a] \in a .. End BY <1>1, <1>2
  <2>2. CASE m < a BY <1>2, <2>1, <2>2
  <2>3. CASE a <= m
    <3>1. text[a] = "space" /\ a # End BY <1>2, <2>1, <2>3, SpaceFollows
    <3> DEFINE b == Many(Char({"space"}))[a]
    <3>2. RunTo({"space"}, a, b) BY ManyChar
    <3> HIDE DEF b
    <3>3. b \in a .. End BY <3>2 DEF RunTo
    <3>4. b # a BY <3>1, <3>2 DEF RunTo
    <3>5. b <= m
      <4>1. SUFFICES ASSUME ~(b <= m) PROVE FALSE OBVIOUS
      <4>2. m \in a .. b - 1 BY <1>2, <2>1, <2>3, <3>3, <4>1
      <4>3. text[m] = "space" BY <3>2, <4>2 DEF RunTo, Run
      <4> QED BY <4>3 DEF WordsTo
    <3>6. /\ b \in a + 1 .. End /\ b # End
          /\ b \in 1 .. m /\ b - 1 \in a .. b - 1
          /\ b \in 1 .. End
      BY <1>2, <2>1, <3>3, <3>4, <3>5
    <3>7. text[b] \in Solid
      <4>1. text[b] # "space" BY <3>2, <3>6 DEF RunTo
      <4> QED BY <3>6, <4>1 DEF WordsTo
    <3>8. Gap[a] # 0 BY <3>2, <3>6, <3>7, GapIs
    <3> DEFINE c == Gap[a]
    <3>9. PICK x \in a + 1 .. End : RunTo({"space"}, a, x) /\ IsToken(x, c)
      <4>1. \E x \in a + 1 .. End : RunTo({"space"}, a, x) /\ IsToken(x, c)
        BY <3>8, GapIs
      <4> QED BY <4>1
    <3>10. g[a] = g[c] /\ c \in a + 1 .. End BY <1>1, <3>8
    <3> HIDE DEF c
    <3>11. x = b BY <3>2, <3>9, RunOnly
    <3>12. text[b - 1] = "space" BY <3>2, <3>6 DEF RunTo, Run
    <3>13. TokenEnds(b, c) BY <3>6, <3>9, <3>11, <3>12 DEF TokenEnds
    <3> QED BY <1>3, <3>10, <3>13
  <2> QED BY <1>2, <2>1, <2>2, <2>3
<1> HIDE DEF S
<1>4. \A a \in 1 .. End : a \in S BY <1>2, <1>3, Downwards
<1> QED BY <1>4 DEF S, g

-----------------------------------------------------------------------------
(* `toplevel` takes the longest such beginning.                            *)
LEMMA ToplevelIs ==
  ASSUME text \in Seq(Kinds)
  PROVE  /\ toplevel[1] \in Nat
         /\ toplevel[1] = 0 \/ WordsTo(toplevel[1] - 1)
         /\ \A m : WordsTo(m) => m + 1 <= toplevel[1]
<1> DEFINE g == Many(Gap)
           a == token[1]
<1>1. /\ 1 \in 1 .. End /\ End \in Nat /\ End = Len(text) + 1 BY EndIs
<1>2. \A i \in 1 .. End :
        toplevel[i] = IF token[i] = 0 THEN 0 ELSE g[token[i]]
  BY ThenIs DEF toplevel, Gap
<1>3. toplevel[1] = IF a = 0 THEN 0 ELSE g[a] BY <1>1, <1>2
<1>4. ASSUME a # 0 PROVE TokenEnds(1, a) /\ WordsTo(a - 1) /\ a \in 1 .. End
  <2>1. IsToken(1, a) BY <1>1, <1>4, TokenIs
  <2> HIDE DEF a
  <2>2. /\ a \in 1 + 1 .. End
        /\ \A i \in 1 .. a - 1 : text[i] \in Solid
        /\ \A i \in 1 .. a - 2 : Joined(i)
    BY <1>1, <2>1, TokenJoined
  <2>3. /\ a - 1 \in 1 .. Len(text) /\ a \in 1 .. End /\ (a - 1) - 1 = a - 2
        /\ 1 \in 1 .. a - 1 /\ a - 1 \in 1 .. a - 1
    BY <1>1, <2>2
  <2>4. text[1] # "space" /\ text[a - 1] # "space"
    BY <2>2, <2>3 DEF Solid
  <2> QED BY <1>1, <2>1, <2>2, <2>3, <2>4 DEF WordsTo, TokenEnds
<1>5. ASSUME NEW m, WordsTo(m) PROVE a # 0
  <2>1. 1 \in 1 .. m /\ 1 # End BY <1>1, <1>5 DEF WordsTo
  <2>2. text[1] \in Solid BY <1>5, <2>1 DEF WordsTo
  <2> QED BY <1>1, <2>1, <2>2, TokenIs
<1>6. toplevel[1] = 0 \/ WordsTo(toplevel[1] - 1)
  BY <1>3, <1>4, GapsJoined
<1>7. ASSUME NEW m, WordsTo(m) PROVE m + 1 <= toplevel[1]
  <2>1. a # 0 BY <1>5, <1>7
  <2> QED BY <1>3, <1>4, <1>7, <2>1, GapsTaken
<1>8. toplevel[1] \in Nat
  <2>1. CASE a = 0 BY <1>3, <2>1
  <2>2. CASE a # 0
    <3>1. a \in 1 .. End BY <1>4, <2>2
    <3> HIDE DEF a
    <3>2. g[a] \in a .. End BY <3>1, GapIs, ManyIs
    <3> HIDE DEF g
    <3>3. g[a] \in Nat BY <1>1, <3>1, <3>2
    <3> QED BY <1>3, <2>2, <3>3
  <2> QED BY <2>1, <2>2
<1> QED BY <1>6, <1>7, <1>8

LEMMA LongestIsParsed ==
  ASSUME text \in Seq(Kinds)
  PROVE  LongestBeginningParsed
<1> DEFINE ends == {0} \cup {n + 1 : n \in {m \in 1 .. Len(text) :
                                              Words(SubSeq(text, 1, m))}}
           r == toplevel[1]
<1>1. Len(text) \in Nat OBVIOUS
<1>2. \A m : WordsTo(m) => m \in 1 .. Len(text) BY DEF WordsTo
<1>3. r \in ends
  <2>1. CASE r = 0 BY <2>1
  <2>2. CASE r # 0
    <3>1. WordsTo(r - 1) BY <2>2, ToplevelIs
    <3>2. r - 1 \in 1 .. Len(text) BY <1>2, <3>1
    <3>3. Words(SubSeq(text, 1, r - 1)) BY <3>1, <3>2, WordsAre
    <3>4. r \in Nat BY ToplevelIs
    <3>5. (r - 1) + 1 = r BY <3>4
    <3> QED BY <3>2, <3>3, <3>5
  <2> QED BY <2>1, <2>2
<1>4. \A x \in ends : x <= r /\ x \in Nat
  <2> SUFFICES ASSUME NEW x \in ends PROVE x <= r /\ x \in Nat OBVIOUS
  <2>1. r \in Nat BY ToplevelIs
  <2>2. CASE x = 0 BY <2>1, <2>2
  <2>3. CASE x # 0
    <3>1. PICK n \in 1 .. Len(text) :
                 Words(SubSeq(text, 1, n)) /\ x = n + 1
      BY <2>3
    <3>2. WordsTo(n) BY <3>1, WordsAre
    <3> QED BY <1>1, <3>1, <3>2, ToplevelIs
  <2> QED BY <2>2, <2>3
<1>5. r \in Nat BY ToplevelIs
<1>6. Max(ends) = CHOOSE x \in ends : \A y \in ends : x >= y BY Zenon DEF Max
<1> HIDE DEF ends, r
<1>7. \E x \in ends : \A y \in ends : x >= y
  BY <1>3, <1>4, <1>5
<1>8. /\ Max(ends) \in ends
      /\ \A y \in ends : Max(ends) >= y
  BY <1>6, <1>7, Zenon
<1> DEFINE top == Max(ends)
<1>9. top = r
  <2> HIDE DEF top
  <2>1. top \in ends /\ \A y \in ends : top >= y BY <1>8, Zenon DEF top
  <2> QED BY <1>3, <1>4, <1>5, <2>1
<1> QED BY <1>9, Zenon DEF LongestBeginningParsed, top, ends, r

-----------------------------------------------------------------------------
(* The grammars of names and of tokens say what they are meant to say of   *)
(* every text: a whole name is parsed by the one rule that describes it, a *)
(* list of names exactly if its pieces are names, and of tokens the        *)
(* longest beginning that is tokens with spaces between (step04_pest and   *)
(* step05_test, grammar.pest).                                             *)
THEOREM GrammarsCorrect == GrammarSpec => []GrammarsAgree
<1>1. GrammarInit => text \in Seq(Kinds) BY DEF GrammarInit
<1>2. text \in Seq(Kinds) /\ [Type]_grammarVars => (text \in Seq(Kinds))'
  BY DEF Type, grammarVars
<1>3. text \in Seq(Kinds) => GrammarsAgree
  BY NamesAreParsed, LongestIsParsed DEF GrammarsAgree
<1> QED BY <1>1, <1>2, <1>3, PTL DEF GrammarSpec
=============================================================================
