------------------------- MODULE ClockServerProofs --------------------------
(***************************************************************************)
(* What a client of the clock is shown is in order, for any clients,       *)
(* requests and number of ticks.                                           *)
(***************************************************************************)
EXTENDS ClockServer, SequenceTheorems, TLAPS

(* A value that may be sent after `s`.                                     *)
Follows(s, v) ==
  /\ s # <<>>
  /\ s[Len(s)] <= v
  /\ Len(s) = 1 => s[1] < v
  /\ Len(s) > 1 => s[Len(s) - 1] < v

(* The version marked while the handler waits: what it found, or what it   *)
(* had marked before it sent the last value.                               *)
Marks(s, v) ==
  /\ s # <<>>
  /\ Len(s) = 1 => s[1] <= v
  /\ Len(s) > 1 => s[Len(s) - 1] <= v

(* Between `changed` and the end of `send`, the version marked may follow  *)
(* what was sent, and what is in hand is no older than it.                 *)
HandlerInv(c) ==
  /\ InOrder(shown[c])
  /\ ws[c] = "waiting" => Marks(shown[c], seen[c])
  /\ ws[c] \in {"notified", "sending"} => Follows(shown[c], seen[c])
  /\ ws[c] = "sending" => seen[c] <= in_hand[c]

OrderInv == \A c \in Clients : HandlerInv(c)

-----------------------------------------------------------------------------
(* Sequences that are in order.                                            *)

LEMMA SentInOrder ==
  ASSUME NEW s \in Seq(Nat), InOrder(s), NEW mark \in Nat, NEW v \in Nat,
         Follows(s, mark), mark <= v
  PROVE  /\ InOrder(Append(s, v))
         /\ Marks(Append(s, v), mark)
<1> DEFINE t == Append(s, v)
           n == Len(s)
<1>1. n \in Nat \ {0} BY EmptySeq DEF Follows
<1>2. /\ Len(t) = n + 1 /\ t # <<>>
      /\ \A i \in 1 .. n : t[i] = s[i] /\ s[i] \in Nat
      /\ t[n + 1] = v
  BY <1>1
<1>3. /\ n > 1 => s[1] < s[2]
      /\ \A i \in 1 .. n - 1 : s[i] <= s[i + 1]
      /\ \A i \in 1 .. n - 2 : s[i] < s[i + 2]
  BY DEF InOrder
<1>4. /\ s[n] <= mark
      /\ n = 1 => s[1] < mark
      /\ n > 1 => s[n - 1] < mark
  BY DEF Follows
<1> HIDE DEF t, n
<1>5. n + 1 > 1 => t[1] < t[2]
  <2>1. CASE n = 1 BY <1>2, <1>4, <2>1
  <2>2. CASE n > 1 BY <1>1, <1>2, <1>3, <2>2
  <2> QED BY <1>1, <2>1, <2>2
<1>6. ASSUME NEW i \in 1 .. n PROVE t[i] <= t[i + 1]
  <2>1. CASE i = n BY <1>1, <1>2, <1>4, <2>1
  <2>2. CASE i < n BY <1>1, <1>2, <1>3, <2>2
  <2> QED BY <1>1, <2>1, <2>2
<1>7. ASSUME NEW i \in 1 .. n - 1 PROVE t[i] < t[i + 2]
  <2>1. CASE i = n - 1 BY <1>1, <1>2, <1>4, <2>1
  <2>2. CASE i < n - 1 BY <1>1, <1>2, <1>3, <2>2
  <2> QED BY <1>1, <2>1, <2>2
<1>8. InOrder(t) BY <1>1, <1>2, <1>5, <1>6, <1>7 DEF InOrder
<1>9. Marks(t, mark) BY <1>1, <1>2, <1>4 DEF Marks
<1> QED BY <1>8, <1>9 DEF t

LEMMA NewVersionFollows ==
  ASSUME NEW new \in Nat, NEW s \in Seq(0 .. new), NEW mark \in 0 .. new,
         Marks(s, mark), mark # new
  PROVE  Follows(s, new)
<1>1. Len(s) \in Nat \ {0} BY EmptySeq DEF Marks
<1>2. \A i \in 1 .. Len(s) : s[i] \in 0 .. new BY ElementOfSeq
<1> QED BY <1>1, <1>2 DEF Follows, Marks

LEMMA FollowerMarks ==
  ASSUME NEW s \in Seq(Nat), NEW mark \in Nat, Follows(s, mark)
  PROVE  Marks(s, mark)
<1>1. Len(s) \in Nat \ {0} BY EmptySeq DEF Follows
<1>2. \A i \in 1 .. Len(s) : s[i] \in Nat BY ElementOfSeq
<1> QED BY <1>1, <1>2 DEF Follows, Marks

LEMMA FoundInOrder ==
  ASSUME NEW v \in Nat
  PROVE  InOrder(<<v>>) /\ Marks(<<v>>, v)
BY DEF InOrder, Marks

-----------------------------------------------------------------------------
(* Types.                                                                  *)

(* What a step of a handler leaves alone but for its own client.           *)
ClientTypeOK(c) ==
  /\ ws[c] \in {"away", "handshake", "upgraded", "waiting", "notified",
                "sending", "gone"}
  /\ seen[c] \in 0 .. current
  /\ in_hand[c] \in 0 .. current
  /\ peer[c] \in {"on", "left", "reset"}
  /\ shown[c] \in Seq(0 .. current)

LEMMA ServerTyped ==
  ASSUME ServerTypeOK,
         \/ \E r \in Requests : RequestStep(r)
         \/ ServerStep
         \/ ServerDone
  PROVE  ServerTypeOK'
<1> USE DEF ServerTypeOK
<1>1. ASSUME NEW r \in Requests, RequestStep(r) PROVE ServerTypeOK'
  <2>1. CASE Accept(r) BY <2>1 DEF Accept
  <2>2. CASE page_handler(r) BY <2>2 DEF page_handler, Answer
  <2>3. CASE quit_handler(r) BY <2>3 DEF quit_handler
  <2>4. CASE QuitReplied(r) BY <2>4 DEF QuitReplied, Answer
  <2>5. CASE GiveUp(r) BY <2>5 DEF GiveUp, Answer
  <2> QED BY <1>1, <2>1, <2>2, <2>3, <2>4, <2>5 DEF RequestStep
<1>2. CASE ServerStep
  BY <1>2 DEF ServerStep, ShutdownRecv, StopAccepting, Signal
<1>3. CASE ServerDone BY <1>3 DEF ServerDone
<1> QED BY <1>1, <1>2, <1>3

LEMMA TypeInitial == Init => TypeOK
<1> SUFFICES ASSUME Init PROVE TypeOK OBVIOUS
<1>1. ServerTypeOK BY DEF Init, ServerInit, ServerTypeOK
<1>2. <<>> \in Seq(0 .. current) OBVIOUS
<1> QED BY <1>1, <1>2, ClockAssumption DEF Init, TypeOK

LEMMA TypePreserved == TypeOK /\ [Next]_vars => TypeOK'
<1> SUFFICES ASSUME TypeOK, [Next]_vars PROVE TypeOK' OBVIOUS
<1>1. CASE Tick
  <2>1. ServerTypeOK' BY <1>1 DEF Tick, TypeOK, ServerTypeOK, serverVars
  <2>2. /\ ticks' \in 0 .. MaxTicks
        /\ current' \in 0 .. ticks'
        /\ 0 .. current \subseteq 0 .. current'
    BY <1>1, ClockAssumption DEF Tick, TypeOK
  <2>3. \A c \in Clients : shown[c] \in Seq(0 .. current')
    BY <2>2, SeqMonotonic DEF TypeOK
  <2> QED BY <1>1, <2>1, <2>2, <2>3 DEF Tick, TypeOK
<1>2. ASSUME NEW c \in Clients, ClientStep(c) PROVE TypeOK'
  <2>1. UNCHANGED <<serverVars, ticks, current>>
    BY <1>2 DEF ClientStep, ws_handler, Upgraded, Subscribe, Changed, Borrow,
                Send, SendLost, SendFails, Leave, Goes
  <2>2. ServerTypeOK' BY <2>1 DEF TypeOK, ServerTypeOK, serverVars
  <2>3. /\ current \in Nat /\ current \in 0 .. current
        /\ <<current>> \in Seq(0 .. current)
        /\ Append(shown[c], in_hand[c]) \in Seq(0 .. current)
    BY ClockAssumption DEF TypeOK
  <2> USE <2>1, <2>2, <2>3 DEF TypeOK, Goes
  <2>4. CASE ws_handler(c) BY <2>4 DEF ws_handler
  <2>5. CASE Upgraded(c) BY <2>5 DEF Upgraded
  <2>6. CASE Subscribe(c) BY <2>6 DEF Subscribe
  <2>7. CASE Changed(c) BY <2>7 DEF Changed
  <2>8. CASE Borrow(c) BY <2>8 DEF Borrow
  <2>9. CASE Send(c) BY <2>9 DEF Send
  <2>10. CASE SendLost(c) BY <2>10 DEF SendLost
  <2>11. CASE SendFails(c) BY <2>11 DEF SendFails
  <2>12. CASE Leave(c) BY <2>12 DEF Leave
  <2> QED BY <1>2, <2>4, <2>5, <2>6, <2>7, <2>8, <2>9, <2>10, <2>11, <2>12
          DEF ClientStep
<1>3. ASSUME \/ \E r \in Requests : RequestStep(r)
             \/ ServerStep
             \/ ServerDone,
             UNCHANGED clockVars
      PROVE  TypeOK'
  <2>1. ServerTypeOK' BY <1>3, ServerTyped DEF TypeOK
  <2> QED BY <1>3, <2>1 DEF TypeOK, clockVars
<1>4. CASE UNCHANGED vars
  BY <1>4 DEF TypeOK, ServerTypeOK, vars, serverVars, clockVars
<1> QED BY <1>1, <1>2, <1>3, <1>4 DEF Next, Ended

-----------------------------------------------------------------------------
(* Order.                                                                  *)

LEMMA OrderInitial == Init => OrderInv
<1> SUFFICES ASSUME Init PROVE OrderInv OBVIOUS
<1>1. InOrder(<<>>) BY DEF InOrder
<1> QED BY <1>1 DEF Init, OrderInv, HandlerInv

(* A client whose handler does nothing keeps its invariant.                *)
LEMMA OthersInOrder ==
  ASSUME OrderInv, NEW c \in Clients,
         /\ ws'[c] = ws[c] /\ seen'[c] = seen[c]
         /\ in_hand'[c] = in_hand[c] /\ shown'[c] = shown[c]
  PROVE  HandlerInv(c)'
BY DEF OrderInv, HandlerInv

LEMMA HandlerInOrder ==
  ASSUME TypeOK, OrderInv, NEW c \in Clients, ClientStep(c)
  PROVE  HandlerInv(c)'
<1>1. HandlerInv(c) BY DEF OrderInv
<1>2. /\ current \in Nat
      /\ seen[c] \in 0 .. current /\ in_hand[c] \in 0 .. current
      /\ shown[c] \in Seq(0 .. current) /\ shown[c] \in Seq(Nat)
  <2>1. current \in Nat BY ClockAssumption DEF TypeOK
  <2>2. 0 .. current \subseteq Nat BY <2>1
  <2> QED BY <2>1, <2>2, SeqMonotonic DEF TypeOK
<1>3. /\ ws \in [Clients -> {"away", "handshake", "upgraded", "waiting",
                             "notified", "sending", "gone"}]
      /\ DOMAIN seen = Clients /\ DOMAIN in_hand = Clients
      /\ DOMAIN shown = Clients
  BY DEF TypeOK
<1>4. CASE ws_handler(c)
  BY <1>1, <1>3, <1>4 DEF ws_handler, Goes, HandlerInv
<1>5. CASE Upgraded(c) BY <1>1, <1>3, <1>5 DEF Upgraded, Goes, HandlerInv
<1>6. CASE Subscribe(c)
  <2>1. ws'[c] = "waiting" /\ seen'[c] = current /\ shown'[c] = <<current>>
    BY <1>3, <1>6 DEF Subscribe, Goes
  <2> QED BY <1>2, <2>1, FoundInOrder DEF HandlerInv
<1>7. CASE Changed(c)
  <2>1. /\ ws[c] = "waiting" /\ ws'[c] = "notified" /\ seen[c] # current
        /\ seen'[c] = current /\ shown' = shown
    BY <1>3, <1>7 DEF Changed, Goes
  <2>2. Follows(shown[c], current)
    BY <1>1, <1>2, <2>1, NewVersionFollows DEF HandlerInv
  <2> QED BY <1>1, <2>1, <2>2 DEF HandlerInv
<1>8. CASE Borrow(c)
  <2>1. /\ ws[c] = "notified" /\ ws'[c] = "sending" /\ in_hand'[c] = current
        /\ seen' = seen /\ shown' = shown
    BY <1>3, <1>8 DEF Borrow, Goes
  <2> QED BY <1>1, <1>2, <2>1 DEF HandlerInv
<1>9. CASE Send(c)
  <2>1. /\ ws[c] = "sending" /\ ws'[c] = "waiting" /\ seen' = seen
        /\ shown'[c] = Append(shown[c], in_hand[c])
    BY <1>3, <1>9 DEF Send, Goes
  <2>2. /\ InOrder(Append(shown[c], in_hand[c]))
        /\ Marks(Append(shown[c], in_hand[c]), seen[c])
    <3>1. seen[c] \in Nat /\ in_hand[c] \in Nat BY <1>2
    <3>2. /\ InOrder(shown[c]) /\ Follows(shown[c], seen[c])
          /\ seen[c] <= in_hand[c]
      BY <1>1, <2>1 DEF HandlerInv
    <3> QED BY ONLY <1>2, <3>1, <3>2, SentInOrder
  <2> QED BY <2>1, <2>2 DEF HandlerInv
<1>10. CASE SendLost(c)
  <2>1. /\ ws[c] = "sending" /\ ws'[c] = "waiting" /\ seen' = seen
        /\ shown' = shown
    BY <1>3, <1>10 DEF SendLost, Goes
  <2>2. Marks(shown[c], seen[c])
    <3>1. seen[c] \in Nat BY <1>2
    <3> QED BY <1>1, <1>2, <2>1, <3>1, FollowerMarks DEF HandlerInv
  <2> QED BY <1>1, <2>1, <2>2 DEF HandlerInv
<1>11. CASE SendFails(c)
  BY <1>1, <1>3, <1>11 DEF SendFails, Goes, HandlerInv
<1>12. CASE Leave(c) BY <1>1, <1>12 DEF Leave, HandlerInv
<1> QED BY <1>4, <1>5, <1>6, <1>7, <1>8, <1>9, <1>10, <1>11, <1>12
        DEF ClientStep

LEMMA OrderPreserved == TypeOK /\ OrderInv /\ [Next]_vars => OrderInv'
<1> SUFFICES ASSUME TypeOK, OrderInv, [Next]_vars,
                    NEW c \in Clients
             PROVE  HandlerInv(c)'
  BY DEF OrderInv
<1>1. CASE UNCHANGED <<ws, seen, in_hand, shown>> BY <1>1, OthersInOrder
<1>2. ASSUME NEW d \in Clients, ClientStep(d) PROVE HandlerInv(c)'
  <2>1. CASE c = d BY <1>2, <2>1, HandlerInOrder
  <2>2. CASE c # d
    <3>1. /\ ws'[c] = ws[c] /\ seen'[c] = seen[c]
          /\ in_hand'[c] = in_hand[c] /\ shown'[c] = shown[c]
      BY <1>2, <2>2 DEF ClientStep, ws_handler, Upgraded, Subscribe, Changed,
           Borrow, Send, SendLost, SendFails, Leave, Goes, TypeOK
    <3> QED BY <3>1, OthersInOrder
  <2> QED BY <2>1, <2>2
<1> QED BY <1>1, <1>2 DEF Next, Ended, vars, clockVars, Tick

-----------------------------------------------------------------------------
(* The variables keep their types; the channel of /quit holds one message  *)
(* at most, no handler is ahead of the channel (main.rs:34-63, 80-92).     *)
THEOREM TypesCorrect == Spec => []TypeOK
BY TypeInitial, TypePreserved, PTL DEF Spec

(* Nobody is shown a value older than the last, the value found when       *)
(* subscribing, or one value three times (main.rs:59-61).                  *)
THEOREM OrderCorrect == Spec => []ShownInOrder
<1>1. OrderInv => ShownInOrder BY DEF OrderInv, HandlerInv, ShownInOrder
<1> QED BY <1>1, TypeInitial, TypePreserved, OrderInitial, OrderPreserved, PTL
        DEF Spec
=============================================================================
