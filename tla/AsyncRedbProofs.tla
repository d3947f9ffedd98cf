-------------------------- MODULE AsyncRedbProofs --------------------------
(***************************************************************************)
(* What each action of the bridge to the database does to the calls in     *)
(* flight, for the services that are built over it.                        *)
(***************************************************************************)
EXTENDS AsyncRedb, DataProofs

-----------------------------------------------------------------------------
(* Entries on their way.                                                   *)

LEMMA TailPlaces ==
  ASSUME NEW E, NEW p \in Seq(E), p # <<>>
  PROVE  /\ Tail(p) \in Seq(E) /\ Head(p) = p[1] /\ 1 \in DOMAIN p /\ p[1] \in E
         /\ DOMAIN p \subseteq Nat
         /\ DOMAIN Tail(p) = {i \in Nat : i + 1 \in DOMAIN p /\ i # 0}
         /\ \A i \in DOMAIN Tail(p) : Tail(p)[i] = p[i + 1]
         /\ \A c :
              Places(Tail(p), c) = {i \in Nat \ {0} : i + 1 \in Places(p, c)}
<1> DEFINE new == Tail(p)
<1>1. /\ Len(p) \in Nat \ {0} /\ DOMAIN p = 1 .. Len(p)
      /\ new \in Seq(E) /\ Len(new) = Len(p) - 1
      /\ DOMAIN new = 1 .. Len(p) - 1
      /\ \A i \in 1 .. Len(p) - 1 : new[i] = p[i + 1]
      /\ Head(p) = p[1]
  OBVIOUS
<1>2. 1 \in DOMAIN p /\ p[1] \in E BY <1>1
<1> HIDE DEF new
<1>3. DOMAIN new = {i \in Nat : i + 1 \in DOMAIN p /\ i # 0} BY <1>1
<1>4. \A i \in DOMAIN new : new[i] = p[i + 1] BY <1>1
<1>5. ASSUME NEW c
      PROVE  Places(new, c) = {i \in Nat \ {0} : i + 1 \in Places(p, c)}
  BY <1>3, <1>4 DEF Places
<1> QED BY <1>1, <1>2, <1>3, <1>4, <1>5 DEF new

LEMMA DisownedPlaces ==
  ASSUME NEW Requests, NEW p \in Seq(Entries(Requests)), NEW c \in Callers
  PROVE  /\ Disowned(p, c) \in Seq(Entries(Requests))
         /\ Len(Disowned(p, c)) = Len(p)
         /\ DOMAIN Disowned(p, c) = DOMAIN p
         /\ \A i \in DOMAIN p :
              /\ Disowned(p, c)[i].request = p[i].request
              /\ Disowned(p, c)[i].from =
                   IF p[i].from = c THEN Nobody ELSE p[i].from
         /\ Places(Disowned(p, c), c) = {}
         /\ \A d \in Callers \ {c} : Places(Disowned(p, c), d) = Places(p, d)
<1> DEFINE new == Disowned(p, c)
<1>1. Len(p) \in Nat /\ DOMAIN p = 1 .. Len(p) OBVIOUS
<1>2. ASSUME NEW i \in DOMAIN p
      PROVE  /\ new[i] \in Entries(Requests)
             /\ new[i].request = p[i].request
             /\ new[i].from = IF p[i].from = c THEN Nobody ELSE p[i].from
  <2>1. p[i] \in Entries(Requests) BY <1>1
  <2> QED BY <2>1 DEF Disowned, Entries
<1>3. new = [i \in 1 .. Len(p) |-> new[i]] BY <1>1 DEF Disowned
<1> HIDE DEF new
<1>4. new \in Seq(Entries(Requests)) /\ Len(new) = Len(p) BY <1>1, <1>2, <1>3
<1>5. DOMAIN new = DOMAIN p BY <1>1, <1>3
<1>6. Places(new, c) = {} BY <1>2, <1>5, RedbAssumption DEF Places
<1>7. \A d \in Callers \ {c} : Places(new, d) = Places(p, d)
  BY <1>2, <1>5, RedbAssumption DEF Places
<1> QED BY <1>2, <1>4, <1>5, <1>6, <1>7 DEF new

-----------------------------------------------------------------------------
(* The pipeline as one sequence.                                           *)

LEMMA HeldOne ==
  ASSUME NEW E, NEW w \in Seq(E), NEW q \in Seq(E), Len(w) <= 1, w # <<>>
  PROVE  Len(w) = 1 /\ Len(q) \in Nat /\ w[1] \in E
<1> DEFINE n == Len(w)
<1>1. n \in Nat \ {0} /\ n <= 1 BY EmptySeq
<1>2. Len(q) \in Nat OBVIOUS
<1> HIDE DEF n
<1>3. n = 1 BY <1>1
<1>4. w[1] \in E BY <1>3, ElementOfSeq DEF n
<1> QED BY <1>2, <1>3, <1>4 DEF n

LEMMA PipelineAppended ==
  ASSUME NEW E, NEW w \in Seq(E), NEW q \in Seq(E), NEW e \in E
  PROVE  /\ w \o q \in Seq(E) /\ Len(q) \in Nat
         /\ w \o Append(q, e) = Append(w \o q, e)
OBVIOUS

LEMMA HeadMoved ==
  ASSUME NEW E, NEW q \in Seq(E), q # <<>>
  PROVE  /\ <<Head(q)>> \in Seq(E) /\ Len(<<Head(q)>>) = 1
         /\ Tail(q) \in Seq(E) /\ Len(Tail(q)) <= Len(q)
         /\ Len(q) \in Nat /\ Len(Tail(q)) \in Nat
         /\ <<Head(q)>> \o Tail(q) = q
<1> DEFINE n == Len(q)
<1>1. n \in Nat \ {0} BY EmptySeq
<1>2. /\ Head(q) \in E /\ Tail(q) \in Seq(E) /\ Len(Tail(q)) = n - 1
      /\ \A i \in 1 .. n - 1 : Tail(q)[i] = q[i + 1]
      /\ Head(q) = q[1]
  BY HeadTailProperties
<1>3. <<Head(q)>> \in Seq(E) /\ Len(<<Head(q)>>) = 1 BY <1>2
<1> DEFINE s == <<Head(q)>> \o Tail(q)
<1>4. /\ s \in Seq(E) /\ Len(s) = 1 + (n - 1)
      /\ \A i \in 1 .. 1 + (n - 1) : s[i] = IF i <= 1 THEN <<Head(q)>>[i]
                                            ELSE Tail(q)[i - 1]
  BY <1>2, <1>3, ConcatProperties
<1> HIDE DEF n, s
<1>5. \A i \in 1 .. n : s[i] = q[i] BY <1>1, <1>2, <1>4
<1>6. s = q BY <1>1, <1>4, <1>5, SeqEqual DEF n
<1> QED BY <1>1, <1>2, <1>3, <1>6 DEF n, s

LEMMA AppendedOnItsWay ==
  ASSUME NEW E, NEW p \in Seq(E), NEW e \in E, NEW c, NEW call,
         \/ e.from # c /\ OnItsWay(p, c, call)
         \/ /\ e.from = c /\ Places(p, c) = {}
            /\ call.at = "awaiting" /\ call.request = e.request
  PROVE  OnItsWay(Append(p, e), c, call)
<1> DEFINE new == Append(p, e)
           n   == Len(p) + 1
<1>1. /\ Len(p) \in Nat /\ DOMAIN p = 1 .. Len(p)
      /\ DOMAIN new = 1 .. n
      /\ \A i \in 1 .. Len(p) : new[i] = p[i]
      /\ new[n] = e
  OBVIOUS
<1> HIDE DEF new
<1>2. DOMAIN new = DOMAIN p \cup {n} /\ n \notin DOMAIN p BY <1>1
<1> HIDE DEF n
<1>3. \A i \in DOMAIN p : new[i] = p[i] BY <1>1
<1>4. /\ e.from = c => Places(new, c) = Places(p, c) \cup {n}
      /\ e.from # c => Places(new, c) = Places(p, c)
  BY <1>1, <1>2, <1>3 DEF Places
<1>5. OnItsWay(new, c, call)
  BY ONLY <1>1, <1>2, <1>3, <1>4,
          \/ e.from # c /\ OnItsWay(p, c, call)
          \/ /\ e.from = c /\ Places(p, c) = {}
             /\ call.at = "awaiting" /\ call.request = e.request
     DEF OnItsWay
<1> QED BY <1>5 DEF new

LEMMA TailOnItsWay ==
  ASSUME NEW E, NEW p \in Seq(E), p # <<>>,
         NEW c, p[1].from # c, NEW call, OnItsWay(p, c, call)
  PROVE  OnItsWay(Tail(p), c, call)
<1> DEFINE new == Tail(p)
<1>1. /\ DOMAIN p \subseteq Nat
      /\ DOMAIN new = {i \in Nat : i + 1 \in DOMAIN p /\ i # 0}
      /\ \A i \in DOMAIN new : new[i] = p[i + 1]
      /\ Places(new, c) = {i \in Nat \ {0} : i + 1 \in Places(p, c)}
      /\ DOMAIN p = 1 .. Len(p) /\ Len(p) \in Nat
  BY TailPlaces
<1> HIDE DEF new
<1>2. CASE call.at = "awaiting"
  <2>1. PICK k \in DOMAIN p : /\ Places(p, c) = {k}
                              /\ p[k].request = call.request
    BY <1>2 DEF OnItsWay
  <2>2. k # 1 BY <2>1 DEF Places
  <2>3. k - 1 \in DOMAIN new /\ (k - 1) + 1 = k BY <1>1, <2>1, <2>2
  <2>4. Places(new, c) = {k - 1} BY <1>1, <2>1, <2>2
  <2>5. new[k - 1].request = call.request BY <1>1, <2>1, <2>3
  <2> QED BY <1>2, <2>3, <2>4, <2>5 DEF OnItsWay, new
<1>3. CASE call.at # "awaiting"
  <2>1. Places(p, c) = {} BY <1>3 DEF OnItsWay
  <2>2. Places(new, c) = {} BY <1>1, <2>1
  <2> QED BY <1>3, <2>2 DEF OnItsWay, new
<1> QED BY <1>2, <1>3

LEMMA DisownedJoined ==
  ASSUME NEW Requests, NEW c \in Callers,
         NEW w \in Seq(Entries(Requests)), NEW q \in Seq(Entries(Requests))
  PROVE  Disowned(w, c) \o Disowned(q, c) = Disowned(w \o q, c)
<1> DEFINE dw == Disowned(w, c)
           dq == Disowned(q, c)
           left == dw \o dq
           p == w \o q
           right == Disowned(p, c)
<1>1. /\ p \in Seq(Entries(Requests)) /\ Len(p) = Len(w) + Len(q)
      /\ \A i \in 1 .. Len(w) + Len(q) :
           p[i] = IF i <= Len(w) THEN w[i] ELSE q[i - Len(w)]
  BY ConcatProperties
<1>2. /\ Len(w) \in Nat /\ DOMAIN w = 1 .. Len(w)
      /\ Len(q) \in Nat /\ DOMAIN q = 1 .. Len(q)
  OBVIOUS
<1>3. /\ dw \in Seq(Entries(Requests)) /\ Len(dw) = Len(w)
      /\ dq \in Seq(Entries(Requests)) /\ Len(dq) = Len(q)
  BY DisownedPlaces
<1>4. right \in Seq(Entries(Requests)) /\ Len(right) = Len(p)
  BY <1>1, DisownedPlaces
<1>5. /\ left \in Seq(Entries(Requests)) /\ Len(left) = Len(w) + Len(q)
      /\ \A i \in 1 .. Len(w) + Len(q) :
           left[i] = IF i <= Len(w) THEN dw[i] ELSE dq[i - Len(w)]
  <2> HIDE DEF dw, dq
  <2>1. /\ left \in Seq(Entries(Requests)) /\ Len(left) = Len(dw) + Len(dq)
        /\ \A i \in 1 .. Len(dw) + Len(dq) :
             left[i] = IF i <= Len(dw) THEN dw[i] ELSE dq[i - Len(dw)]
    BY ONLY <1>3, ConcatProperties
  <2> QED BY <1>3, <2>1
<1> DEFINE Own(e) == IF e.from = c THEN [e EXCEPT !.from = Nobody] ELSE e
<1>6. \A i \in 1 .. Len(w) : dw[i] = Own(w[i]) BY <1>2 DEF Disowned
<1>7. \A i \in 1 .. Len(q) : dq[i] = Own(q[i]) BY <1>2 DEF Disowned
<1>8. DOMAIN p = 1 .. Len(w) + Len(q) BY <1>1, <1>2
<1>9. \A i \in 1 .. Len(w) + Len(q) : right[i] = Own(p[i])
  BY <1>8 DEF Disowned
<1> HIDE DEF dw, dq, left, p, right, Own
<1>10. ASSUME NEW i \in 1 .. Len(w) + Len(q) PROVE left[i] = right[i]
  <2>1. CASE i <= Len(w) BY <1>1, <1>2, <1>5, <1>6, <1>9, <2>1
  <2>2. CASE i > Len(w)
    <3>1. i - Len(w) \in 1 .. Len(q) BY <1>2, <2>2
    <3>2. left[i] = dq[i - Len(w)] BY <1>2, <1>5, <2>2
    <3>3. dq[i - Len(w)] = Own(q[i - Len(w)]) BY <1>7, <3>1
    <3>4. p[i] = q[i - Len(w)] BY <1>1, <1>2, <2>2
    <3> QED BY <1>9, <3>2, <3>3, <3>4
  <2> QED BY <1>2, <2>1, <2>2
<1>11. left = right BY <1>1, <1>4, <1>5, <1>10, SeqEqual
<1> QED BY <1>11 DEF left, right, dw, dq, p

LEMMA PipelineShape ==
  ASSUME NEW Requests, RedbShape(Requests)
  PROVE  /\ Pipeline \in Seq(Entries(Requests))
         /\ Len(Pipeline) = Len(worker) + Len(queue)
         /\ worker = <<>> => Pipeline = queue
         /\ worker # <<>> => /\ Pipeline # <<>> /\ Pipeline[1] = worker[1]
                             /\ Tail(Pipeline) = queue
                             /\ worker[1] \in Entries(Requests)
<1>1. /\ worker \in Seq(Entries(Requests)) /\ queue \in Seq(Entries(Requests))
      /\ Len(worker) <= 1
  BY DEF RedbShape
<1>2. /\ Pipeline \in Seq(Entries(Requests))
      /\ Len(Pipeline) = Len(worker) + Len(queue)
      /\ \A i \in 1 .. Len(worker) + Len(queue) :
           Pipeline[i] = IF i <= Len(worker) THEN worker[i]
                         ELSE queue[i - Len(worker)]
  BY <1>1, ConcatProperties DEF Pipeline
<1>3. worker = <<>> => Pipeline = queue
  BY <1>1, ConcatEmptySeq DEF Pipeline
<1>4. ASSUME worker # <<>>
      PROVE  /\ Pipeline # <<>> /\ Pipeline[1] = worker[1]
             /\ Tail(Pipeline) = queue
             /\ worker[1] \in Entries(Requests)
  <2>1. Len(worker) = 1 /\ Len(queue) \in Nat /\ worker[1] \in Entries(Requests)
    BY <1>1, <1>4, HeldOne
  <2>2. Len(Pipeline) = 1 + Len(queue) /\ Pipeline # <<>> BY <1>2, <2>1
  <2>3. Pipeline[1] = worker[1] BY <1>2, <2>1
  <2>4. /\ Tail(Pipeline) \in Seq(Entries(Requests))
        /\ Len(Tail(Pipeline)) = Len(queue)
        /\ \A i \in 1 .. Len(queue) : Tail(Pipeline)[i] = Pipeline[i + 1]
    BY <1>2, <2>1, <2>2, HeadTailProperties
  <2>5. \A i \in 1 .. Len(queue) : Tail(Pipeline)[i] = queue[i]
    BY <1>2, <2>1, <2>4
  <2>6. Tail(Pipeline) = queue BY <1>1, <2>4, <2>5, SeqEqual
  <2> QED BY <2>1, <2>2, <2>3, <2>6
<1> QED BY <1>2, <1>3, <1>4

-----------------------------------------------------------------------------
(* Calls.                                                                  *)

LEMMA CallStates ==
  ASSUME NEW Requests, RedbShape(Requests), NEW c \in Callers
  PROVE  /\ calls[c].at \in {"none", "sending", "awaiting", "replied"}
         /\ calls[c].at = "none" <=> calls[c] = NoCall
         /\ calls[c].at # "none" => calls[c].request \in Requests
BY DEF RedbShape, CallShape, NoCall

(* What is the same for everybody but `c`, and `v` is the call of `c`.     *)
OnlyCall(c, v) ==
  /\ calls' = [calls EXCEPT ![c] = v]
  /\ DOMAIN calls' = Callers
  /\ calls'[c] = v
  /\ \A d \in Callers \ {c} : calls'[d] = calls[d]

LEMMA OnlyCallChanges ==
  ASSUME DOMAIN calls = Callers, NEW c \in Callers, NEW v,
         calls' = [calls EXCEPT ![c] = v]
  PROVE  OnlyCall(c, v)
BY DEF OnlyCall

(* Everything about the calls but the replies.                             *)
RedbInv(Requests) == RedbShape(Requests) /\ CallsInFlight

LEMMA InitialInv ==
  ASSUME NEW Requests, RedbInit
  PROVE  RedbInv(Requests) /\ Pipeline = <<>>
<1>1. /\ senders = <<>> /\ queue = <<>> /\ worker = <<>> /\ Pipeline = <<>>
      /\ calls = [c \in Callers |-> NoCall]
  BY DEF RedbInit, Pipeline
<1>2. RedbShape(Requests) BY <1>1 DEF RedbShape, CallShape
<1>3. CallsInFlight
  BY <1>1, RedbAssumption
     DEF CallsInFlight, Distinct, Members, OnItsWay, Places, NoCall
<1> QED BY <1>1, <1>2, <1>3 DEF RedbInv

LEMMA RestartInv ==
  ASSUME NEW Requests, RedbRestart
  PROVE  RedbInv(Requests)' /\ Pipeline' = <<>>
<1>1. /\ senders' = <<>> /\ queue' = <<>> /\ worker' = <<>> /\ Pipeline' = <<>>
      /\ calls' = [c \in Callers |-> NoCall]
  BY DEF RedbRestart, Pipeline
<1>2. RedbShape(Requests)' BY <1>1 DEF RedbShape, CallShape
<1>3. CallsInFlight'
  BY <1>1, RedbAssumption
     DEF CallsInFlight, Distinct, Members, OnItsWay, Places, NoCall
<1> QED BY <1>1, <1>2, <1>3 DEF RedbInv

LEMMA RunInv ==
  ASSUME NEW Requests, RedbInv(Requests),
         NEW c \in Callers, NEW request \in Requests, Run(c, request)
  PROVE  /\ RedbInv(Requests)' /\ Pipeline' = Pipeline
         /\ OnlyCall(c, [at |-> "sending", request |-> request])
<1>1. RedbShape(Requests) /\ CallsInFlight BY DEF RedbInv
<1>2. OnlyCall(c, [at |-> "sending", request |-> request])
  BY <1>1, OnlyCallChanges DEF RedbShape, Run
<1>3. queue' = queue /\ worker' = worker /\ senders' = Append(senders, c)
  BY DEF Run
<1>4. Pipeline' = Pipeline BY <1>3 DEF Pipeline
<1>5. c \notin Members(senders) BY <1>1 DEF CallsInFlight, Run
<1>6. /\ senders' \in Seq(Callers) /\ Distinct(senders')
      /\ Members(senders') = Members(senders) \cup {c}
  BY <1>1, <1>3, <1>5, JoinedQueue DEF RedbShape, CallsInFlight
<1>7. RedbShape(Requests)'
  BY <1>1, <1>2, <1>3, <1>6 DEF RedbShape, CallShape, OnlyCall, Entries
<1>8. \A d \in Callers : OnItsWay(Pipeline, d, calls'[d])
  BY <1>1, <1>2 DEF CallsInFlight, OnItsWay, OnlyCall, Run
<1>9. CallsInFlight'
  BY <1>1, <1>2, <1>3, <1>4, <1>6, <1>8 DEF CallsInFlight, OnlyCall
<1> QED BY <1>2, <1>4, <1>7, <1>9 DEF RedbInv

LEMMA FinishInv ==
  ASSUME NEW Requests, RedbInv(Requests), NEW c \in Callers, Finish(c)
  PROVE  /\ RedbInv(Requests)' /\ Pipeline' = Pipeline
         /\ OnlyCall(c, NoCall)
<1>1. RedbShape(Requests) /\ CallsInFlight BY DEF RedbInv
<1>2. OnlyCall(c, NoCall) BY <1>1, OnlyCallChanges DEF RedbShape, Finish
<1>3. queue' = queue /\ worker' = worker /\ senders' = senders BY DEF Finish
<1>4. Pipeline' = Pipeline BY <1>3 DEF Pipeline
<1>5. RedbShape(Requests)'
  BY <1>1, <1>2, <1>3 DEF RedbShape, CallShape, OnlyCall, Entries
<1>6. \A d \in Callers : OnItsWay(Pipeline, d, calls'[d])
  BY <1>1, <1>2 DEF CallsInFlight, OnItsWay, OnlyCall, Finish, NoCall
<1>7. Members(senders') = {d \in Callers : calls'[d].at = "sending"}
  BY <1>1, <1>2, <1>3 DEF CallsInFlight, OnlyCall, Finish, NoCall
<1>8. CallsInFlight'
  BY <1>1, <1>2, <1>3, <1>4, <1>6, <1>7 DEF CallsInFlight, OnlyCall
<1> QED BY <1>2, <1>4, <1>5, <1>8 DEF RedbInv

LEMMA SendInv ==
  ASSUME NEW Requests, RedbInv(Requests), NEW c \in Callers, Send(c)
  PROVE  /\ RedbInv(Requests)'
         /\ calls[c].at = "sending" /\ calls[c].request \in Requests
         /\ Pipeline' = Append(Pipeline, Entry(c, calls[c].request))
         /\ OnlyCall(c, [at |-> "awaiting", request |-> calls[c].request])
<1>1. RedbShape(Requests) /\ CallsInFlight BY DEF RedbInv
<1> DEFINE e == Entry(c, calls[c].request)
           p == Pipeline
<1>2. /\ queue' = Append(queue, e) /\ worker' = worker
      /\ senders' = Without(senders, c)
  BY DEF Send
<1>3. PICK k \in DOMAIN senders : senders[k] = c /\ k + Len(queue) <= QueueSize
  BY DEF Send, HoldsSlot
<1>4. c \in Members(senders) BY <1>3 DEF Members
<1>5. calls[c].at = "sending" BY <1>1, <1>4 DEF CallsInFlight
<1>6. /\ calls[c] \in [at : {"sending", "awaiting"}, request : Requests]
      /\ calls[c].request \in Requests
  BY <1>1, <1>5 DEF RedbShape, CallShape, NoCall
<1>7. [calls[c] EXCEPT !.at = "awaiting"]
        = [at |-> "awaiting", request |-> calls[c].request]
  BY <1>6
<1>8. OnlyCall(c, [at |-> "awaiting", request |-> calls[c].request])
  <2>1. calls' = [calls EXCEPT ![c] = [calls[c] EXCEPT !.at = "awaiting"]]
    BY DEF Send
  <2> QED BY <1>1, <1>7, <2>1, OnlyCallChanges DEF RedbShape
<1>9. e \in Entries(Requests) BY <1>6 DEF Entry, Entries
<1>10. /\ p \in Seq(Entries(Requests))
       /\ Len(queue) \in Nat
       /\ Pipeline' = Append(p, e)
  <2>1. /\ worker \in Seq(Entries(Requests)) /\ queue \in Seq(Entries(Requests))
    BY <1>1 DEF RedbShape
  <2> QED BY ONLY <1>2, <1>9, <2>1, PipelineAppended DEF Pipeline
<1>11. /\ senders' \in Seq(Callers) /\ Distinct(senders')
       /\ Members(senders') = Members(senders) \ {c}
  BY <1>1, <1>2, <1>4, LeftQueue DEF RedbShape, CallsInFlight
<1>12. RedbShape(Requests)'
  <2>1. queue' \in Seq(Entries(Requests)) BY <1>1, <1>2, <1>9 DEF RedbShape
  <2>2. CallShape(calls'[c], Requests) BY <1>6, <1>8 DEF CallShape, OnlyCall
  <2>3. \A d \in Callers : CallShape(calls'[d], Requests)
    BY <1>1, <1>8, <2>2 DEF RedbShape, OnlyCall
  <2> QED BY <1>1, <1>2, <1>8, <1>11, <2>1, <2>3 DEF RedbShape, OnlyCall
<1>13. \A d \in Callers : OnItsWay(Pipeline', d, calls'[d])
  <2> SUFFICES ASSUME NEW d \in Callers
               PROVE  OnItsWay(Append(p, e), d, calls'[d])
    BY <1>10
  <2>1. OnItsWay(p, d, calls[d]) BY <1>1 DEF CallsInFlight
  <2>2. e.from = c /\ e.request = calls[c].request BY DEF Entry
  <2>3. p \in Seq(Entries(Requests)) /\ e \in Entries(Requests)
    BY <1>9, <1>10
  <2> HIDE DEF e, p
  <2>4. CASE d = c
    <3>1. Places(p, d) = {} BY <1>5, <2>1, <2>4 DEF OnItsWay
    <3>2. /\ calls'[d].at = "awaiting"
          /\ calls'[d].request = calls[c].request
      BY <1>8, <2>4 DEF OnlyCall
    <3> QED BY ONLY <2>2, <2>3, <2>4, <3>1, <3>2, AppendedOnItsWay
  <2>5. CASE d # c
    <3>1. calls'[d] = calls[d] BY <1>8, <2>5 DEF OnlyCall
    <3>2. OnItsWay(p, d, calls'[d]) /\ e.from # d BY <2>1, <2>2, <2>5, <3>1
    <3> QED BY ONLY <2>3, <3>2, AppendedOnItsWay
  <2> QED BY <2>4, <2>5
<1>14. Len(queue') <= QueueSize
  <2>1. k \in Nat \ {0} BY <1>1, <1>3 DEF RedbShape
  <2>2. Len(queue') = Len(queue) + 1 BY <1>1, <1>2, <1>9 DEF RedbShape
  <2> QED BY <1>3, <1>10, <2>1, <2>2, RedbAssumption
<1>15. Members(senders') = {d \in Callers : calls'[d].at = "sending"}
  BY <1>1, <1>5, <1>8, <1>11 DEF CallsInFlight, OnlyCall
<1>16. CallsInFlight' BY <1>11, <1>13, <1>14, <1>15 DEF CallsInFlight
<1> QED BY <1>5, <1>6, <1>8, <1>10, <1>12, <1>16 DEF RedbInv

LEMMA RecvInv ==
  ASSUME NEW Requests, RedbInv(Requests), WorkerRecv
  PROVE  RedbInv(Requests)' /\ Pipeline' = Pipeline /\ calls' = calls
<1>1. RedbShape(Requests) /\ CallsInFlight BY DEF RedbInv
<1>2. /\ queue \in Seq(Entries(Requests)) /\ queue # <<>>
      /\ worker = <<>> /\ worker' = <<Head(queue)>> /\ queue' = Tail(queue)
      /\ calls' = calls /\ senders' = senders
  BY <1>1 DEF RedbShape, WorkerRecv
<1>3. /\ <<Head(queue)>> \in Seq(Entries(Requests))
      /\ Len(<<Head(queue)>>) = 1
      /\ Tail(queue) \in Seq(Entries(Requests))
      /\ Len(Tail(queue)) <= Len(queue)
      /\ Len(queue) \in Nat /\ Len(Tail(queue)) \in Nat
      /\ <<Head(queue)>> \o Tail(queue) = queue
  BY ONLY <1>2, HeadMoved
<1>4. Pipeline' = Pipeline
  BY <1>1, <1>2, <1>3, PipelineShape DEF Pipeline
<1>5. RedbShape(Requests)' BY <1>1, <1>2, <1>3 DEF RedbShape
<1>6. Len(queue') <= QueueSize
  <2>1. Len(queue) <= QueueSize BY <1>1 DEF CallsInFlight
  <2> QED BY <1>2, <1>3, <2>1, RedbAssumption
<1>7. CallsInFlight' BY <1>1, <1>2, <1>4, <1>6 DEF CallsInFlight
<1> QED BY <1>2, <1>4, <1>5, <1>7 DEF RedbInv

(* The call of the request that the worker holds, if its caller listens.   *)
LEMMA AnsweredCall ==
  ASSUME NEW Requests, RedbInv(Requests), worker # <<>>
  PROVE  /\ Pipeline \in Seq(Entries(Requests)) /\ Pipeline # <<>>
         /\ Pipeline[1] = worker[1] /\ 1 \in DOMAIN Pipeline
         /\ worker[1].from \in Callers \cup {Nobody}
         /\ worker[1].request \in Requests
         /\ worker[1].from # Nobody =>
              /\ worker[1].from \in Callers
              /\ calls[worker[1].from].at = "awaiting"
              /\ calls[worker[1].from].request = worker[1].request
              /\ Places(Pipeline, worker[1].from) = {1}
<1>1. RedbShape(Requests) /\ CallsInFlight BY DEF RedbInv
<1>2. /\ Pipeline \in Seq(Entries(Requests)) /\ Pipeline # <<>>
      /\ Pipeline[1] = worker[1] /\ worker[1] \in Entries(Requests)
  BY <1>1, PipelineShape
<1>3. 1 \in DOMAIN Pipeline BY <1>2, TailPlaces
<1>4. /\ worker[1].from \in Callers \cup {Nobody}
      /\ worker[1].request \in Requests
  BY <1>2 DEF Entries
<1>5. ASSUME worker[1].from # Nobody
      PROVE  /\ worker[1].from \in Callers
             /\ calls[worker[1].from].at = "awaiting"
             /\ calls[worker[1].from].request = worker[1].request
             /\ Places(Pipeline, worker[1].from) = {1}
  <2>1. worker[1].from \in Callers BY <1>4, <1>5
  <2>2. 1 \in Places(Pipeline, worker[1].from) BY <1>2, <1>3 DEF Places
  <2>3. OnItsWay(Pipeline, worker[1].from, calls[worker[1].from])
    BY <1>1, <2>1 DEF CallsInFlight
  <2> QED BY <1>2, <2>1, <2>2, <2>3 DEF OnItsWay
<1> QED BY <1>2, <1>3, <1>4, <1>5

RepliedCall(request, reply) ==
  [at |-> "replied", request |-> request, reply |-> reply]

LEMMA ReplyInv ==
  ASSUME NEW Requests, RedbInv(Requests), NEW reply, Reply(reply)
  PROVE  /\ RedbInv(Requests)' /\ worker # <<>>
         /\ Pipeline' = Tail(Pipeline)
         /\ worker[1].from = Nobody => calls' = calls
         /\ worker[1].from # Nobody =>
              OnlyCall(worker[1].from, RepliedCall(worker[1].request, reply))
<1>1. RedbShape(Requests) /\ CallsInFlight BY DEF RedbInv
<1> DEFINE c == worker[1].from
           request == worker[1].request
<1>2. /\ worker # <<>> /\ worker' = <<>> /\ queue' = queue
      /\ senders' = senders
  BY DEF Reply
<1>3. /\ Pipeline \in Seq(Entries(Requests)) /\ Pipeline # <<>>
      /\ Pipeline[1] = worker[1]
      /\ c \in Callers \cup {Nobody} /\ request \in Requests
      /\ c # Nobody => /\ c \in Callers /\ calls[c].at = "awaiting"
                       /\ Places(Pipeline, c) = {1}
  BY <1>2, AnsweredCall
<1>4. Pipeline' = Tail(Pipeline)
  <2>1. Tail(Pipeline) = queue BY <1>1, <1>2, PipelineShape
  <2>2. queue \in Seq(Entries(Requests)) BY <1>1 DEF RedbShape
  <2>3. <<>> \o queue = queue BY <2>2, ConcatEmptySeq
  <2> QED BY <1>2, <2>1, <2>3 DEF Pipeline
<1>5. CASE c = Nobody
  <2>1. calls' = calls BY <1>5 DEF Reply
  <2>2. RedbShape(Requests)' BY <1>1, <1>2, <2>1 DEF RedbShape
  <2>3. \A d \in Callers : OnItsWay(Tail(Pipeline), d, calls[d])
    <3> SUFFICES ASSUME NEW d \in Callers
                 PROVE  OnItsWay(Tail(Pipeline), d, calls[d])
      OBVIOUS
    <3>1. d # c /\ OnItsWay(Pipeline, d, calls[d])
      BY <1>1, <1>5, RedbAssumption DEF CallsInFlight
    <3> QED BY <1>3, <3>1, TailOnItsWay
  <2>4. CallsInFlight' BY <1>1, <1>2, <1>4, <2>1, <2>3 DEF CallsInFlight
  <2> QED BY <1>2, <1>4, <1>5, <2>1, <2>2, <2>4 DEF RedbInv
<1>6. CASE c # Nobody
  <2>1. OnlyCall(c, RepliedCall(request, reply))
    BY <1>1, <1>3, <1>6, OnlyCallChanges
       DEF Reply, Replied, RepliedCall, RedbShape
  <2>2. RedbShape(Requests)'
    <3>1. CallShape(RepliedCall(request, reply), Requests)
      BY <1>3 DEF CallShape, RepliedCall
    <3>2. <<>> \in Seq(Entries(Requests)) /\ Len(<<>>) <= 1 BY EmptySeq
    <3> QED BY <1>1, <1>2, <2>1, <3>1, <3>2 DEF RedbShape, OnlyCall
  <2>3. \A d \in Callers : OnItsWay(Tail(Pipeline), d, calls'[d])
    <3> SUFFICES ASSUME NEW d \in Callers
                 PROVE  OnItsWay(Tail(Pipeline), d, calls'[d])
      OBVIOUS
    <3>1. OnItsWay(Pipeline, d, calls[d]) BY <1>1 DEF CallsInFlight
    <3>2. CASE d # c
      BY <1>3, <2>1, <3>1, <3>2, TailOnItsWay DEF OnlyCall
    <3>3. CASE d = c
      <4>1. calls'[d].at = "replied" BY <2>1, <3>3 DEF OnlyCall, RepliedCall
      <4>2. Places(Tail(Pipeline), d) = {}
        BY <1>3, <1>6, <3>3, TailPlaces
      <4> QED BY <4>1, <4>2 DEF OnItsWay
    <3> QED BY <3>2, <3>3
  <2>4. Members(senders') = {d \in Callers : calls'[d].at = "sending"}
    BY <1>1, <1>2, <1>3, <1>6, <2>1 DEF CallsInFlight, OnlyCall, RepliedCall
  <2>5. CallsInFlight' BY <1>1, <1>2, <1>4, <2>3, <2>4 DEF CallsInFlight
  <2> QED BY <1>2, <1>4, <1>6, <2>1, <2>2, <2>5 DEF RedbInv
<1> QED BY <1>5, <1>6

LEMMA HangupInv ==
  ASSUME NEW Requests, RedbInv(Requests), NEW c \in Callers, Hangup(c)
  PROVE  /\ RedbInv(Requests)'
         /\ Pipeline' = Disowned(Pipeline, c)
         /\ OnlyCall(c, NoCall)
<1>1. RedbShape(Requests) /\ CallsInFlight BY DEF RedbInv
<1>2. /\ queue' = Disowned(queue, c) /\ worker' = Disowned(worker, c)
      /\ senders' = IF calls[c].at = "sending" THEN Without(senders, c)
                    ELSE senders
      /\ calls[c].at # "none"
  BY DEF Hangup
<1>3. OnlyCall(c, NoCall) BY <1>1, OnlyCallChanges DEF RedbShape, Hangup
<1>4. /\ queue \in Seq(Entries(Requests)) /\ worker \in Seq(Entries(Requests))
      /\ Len(worker) <= 1
  BY <1>1 DEF RedbShape
<1>5. Pipeline \in Seq(Entries(Requests)) BY <1>1, PipelineShape
<1>6. /\ queue' \in Seq(Entries(Requests)) /\ Len(queue') = Len(queue)
      /\ worker' \in Seq(Entries(Requests)) /\ Len(worker') = Len(worker)
  BY <1>2, <1>4, DisownedPlaces
<1>7. Pipeline' = Disowned(Pipeline, c)
  BY <1>2, <1>4, DisownedJoined DEF Pipeline
<1>8. /\ senders' \in Seq(Callers) /\ Distinct(senders')
      /\ Members(senders') = Members(senders) \ {c}
  <2>1. CASE calls[c].at = "sending"
    <3>1. c \in Members(senders) BY <1>1, <2>1 DEF CallsInFlight
    <3> QED BY <1>1, <1>2, <2>1, <3>1, LeftQueue DEF RedbShape, CallsInFlight
  <2>2. CASE calls[c].at # "sending"
    <3>1. c \notin Members(senders) BY <1>1, <2>2 DEF CallsInFlight
    <3> QED BY <1>1, <1>2, <2>2, <3>1 DEF RedbShape, CallsInFlight
  <2> QED BY <2>1, <2>2
<1>9. RedbShape(Requests)'
  BY <1>1, <1>3, <1>4, <1>6, <1>8 DEF RedbShape, OnlyCall, CallShape
<1>10. \A d \in Callers : OnItsWay(Pipeline', d, calls'[d])
  <2> SUFFICES ASSUME NEW d \in Callers
               PROVE  OnItsWay(Disowned(Pipeline, c), d, calls'[d])
    BY <1>7
  <2>1. OnItsWay(Pipeline, d, calls[d]) BY <1>1 DEF CallsInFlight
  <2>2. /\ DOMAIN Disowned(Pipeline, c) = DOMAIN Pipeline
        /\ \A i \in DOMAIN Pipeline :
             Disowned(Pipeline, c)[i].request = Pipeline[i].request
        /\ Places(Disowned(Pipeline, c), c) = {}
        /\ d # c => Places(Disowned(Pipeline, c), d) = Places(Pipeline, d)
    BY <1>5, DisownedPlaces
  <2>3. CASE d = c BY <1>3, <2>2, <2>3 DEF OnItsWay, OnlyCall, NoCall
  <2>4. CASE d # c BY <1>3, <2>1, <2>2, <2>4 DEF OnItsWay, OnlyCall
  <2> QED BY <2>3, <2>4
<1>11. Members(senders') = {d \in Callers : calls'[d].at = "sending"}
  BY <1>1, <1>3, <1>8 DEF CallsInFlight, OnlyCall, NoCall
<1>12. CallsInFlight'
  BY <1>1, <1>6, <1>8, <1>10, <1>11 DEF CallsInFlight
<1> QED BY <1>3, <1>7, <1>9, <1>12 DEF RedbInv
=============================================================================
