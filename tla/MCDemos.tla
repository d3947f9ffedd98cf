------------------------------- MODULE MCDemos ------------------------------
(***************************************************************************)
(* The programs that share nothing with others, for TLC: each behaviour is *)
(* one of them, chosen at the start.                                       *)
(***************************************************************************)
EXTENDS RedisSub, AckRoute, PegGrammars, AcceptHeader, MermaidCanvas, TLC
CONSTANTS hi, bytes

VARIABLE program
vars == <<program, subVars, ackVars, grammarVars, headerVars, canvasVars>>

Init ==
  /\ program \in {"redis", "ack", "pest", "accept", "mermaid"}
  /\ SubInit /\ AckInit /\ GrammarInit /\ HeaderInit /\ CanvasInit
  /\ program # "redis" => args = CHOOSE any \in Args : TRUE

Redis   == /\ program = "redis" /\ SubNext
           /\ UNCHANGED <<program, ackVars, grammarVars, headerVars>>
           /\ UNCHANGED canvasVars
Ack     == /\ program = "ack" /\ AckNext
           /\ UNCHANGED <<program, subVars, grammarVars, headerVars>>
           /\ UNCHANGED canvasVars
Pest    == /\ program = "pest" /\ Type
           /\ UNCHANGED <<program, subVars, ackVars, headerVars, canvasVars>>
Accept  == /\ program = "accept" /\ Extend
           /\ UNCHANGED <<program, subVars, ackVars, grammarVars, canvasVars>>
Mermaid == /\ program = "mermaid" /\ CanvasNext
           /\ UNCHANGED <<program, subVars, ackVars, grammarVars, headerVars>>

(* The three that come to an end of their own, and the three bounds.       *)
Rest == /\ \/ program = "redis" /\ ~SubRunning
           \/ program = "ack" /\ answer # <<>> /\ sent = Len(lines)
           \/ program = "pest" /\ Len(text) = MaxLength
           \/ program = "accept" /\ Len(accept) = MaxHeaderLength
           \/ program = "mermaid" /\ living = {} /\ last = MaxParticipants
        /\ UNCHANGED vars

Next == Redis \/ Ack \/ Pest \/ Accept \/ Mermaid \/ Rest

Spec == Init /\ [][Next]_vars

(* Redis answers what try_sub asks before it listens, with success or an   *)
(* error; timers fire; the runtime polls what is ready.  Nothing is asked  *)
(* of Redis after that, nor of other processes.  Of /ack the recursion and *)
(* the writer's task go on; nothing is asked of the client's socket.       *)
RedisDoes(Step) == Redis /\ Step
AckDoes(Step)   == Ack /\ Step

Fairness ==
  /\ WF_vars(RedisDoes(Setup))
  /\ WF_vars(RedisDoes(TimerFires))
  /\ WF_vars(RedisDoes(TimesOut))
  /\ WF_vars(RedisDoes(Listen \/ StreamEnds))
  /\ WF_vars(AckDoes(async_ack))
  /\ WF_vars(AckDoes(Take))

FairSpec == Spec /\ Fairness

(* `--mode sub` ends, whatever Redis, the publisher and others do, if the  *)
(* first argument is a duration.  If it is none, the panic of the timer's  *)
(* task leaves no timeout, and what ends it for sure is only that the      *)
(* connection breaks (step06 main.rs:67-105).                              *)
SubscriberEnds ==
  program = "redis" /\ (args.subscribe_for_seconds = "seconds" \/ ~linked)
    ~> ~SubRunning

-----------------------------------------------------------------------------
SmallRequests == (0 .. 2) \X (0 .. 2) \cup {<<3, 1>>, <<1, 5>>}
=============================================================================
