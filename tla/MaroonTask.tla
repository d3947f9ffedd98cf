----------------------------- MODULE MaroonTask -----------------------------
(***************************************************************************)
(* The Maroon machine of step11_ws_state_machine: what ONE task does when  *)
(* the executor steps it.  A task is a stack of entries and a heap.  The   *)
(* top of the stack is the state to execute; right below it are that      *)
(* state's local variables; below those may lie a `Retrn` entry, the state *)
(* that a `Return` continues in.                                           *)
(*                                                                         *)
(* The module has no variables: it defines what the arms of `global_step`  *)
(* compute, and Advance, the part of the executor's loop that takes the    *)
(* stack apart, calls `global_step` and puts the stack together again.     *)
(* A `panic!`, an `.expect()` that fails and an `unreachable!` are the     *)
(* outcome "Panic".  Texts are tuples of what the format string shows.     *)
(***************************************************************************)
EXTENDS Naturals, Integers, Sequences

CONSTANTS
  WORD,      \* the number of values of a `u64`: 2^64 in the program
  Messages   \* the strings a client may ask the program to say later

(* One more than the largest `u64`; the literals of the code must fit.     *)
ASSUME WordAssumption == WORD \in Nat /\ WORD > 50

Word == 0 .. WORD - 1

(* `+`, `-` and `*` on `u64` in a release build.                           *)
Wrap(x) == x % WORD

-----------------------------------------------------------------------------
(* Stack entries.                                                          *)

TaskStates ==
  { "Completed", "DelayedMessageTaskBegin", "DelayedMessageTaskExecute",
    "DivisorsTaskBegin", "DivisorsTaskIteration", "DivisorsPrintAndMoveOn",
    "FibonacciTaskBegin", "FibonacciTaskCalculate", "FibonacciTaskResult",
    "FibonacciTaskStep", "FactorialEntry", "FactorialRecursiveCall",
    "FactorialRecursionPostWrite", "FactorialRecursionPostSleep",
    "FactorialRecursionPostRecursiveCall", "FactorialDone" }

WordKinds ==
  { "DelayInputMs", "FactorialInput", "FactorialArgument",
    "FactorialReturnValue" }

State(s)    == [entry |-> "State", state |-> s]
Retrn(s)    == [entry |-> "Retrn", state |-> s]
Value(k, v) == [entry |-> "Value", kind |-> k, value |-> v]

Values ==
  [entry : {"Value"}, kind : WordKinds, value : Word]
    \cup [entry : {"Value"}, kind : {"DelayInputMessage"}, value : Messages]

StackEntries == [entry : {"State", "Retrn"}, state : TaskStates] \cup Values

EmptyHeap == [kind |-> "Empty"]

Heaps ==
  {EmptyHeap}
    \cup [kind : {"Divisors"}, n : Word, i : Word]
    \cup [kind : {"Fibonacci"}, n : Word, index : Word, a : Word, b : Word,
          delay_ms : Word]

(* Mutant: the table forgets that FactorialDone has two variables.         *)
LocalVarsCountOfDone ==
  [s \in TaskStates |->
     CASE s \in {"FactorialEntry", "FactorialRecursiveCall", "FactorialDone",
                 "FactorialRecursionPostWrite",
                 "FactorialRecursionPostSleep"} -> 1
       [] s \in {"FactorialRecursionPostRecursiveCall",
                 "DelayedMessageTaskBegin", "DelayedMessageTaskExecute"} -> 2
       [] OTHER -> 0]

(* How many entries below State(s) are its local variables.                *)
LocalVarsCount ==
  [s \in TaskStates |->
     CASE s \in {"FactorialEntry", "FactorialRecursiveCall",
                 "FactorialRecursionPostWrite",
                 "FactorialRecursionPostSleep"} -> 1
       [] s \in {"FactorialRecursionPostRecursiveCall", "FactorialDone",
                 "DelayedMessageTaskBegin", "DelayedMessageTaskExecute"} -> 2
       [] OTHER -> 0]

(* How many entries below Retrn(s) are kept for the state returned to.     *)
ReturnLocalVarsCount ==
  [s \in TaskStates |->
     IF s \in {"FactorialDone", "FactorialRecursionPostRecursiveCall"}
     THEN 1 ELSE 0]

-----------------------------------------------------------------------------
(* Texts: the arguments of the format strings, led by their name.          *)

DelayedMessage(ms, msg)    == <<"Delayed by", ms, msg>>
DivisorFound(n, i)         == <<"A divisor of", n, i>>
DivisorsDone(n)            == <<"Done for", n>>
FibonacciStep(n, index, a) == <<"Fibonacci for", n, index, a>>
FibonacciResult(n, result) == <<"Fibonacci", n, result>>
FactorialCall(n)           == <<"f", n>>
FactorialResult(n, r)      == <<"!=", n, r>>
NoText                     == <<>>

Texts ==
  {NoText}
    \cup ({"Delayed by"} \X Word \X Messages)
    \cup ({"A divisor of", "Fibonacci", "!="} \X Word \X Word)
    \cup ({"Done for", "f"} \X Word)
    \cup ({"Fibonacci for"} \X Word \X Word \X Word)

-----------------------------------------------------------------------------
(* MaroonStepResult.  "entries" are pushed on the stack, the last on top;  *)
(* for "Return" they hold the one value returned.  "heap" is the heap that *)
(* the step leaves behind.                                                 *)

StepResult(do, ms, text, entries, heap) ==
  [do |-> do, ms |-> ms, text |-> text, entries |-> entries, heap |-> heap]

StepDone(heap)                 == StepResult("Done", 0, NoText, <<>>, heap)
StepNext(entries, heap)        == StepResult("Next", 0, NoText, entries, heap)
StepSleep(ms, entries, heap)   == StepResult("Sleep", ms, NoText, entries, heap)
StepWrite(text, entries, heap) == StepResult("Write", 0, text, entries, heap)
StepReturn(value, heap)        == StepResult("Return", 0, NoText, <<value>>, heap)
StepPanic(heap)                == StepResult("Panic", 0, NoText, <<>>, heap)

(* `vars.get(0)`, `vars.get(1)` have the variants the arm's pattern names. *)
Matches(vars, kinds) ==
  \A j \in DOMAIN kinds : j \in DOMAIN vars /\ vars[j].kind = kinds[j]

-----------------------------------------------------------------------------
(* The arms of `global_step`: vars[1] was on top.                          *)

DelayedMessageTaskBegin(vars, heap) ==
  IF Matches(vars, <<"DelayInputMessage", "DelayInputMs">>)
  THEN StepSleep(vars[2].value,
                 <<vars[2], vars[1], State("DelayedMessageTaskExecute")>>, heap)
  ELSE StepPanic(heap)

DelayedMessageTaskExecute(vars, heap) ==
  IF Matches(vars, <<"DelayInputMessage", "DelayInputMs">>)
  THEN StepWrite(DelayedMessage(vars[2].value, vars[1].value),
                 <<State("Completed")>>, heap)
  ELSE StepPanic(heap)

DivisorsTaskBegin(heap) ==
  IF heap.kind = "Divisors"
  THEN StepNext(<<State("DivisorsTaskIteration")>>, [heap EXCEPT !.i = heap.n])
  ELSE StepPanic(heap)

(* Where `while i > 0 && n % i != 0 { i -= 1 }` stops: the divisor of n    *)
(* that no other one in 1..i exceeds, or 0.                                *)
LargestDivisorUpTo(n, i) ==
  LET Largest == {d \in 1 .. i : /\ n % d = 0
                                 /\ \A e \in (d + 1) .. i : n % e # 0}
  IN IF Largest = {} THEN 0 ELSE CHOOSE d \in Largest : TRUE

DivisorsTaskIteration(heap) ==
  LET i == LargestDivisorUpTo(heap.n, heap.i)
  IN IF heap.kind # "Divisors" THEN StepPanic(heap)
     ELSE IF i = 0
     THEN StepWrite(DivisorsDone(heap.n), <<State("Completed")>>, heap)
     ELSE StepSleep(Wrap(i * 10), <<State("DivisorsPrintAndMoveOn")>>,
                    [heap EXCEPT !.i = i])

DivisorsPrintAndMoveOn(heap) ==
  IF heap.kind = "Divisors"
  THEN StepWrite(DivisorFound(heap.n, heap.i),
                 <<State("DivisorsTaskIteration")>>,
                 [heap EXCEPT !.i = Wrap(heap.i - 1)])
  ELSE StepPanic(heap)

FibonacciTaskBegin(heap) ==
  IF heap.kind # "Fibonacci" THEN StepPanic(heap)
  ELSE IF heap.n <= 1
  THEN StepWrite(FibonacciResult(heap.n, heap.n), <<State("Completed")>>, heap)
  ELSE StepNext(<<State("FibonacciTaskCalculate")>>,
                [heap EXCEPT !.index = 1, !.a = 0, !.b = 1])

(* Mutant: the loop ends one index early.                                  *)
FibonacciTaskCalculateShort(heap) ==
  IF heap.kind # "Fibonacci" THEN StepPanic(heap)
  ELSE IF heap.index + 1 >= heap.n
  THEN StepNext(<<State("FibonacciTaskResult")>>, heap)
  ELSE StepWrite(FibonacciStep(heap.n, heap.index, heap.b),
                 <<State("FibonacciTaskStep")>>,
                 [heap EXCEPT !.delay_ms = Wrap(5 * heap.index)])

FibonacciTaskCalculate(heap) ==
  IF heap.kind # "Fibonacci" THEN StepPanic(heap)
  ELSE IF heap.index >= heap.n
  THEN StepNext(<<State("FibonacciTaskResult")>>, heap)
  ELSE StepWrite(FibonacciStep(heap.n, heap.index, heap.b),
                 <<State("FibonacciTaskStep")>>,
                 [heap EXCEPT !.delay_ms = Wrap(5 * heap.index)])

(* Mutant: the next `b` is computed after `a` was overwritten.             *)
FibonacciTaskStepInPlace(heap) ==
  IF heap.kind = "Fibonacci"
  THEN StepSleep(heap.delay_ms, <<State("FibonacciTaskCalculate")>>,
                 [heap EXCEPT !.index = Wrap(heap.index + 1),
                              !.a = heap.b,
                              !.b = Wrap(heap.b + heap.b)])
  ELSE StepPanic(heap)

FibonacciTaskStep(heap) ==
  IF heap.kind = "Fibonacci"
  THEN StepSleep(heap.delay_ms, <<State("FibonacciTaskCalculate")>>,
                 [heap EXCEPT !.index = Wrap(heap.index + 1),
                              !.a = heap.b,
                              !.b = Wrap(heap.a + heap.b)])
  ELSE StepPanic(heap)

FibonacciTaskResult(heap) ==
  IF heap.kind = "Fibonacci"
  THEN StepWrite(FibonacciResult(heap.n, heap.b), <<State("Completed")>>, heap)
  ELSE StepPanic(heap)

FactorialEntry(vars, heap) ==
  IF Matches(vars, <<"FactorialInput">>)
  THEN StepNext(<<vars[1], Retrn("FactorialDone"),
                  Value("FactorialArgument", vars[1].value),
                  State("FactorialRecursiveCall")>>, heap)
  ELSE StepPanic(heap)

FactorialRecursiveCall(vars, heap) ==
  IF Matches(vars, <<"FactorialArgument">>)
  THEN StepWrite(FactorialCall(vars[1].value),
                 <<vars[1], State("FactorialRecursionPostWrite")>>, heap)
  ELSE StepPanic(heap)

FactorialRecursionPostWrite(vars, heap) ==
  IF Matches(vars, <<"FactorialArgument">>)
  THEN StepSleep(Wrap(vars[1].value * 50),
                 <<vars[1], State("FactorialRecursionPostSleep")>>, heap)
  ELSE StepPanic(heap)

(* Mutant: the recursive call does not keep its caller's argument.         *)
FactorialRecursionForgets(vars, heap) ==
  IF ~Matches(vars, <<"FactorialArgument">>) THEN StepPanic(heap)
  ELSE IF vars[1].value > 1
  THEN StepNext(<<Retrn("FactorialRecursionPostRecursiveCall"),
                  Value("FactorialArgument", vars[1].value - 1),
                  State("FactorialRecursiveCall")>>, heap)
  ELSE StepReturn(Value("FactorialReturnValue", 1), heap)

FactorialRecursionPostSleep(vars, heap) ==
  IF ~Matches(vars, <<"FactorialArgument">>) THEN StepPanic(heap)
  ELSE IF vars[1].value > 1
  THEN StepNext(<<vars[1], Retrn("FactorialRecursionPostRecursiveCall"),
                  Value("FactorialArgument", vars[1].value - 1),
                  State("FactorialRecursiveCall")>>, heap)
  ELSE StepReturn(Value("FactorialReturnValue", 1), heap)

FactorialRecursionPostRecursiveCall(vars, heap) ==
  IF Matches(vars, <<"FactorialReturnValue", "FactorialArgument">>)
  THEN StepReturn(Value("FactorialReturnValue",
                        Wrap(vars[1].value * vars[2].value)), heap)
  ELSE StepPanic(heap)

FactorialDone(vars, heap) ==
  IF Matches(vars, <<"FactorialReturnValue", "FactorialInput">>)
  THEN StepWrite(FactorialResult(vars[2].value, vars[1].value),
                 <<State("Completed")>>, heap)
  ELSE StepPanic(heap)

global_step(state, vars, heap) ==
  CASE state = "DelayedMessageTaskBegin"   -> DelayedMessageTaskBegin(vars, heap)
    [] state = "DelayedMessageTaskExecute" -> DelayedMessageTaskExecute(vars, heap)
    [] state = "DivisorsTaskBegin"         -> DivisorsTaskBegin(heap)
    [] state = "DivisorsTaskIteration"     -> DivisorsTaskIteration(heap)
    [] state = "DivisorsPrintAndMoveOn"    -> DivisorsPrintAndMoveOn(heap)
    [] state = "FibonacciTaskBegin"        -> FibonacciTaskBegin(heap)
    [] state = "FibonacciTaskCalculate"    -> FibonacciTaskCalculate(heap)
    [] state = "FibonacciTaskStep"         -> FibonacciTaskStep(heap)
    [] state = "FibonacciTaskResult"       -> FibonacciTaskResult(heap)
    [] state = "FactorialEntry"            -> FactorialEntry(vars, heap)
    [] state = "FactorialRecursiveCall"    -> FactorialRecursiveCall(vars, heap)
    [] state = "FactorialRecursionPostWrite" ->
         FactorialRecursionPostWrite(vars, heap)
    [] state = "FactorialRecursionPostSleep" ->
         FactorialRecursionPostSleep(vars, heap)
    [] state = "FactorialRecursionPostRecursiveCall" ->
         FactorialRecursionPostRecursiveCall(vars, heap)
    [] state = "FactorialDone"             -> FactorialDone(vars, heap)
    [] state = "Completed"                 -> StepDone(heap)

-----------------------------------------------------------------------------
(* One pass of the executor's loop over a task, between taking it out of   *)
(* `active_tasks` and putting it back.                                     *)

Outcome(do, ms, text, stack, heap) ==
  [do |-> do, ms |-> ms, text |-> text, stack |-> stack, heap |-> heap]

Panic(stack, heap) == Outcome("Panic", 0, NoText, stack, heap)

(* What becomes of the stack `rest`, left after the state and its local    *)
(* variables were popped.  `Return` pops the `Retrn` entry and continues   *)
(* in its state at the same timestamp, as `Next` does.                     *)
Resume(step, rest) ==
  IF step.do = "Return"
  THEN IF rest # <<>> /\ rest[Len(rest)].entry = "Retrn"
       THEN Outcome("Next", 0, NoText,
                    SubSeq(rest, 1, Len(rest) - 1)
                      \o step.entries \o <<State(rest[Len(rest)].state)>>,
                    step.heap)
       ELSE Panic(rest, step.heap)
  ELSE Outcome(step.do, step.ms, step.text, rest \o step.entries, step.heap)

(* The top is a state and its local variables are all there.               *)
Executable(stack) ==
  /\ stack # <<>>
  /\ stack[Len(stack)].entry = "State"
  /\ LET count == LocalVarsCount[stack[Len(stack)].state]
     IN /\ count < Len(stack)
        /\ \A j \in 1 .. count : stack[Len(stack) - j].entry = "Value"

Advance(stack, heap) ==
  LET depth == Len(stack)
      state == stack[depth].state
      count == LocalVarsCount[state]
      vars  == [j \in 1 .. count |-> stack[depth - j]]
  IN IF Executable(stack)
     THEN Resume(global_step(state, vars, heap),
                 SubSeq(stack, 1, depth - 1 - count))
     ELSE Panic(stack, heap)

-----------------------------------------------------------------------------
(* What the test build checks before and after each step of a task: every  *)
(* state and every `Retrn` has its local variables right below it.  As in  *)
(* the code an entry at the very bottom is not looked at.                  *)
debug_validate_maroon_stack(stack) ==
  LET VarsOf(e) == IF e.entry = "State" THEN LocalVarsCount[e.state]
                                        ELSE ReturnLocalVarsCount[e.state]
      Frame[i \in 1 .. Len(stack)] ==
        \/ i <= 1
        \/ /\ stack[i].entry # "Value"
           /\ VarsOf(stack[i]) < i
           /\ \A j \in 1 .. VarsOf(stack[i]) : stack[i - j].entry = "Value"
           /\ Frame[IF i - VarsOf(stack[i]) = 1 THEN 1
                    ELSE i - VarsOf(stack[i]) - 1]
  IN stack # <<>> /\ Frame[Len(stack)]

-----------------------------------------------------------------------------
(* The tasks that the four scheduling routes start.                        *)

Requests(Delays, Numbers) ==
  [route : {"delay"}, t : Delays, s : Messages]
    \cup [route : {"divisors", "fibonacci", "factorial"}, n : Numbers]

InitialStack(request) ==
  CASE request.route = "delay" ->
         << Value("DelayInputMs", request.t),
            Value("DelayInputMessage", request.s),
            State("DelayedMessageTaskBegin") >>
    [] request.route = "divisors"  -> << State("DivisorsTaskBegin") >>
    [] request.route = "fibonacci" -> << State("FibonacciTaskBegin") >>
    [] request.route = "factorial" ->
         << Value("FactorialInput", request.n), State("FactorialEntry") >>

InitialHeap(request) ==
  CASE request.route = "divisors" ->
         [kind |-> "Divisors", n |-> request.n, i |-> request.n]
    [] request.route = "fibonacci" ->
         [kind |-> "Fibonacci", n |-> request.n, index |-> 0,
          a |-> 0, b |-> 0, delay_ms |-> 0]
    [] OTHER -> EmptyHeap

-----------------------------------------------------------------------------
(* The shapes of a task between two steps.  A factorial's stack holds its  *)
(* input, the `Retrn` into FactorialDone, and one frame per level of the   *)
(* recursion: the level's argument and, but for the innermost level, the   *)
(* `Retrn` into FactorialRecursionPostRecursiveCall.                       *)

IsValue(e, k) == e.entry = "Value" /\ e.kind = k

DelayShape(stack) ==
  /\ Len(stack) = 3
  /\ IsValue(stack[1], "DelayInputMs")
  /\ IsValue(stack[2], "DelayInputMessage")
  /\ stack[3] \in {State("DelayedMessageTaskBegin"),
                   State("DelayedMessageTaskExecute")}

HeapShape(stack, heap) ==
  /\ Len(stack) = 1
  /\ \/ /\ heap.kind = "Divisors"
        /\ stack[1] \in {State("DivisorsTaskBegin"),
                         State("DivisorsTaskIteration"),
                         State("DivisorsPrintAndMoveOn")}
     \/ /\ heap.kind = "Fibonacci"
        /\ stack[1] \in {State("FibonacciTaskBegin"),
                         State("FibonacciTaskCalculate"),
                         State("FibonacciTaskStep"),
                         State("FibonacciTaskResult")}
     \/ stack[1] = State("Completed")

EntryShape(stack) ==
  /\ Len(stack) = 2
  /\ IsValue(stack[1], "FactorialInput")
  /\ stack[2] = State("FactorialEntry")

DoneShape(stack) ==
  /\ Len(stack) = 3
  /\ IsValue(stack[1], "FactorialInput")
  /\ IsValue(stack[2], "FactorialReturnValue")
  /\ stack[3] = State("FactorialDone")

(* Levels 2 to m of the recursion, the frames of its callers.              *)
Frames(stack, m) ==
  /\ IsValue(stack[1], "FactorialInput")
  /\ stack[2] = Retrn("FactorialDone")
  /\ \A j \in 2 .. m : IsValue(stack[2 * j - 1], "FactorialArgument")
  /\ \A j \in 2 .. m - 1 :
       stack[2 * j] = Retrn("FactorialRecursionPostRecursiveCall")

CallShape(stack, m) ==
  /\ Len(stack) = 2 * m
  /\ Frames(stack, m)
  /\ stack[2 * m] \in {State("FactorialRecursiveCall"),
                       State("FactorialRecursionPostWrite"),
                       State("FactorialRecursionPostSleep")}

ReturnShape(stack, m) ==
  /\ Len(stack) = 2 * m + 1
  /\ Frames(stack, m)
  /\ IsValue(stack[2 * m], "FactorialReturnValue")
  /\ stack[2 * m + 1] = State("FactorialRecursionPostRecursiveCall")

WellShaped(stack, heap) ==
  \/ DelayShape(stack)
  \/ HeapShape(stack, heap)
  \/ EntryShape(stack)
  \/ DoneShape(stack)
  \/ \E m \in 2 .. Len(stack) : CallShape(stack, m) \/ ReturnShape(stack, m)
=============================================================================
