-------------------------- MODULE MaroonTaskProofs --------------------------
(***************************************************************************)
(* Facts about one step of a task, for every WORD and every Messages:      *)
(* what Advance returns is well typed; a stack of one of the shapes that   *)
(* the program builds is advanced to one of those shapes, without a panic, *)
(* and accepted by the validator of the test build; and a task that is on  *)
(* its script goes on with it.                                             *)
(***************************************************************************)
EXTENDS MaroonScripts, DataProofs, FiniteSetTheorems

-----------------------------------------------------------------------------
(* Types.                                                                  *)

(* The arithmetic of `u64` stays in `u64`, and the literals are in it.     *)
LEMMA WrapType ==
  ASSUME NEW x \in Int
  PROVE  Wrap(x) \in Word
BY WordAssumption DEF Wrap, Word

LEMMA Literals == /\ 0 \in Word /\ 1 \in Word
                  /\ Word \subseteq Nat
BY WordAssumption DEF Word

LEMMA WrappedArithmetic ==
  ASSUME NEW x \in Word, NEW y \in Word
  PROVE  /\ Wrap(x + y) \in Word /\ Wrap(x * y) \in Word
         /\ Wrap(x + 1) \in Word /\ Wrap(x - 1) \in Word
         /\ Wrap(5 * x) \in Word /\ Wrap(x * 10) \in Word
         /\ Wrap(x * 50) \in Word
<1>1. x \in Int /\ y \in Int BY Literals
<1>2. /\ x + y \in Int /\ x * y \in Int /\ x + 1 \in Int /\ x - 1 \in Int
      /\ 5 * x \in Int /\ x * 10 \in Int /\ x * 50 \in Int
  BY <1>1
<1> QED BY <1>2, WrapType

(* A value of one of the numeric kinds holds a `u64`.                      *)
LEMMA WordValue ==
  ASSUME NEW v \in Values, v.kind \in WordKinds
  PROVE  v.value \in Word
BY DEF Values, WordKinds

LEMMA ValueType ==
  ASSUME NEW k \in WordKinds, NEW v \in Word
  PROVE  Value(k, v) \in Values /\ Value(k, v) \in StackEntries
BY DEF Value, Values, StackEntries

LEMMA StateType ==
  ASSUME NEW s \in TaskStates
  PROVE  State(s) \in StackEntries /\ Retrn(s) \in StackEntries
BY DEF State, Retrn, StackEntries

(* Every format that global_step writes is a text.                         *)
LEMMA TextType ==
  /\ NoText \in Texts
  /\ \A x \in Word, msg \in Messages : DelayedMessage(x, msg) \in Texts
  /\ \A x \in Word : DivisorsDone(x) \in Texts /\ FactorialCall(x) \in Texts
  /\ \A x, y \in Word : /\ DivisorFound(x, y) \in Texts
                        /\ FibonacciResult(x, y) \in Texts
                        /\ FactorialResult(x, y) \in Texts
  /\ \A x, y, z \in Word : FibonacciStep(x, y, z) \in Texts
BY DEF Texts, NoText, DelayedMessage, DivisorsDone, FactorialCall,
       DivisorFound, FibonacciResult, FactorialResult, FibonacciStep

(* The result of an arm of global_step.                                    *)
StepOK(step) ==
  /\ step.do \in {"Done", "Next", "Sleep", "Write", "Return", "Panic"}
  /\ step.ms \in Word
  /\ step.text \in Texts
  /\ step.entries \in Seq(StackEntries)
  /\ step.heap \in Heaps

LEMMA PanicOK ==
  ASSUME NEW heap \in Heaps
  PROVE  StepOK(StepPanic(heap)) /\ StepOK(StepDone(heap))
BY Literals, TextType DEF StepOK, StepDone, StepPanic, StepResult

LEMMA NextOK ==
  ASSUME NEW heap \in Heaps, NEW entries \in Seq(StackEntries)
  PROVE  StepOK(StepNext(entries, heap))
BY Literals, TextType DEF StepOK, StepNext, StepResult

LEMMA SleepOK ==
  ASSUME NEW heap \in Heaps, NEW entries \in Seq(StackEntries),
         NEW ms \in Word
  PROVE  StepOK(StepSleep(ms, entries, heap))
BY TextType DEF StepOK, StepSleep, StepResult

LEMMA WriteOK ==
  ASSUME NEW heap \in Heaps, NEW entries \in Seq(StackEntries),
         NEW text \in Texts
  PROVE  StepOK(StepWrite(text, entries, heap))
BY Literals DEF StepOK, StepWrite, StepResult

LEMMA ReturnOK ==
  ASSUME NEW heap \in Heaps, NEW v \in Values
  PROVE  StepOK(StepReturn(v, heap))
BY Literals, TextType DEF StepOK, StepReturn, StepResult, StackEntries

(* The one-entry stacks that the arms without variables push.              *)
LEMMA OneState ==
  ASSUME NEW s \in TaskStates
  PROVE  <<State(s)>> \in Seq(StackEntries)
BY StateType

(* The arms of the delay.                                                  *)
LEMMA DelayArmsOK ==
  ASSUME NEW vars, \A j \in DOMAIN vars : vars[j] \in Values,
         NEW heap \in Heaps
  PROVE  /\ StepOK(DelayedMessageTaskBegin(vars, heap))
         /\ StepOK(DelayedMessageTaskExecute(vars, heap))
<1> DEFINE M == Matches(vars, <<"DelayInputMessage", "DelayInputMs">>)
<1>1. CASE ~M
  BY <1>1, PanicOK, SleepOK, WriteOK
     DEF DelayedMessageTaskBegin, DelayedMessageTaskExecute
<1>2. CASE M
  <2>1. /\ vars[1] \in Values /\ vars[2] \in Values
        /\ vars[2].kind = "DelayInputMs"
    BY <1>2 DEF Matches
  <2>2. vars[2].value \in Word BY <2>1, WordValue DEF WordKinds
  <2>3. <<vars[2], vars[1], State("DelayedMessageTaskExecute")>>
          \in Seq(StackEntries)
    BY <2>1, StateType DEF StackEntries, TaskStates
  <2>4. <<State("Completed")>> \in Seq(StackEntries)
    BY StateType DEF TaskStates
  <2>5. vars[1].value \in Messages
    BY <1>2, <2>1 DEF Matches, Values, WordKinds
  <2>6. DelayedMessage(vars[2].value, vars[1].value) \in Texts
    BY <2>2, <2>5, TextType
  <2> QED
    BY <1>2, <2>2, <2>3, <2>4, <2>1, <2>6, PanicOK, SleepOK, WriteOK
       DEF DelayedMessageTaskBegin, DelayedMessageTaskExecute
<1> QED BY <1>1, <1>2

(* The loop of DivisorsTaskIteration ends at or below where it starts.     *)
LEMMA LargestDivisorType ==
  ASSUME NEW n \in Word, NEW i \in Word
  PROVE  /\ LargestDivisorUpTo(n, i) \in Word
         /\ LargestDivisorUpTo(n, i) \in 0 .. i
<1> DEFINE Largest == {d \in 1 .. i : /\ n % d = 0
                                     /\ \A e \in (d + 1) .. i : n % e # 0}
<1>1. CASE Largest = {}
  BY <1>1, Literals DEF LargestDivisorUpTo, Word
<1>2. CASE Largest # {}
  <2>1. (CHOOSE d \in Largest : TRUE) \in Largest BY <1>2
  <2>2. LargestDivisorUpTo(n, i) \in 1 .. i
    BY <1>2, <2>1 DEF LargestDivisorUpTo
  <2> QED BY <2>2, WordAssumption DEF Word
<1> QED BY <1>1, <1>2

(* The arms of the divisors.                                               *)
LEMMA DivisorsArmsOK ==
  ASSUME NEW heap \in Heaps
  PROVE  /\ StepOK(DivisorsTaskBegin(heap))
         /\ StepOK(DivisorsTaskIteration(heap))
         /\ StepOK(DivisorsPrintAndMoveOn(heap))
<1>1. CASE heap.kind # "Divisors"
  BY <1>1, PanicOK
     DEF DivisorsTaskBegin, DivisorsTaskIteration, DivisorsPrintAndMoveOn
<1>2. CASE heap.kind = "Divisors"
  <2>1. heap \in [kind : {"Divisors"}, n : Word, i : Word]
    BY <1>2 DEF Heaps, EmptyHeap
  <2>2. \A i \in Word : [heap EXCEPT !.i = i] \in Heaps
    BY <2>1 DEF Heaps
  <2>3. StepOK(DivisorsTaskBegin(heap))
    BY <1>2, <2>1, <2>2, OneState, NextOK DEF DivisorsTaskBegin, TaskStates
  <2>4. StepOK(DivisorsTaskIteration(heap))
    <3> DEFINE i == LargestDivisorUpTo(heap.n, heap.i)
    <3>1. i \in Word /\ Wrap(i * 10) \in Word
      BY <2>1, LargestDivisorType, WrappedArithmetic
    <3> HIDE DEF i
    <3>2. StepOK(StepWrite(DivisorsDone(heap.n), <<State("Completed")>>, heap))
      BY <2>1, TextType, OneState, WriteOK DEF TaskStates
    <3>3. StepOK(StepSleep(Wrap(i * 10), <<State("DivisorsPrintAndMoveOn")>>,
                           [heap EXCEPT !.i = i]))
      BY <3>1, <2>2, OneState, SleepOK DEF TaskStates
    <3> QED BY <1>2, <3>2, <3>3 DEF DivisorsTaskIteration, i
  <2>5. StepOK(DivisorsPrintAndMoveOn(heap))
    <3>1. Wrap(heap.i - 1) \in Word
      BY <2>1, WrappedArithmetic
    <3> QED
      BY <3>1, <1>2, <2>1, <2>2, TextType, OneState, WriteOK
         DEF DivisorsPrintAndMoveOn, TaskStates
  <2> QED BY <2>3, <2>4, <2>5
<1> QED BY <1>1, <1>2

(* The arms of the Fibonacci numbers.                                      *)
LEMMA FibonacciArmsOK ==
  ASSUME NEW heap \in Heaps
  PROVE  /\ StepOK(FibonacciTaskBegin(heap))
         /\ StepOK(FibonacciTaskCalculate(heap))
         /\ StepOK(FibonacciTaskStep(heap))
         /\ StepOK(FibonacciTaskResult(heap))
<1>1. CASE heap.kind # "Fibonacci"
  BY <1>1, PanicOK
     DEF FibonacciTaskBegin, FibonacciTaskCalculate, FibonacciTaskStep,
         FibonacciTaskResult
<1>2. CASE heap.kind = "Fibonacci"
  <2>1. heap \in [kind : {"Fibonacci"}, n : Word, index : Word, a : Word,
                  b : Word, delay_ms : Word]
    BY <1>2 DEF Heaps, EmptyHeap
  <2>2. StepOK(FibonacciTaskBegin(heap))
    <3>1. [heap EXCEPT !.index = 1, !.a = 0, !.b = 1] \in Heaps
      BY <2>1, Literals DEF Heaps
    <3> QED
      BY <1>2, <2>1, <3>1, TextType, OneState, NextOK, WriteOK
         DEF FibonacciTaskBegin, TaskStates
  <2>3. StepOK(FibonacciTaskCalculate(heap))
    <3>1. Wrap(5 * heap.index) \in Word BY <2>1, WrappedArithmetic
    <3>2. [heap EXCEPT !.delay_ms = Wrap(5 * heap.index)] \in Heaps
      BY <2>1, <3>1 DEF Heaps
    <3> QED
      BY <1>2, <2>1, <3>2, TextType, OneState, NextOK, WriteOK
         DEF FibonacciTaskCalculate, TaskStates
  <2>4. StepOK(FibonacciTaskStep(heap))
    <3>1. Wrap(heap.index + 1) \in Word /\ Wrap(heap.a + heap.b) \in Word
      BY <2>1, WrappedArithmetic
    <3>2. [heap EXCEPT !.index = Wrap(heap.index + 1), !.a = heap.b,
                       !.b = Wrap(heap.a + heap.b)] \in Heaps
      BY <2>1, <3>1 DEF Heaps
    <3> QED
      BY <1>2, <2>1, <3>2, OneState, SleepOK DEF FibonacciTaskStep, TaskStates
  <2>5. StepOK(FibonacciTaskResult(heap))
    BY <1>2, <2>1, TextType, OneState, WriteOK
       DEF FibonacciTaskResult, TaskStates
  <2> QED BY <2>2, <2>3, <2>4, <2>5
<1> QED BY <1>1, <1>2

(* The arms of the factorial.                                              *)
LEMMA FactorialArmsOK ==
  ASSUME NEW vars, \A j \in DOMAIN vars : vars[j] \in Values,
         NEW heap \in Heaps
  PROVE  /\ StepOK(FactorialEntry(vars, heap))
         /\ StepOK(FactorialRecursiveCall(vars, heap))
         /\ StepOK(FactorialRecursionPostWrite(vars, heap))
         /\ StepOK(FactorialRecursionPostSleep(vars, heap))
         /\ StepOK(FactorialRecursionPostRecursiveCall(vars, heap))
         /\ StepOK(FactorialDone(vars, heap))
<1>1. StepOK(FactorialEntry(vars, heap))
  <2>1. CASE ~Matches(vars, <<"FactorialInput">>)
    BY <2>1, PanicOK DEF FactorialEntry
  <2>2. CASE Matches(vars, <<"FactorialInput">>)
    <3>1. vars[1] \in Values /\ vars[1].value \in Word
      BY <2>2, WordValue DEF Matches, WordKinds
    <3>2. <<vars[1], Retrn("FactorialDone"),
            Value("FactorialArgument", vars[1].value),
            State("FactorialRecursiveCall")>> \in Seq(StackEntries)
      <4>1. vars[1] \in StackEntries BY <3>1 DEF StackEntries
      <4>2. Retrn("FactorialDone") \in StackEntries
        BY StateType DEF TaskStates
      <4>3. Value("FactorialArgument", vars[1].value) \in StackEntries
        BY <3>1, ValueType DEF WordKinds
      <4>4. State("FactorialRecursiveCall") \in StackEntries
        BY StateType DEF TaskStates
      <4> QED BY <4>1, <4>2, <4>3, <4>4
    <3> QED BY <2>2, <3>2, NextOK DEF FactorialEntry
  <2> QED BY <2>1, <2>2
<1> DEFINE M == Matches(vars, <<"FactorialArgument">>)
<1>2. ASSUME M
      PROVE  /\ vars[1] \in Values /\ vars[1] \in StackEntries
             /\ vars[1].value \in Word
  BY <1>2, WordValue DEF Matches, WordKinds, StackEntries
<1>3. ASSUME M, NEW s \in TaskStates
      PROVE  <<vars[1], State(s)>> \in Seq(StackEntries)
  BY <1>2, <1>3, StateType
<1>4. StepOK(FactorialRecursiveCall(vars, heap))
  <2>1. CASE ~M BY <2>1, PanicOK DEF FactorialRecursiveCall
  <2>2. CASE M
    <3>1. <<vars[1], State("FactorialRecursionPostWrite")>>
            \in Seq(StackEntries)
      BY <1>3, <2>2 DEF TaskStates
    <3>2. FactorialCall(vars[1].value) \in Texts BY <1>2, <2>2, TextType
    <3> QED BY <2>2, <3>1, <3>2, WriteOK DEF FactorialRecursiveCall
  <2> QED BY <2>1, <2>2
<1>5. StepOK(FactorialRecursionPostWrite(vars, heap))
  <2>1. CASE ~M BY <2>1, PanicOK DEF FactorialRecursionPostWrite
  <2>2. CASE M
    <3>1. <<vars[1], State("FactorialRecursionPostSleep")>>
            \in Seq(StackEntries)
      BY <1>3, <2>2 DEF TaskStates
    <3>2. Wrap(vars[1].value * 50) \in Word
      BY <1>2, <2>2, WrappedArithmetic
    <3> QED BY <2>2, <3>1, <3>2, SleepOK DEF FactorialRecursionPostWrite
  <2> QED BY <2>1, <2>2
<1>6. StepOK(FactorialRecursionPostSleep(vars, heap))
  <2>1. CASE ~M BY <2>1, PanicOK DEF FactorialRecursionPostSleep
  <2>2. CASE M /\ vars[1].value > 1
    <3>1. vars[1].value - 1 \in Word
      BY <1>2, <2>2, WordAssumption DEF Word
    <3>2. <<vars[1], Retrn("FactorialRecursionPostRecursiveCall"),
            Value("FactorialArgument", vars[1].value - 1),
            State("FactorialRecursiveCall")>> \in Seq(StackEntries)
      <4>1. Retrn("FactorialRecursionPostRecursiveCall") \in StackEntries
        BY StateType DEF TaskStates
      <4>2. Value("FactorialArgument", vars[1].value - 1) \in StackEntries
        BY <3>1, ValueType DEF WordKinds
      <4>3. State("FactorialRecursiveCall") \in StackEntries
        BY StateType DEF TaskStates
      <4> QED BY <1>2, <2>2, <4>1, <4>2, <4>3
    <3> QED BY <2>2, <3>2, NextOK DEF FactorialRecursionPostSleep
  <2>3. CASE M /\ ~(vars[1].value > 1)
    <3>1. Value("FactorialReturnValue", 1) \in Values
      BY ValueType, Literals DEF WordKinds
    <3> QED BY <2>3, <3>1, ReturnOK DEF FactorialRecursionPostSleep
  <2> QED BY <2>1, <2>2, <2>3
<1> DEFINE M2 == Matches(vars, <<"FactorialReturnValue", "FactorialArgument">>)
<1>7. StepOK(FactorialRecursionPostRecursiveCall(vars, heap))
  <2>1. CASE ~M2 BY <2>1, PanicOK DEF FactorialRecursionPostRecursiveCall
  <2>2. CASE M2
    <3>1. vars[1].value \in Word /\ vars[2].value \in Word
      BY <2>2, WordValue DEF Matches, WordKinds
    <3>2. Value("FactorialReturnValue", Wrap(vars[1].value * vars[2].value))
            \in Values
      BY <3>1, WrappedArithmetic, ValueType DEF WordKinds
    <3> QED BY <2>2, <3>2, ReturnOK DEF FactorialRecursionPostRecursiveCall
  <2> QED BY <2>1, <2>2
<1>8. StepOK(FactorialDone(vars, heap))
  <2> DEFINE D == Matches(vars, <<"FactorialReturnValue", "FactorialInput">>)
  <2>1. CASE ~D BY <2>1, PanicOK DEF FactorialDone
  <2>2. CASE D
    <3>1. vars[1].value \in Word /\ vars[2].value \in Word
      BY <2>2, WordValue DEF Matches, WordKinds
    <3>2. FactorialResult(vars[2].value, vars[1].value) \in Texts
      BY <3>1, TextType
    <3> QED BY <2>2, <3>2, OneState, WriteOK DEF FactorialDone, TaskStates
  <2> QED BY <2>1, <2>2
<1> QED BY <1>1, <1>4, <1>5, <1>6, <1>7, <1>8

(* Whatever the variables are, a step is well typed.                       *)
LEMMA GlobalStepOK ==
  ASSUME NEW state \in TaskStates,
         NEW vars, \A j \in DOMAIN vars : vars[j] \in Values,
         NEW heap \in Heaps
  PROVE  StepOK(global_step(state, vars, heap))
BY DelayArmsOK, DivisorsArmsOK, FibonacciArmsOK, FactorialArmsOK, PanicOK
   DEF global_step, TaskStates

-----------------------------------------------------------------------------
(* The stack.                                                              *)

LEMMA Concatenation ==
  ASSUME NEW low \in Seq(StackEntries), NEW high \in Seq(StackEntries)
  PROVE  /\ low \o high \in Seq(StackEntries)
         /\ Len(low \o high) = Len(low) + Len(high)
         /\ \A i \in 1 .. Len(low) : (low \o high)[i] = low[i]
         /\ \A i \in 1 .. Len(high) : (low \o high)[Len(low) + i] = high[i]
OBVIOUS

LEMMA StackConcatAssociative ==
  ASSUME NEW low \in Seq(StackEntries), NEW mid \in Seq(StackEntries),
         NEW high \in Seq(StackEntries)
  PROVE  low \o (mid \o high) = (low \o mid) \o high
BY ConcatAssociative

(* What is pushed on the lower part of a stack, and what stays below.      *)
LEMMA PushedOn ==
  ASSUME NEW stack \in Seq(StackEntries), NEW k \in 0 .. Len(stack),
         NEW entries \in Seq(StackEntries)
  PROVE  LET pushed == SubSeq(stack, 1, k) \o entries
         IN /\ pushed \in Seq(StackEntries)
            /\ Len(pushed) = k + Len(entries)
            /\ \A i \in 1 .. k : pushed[i] = stack[i]
            /\ \A i \in 1 .. Len(entries) : pushed[k + i] = entries[i]
<1>1. /\ SubSeq(stack, 1, k) \in Seq(StackEntries)
      /\ Len(SubSeq(stack, 1, k)) = k
      /\ \A i \in 1 .. k : SubSeq(stack, 1, k)[i] = stack[i]
  OBVIOUS
<1> DEFINE low == SubSeq(stack, 1, k)
<1>2. low \in Seq(StackEntries) /\ Len(low) = k BY <1>1
<1>3. \A i \in 1 .. k : low[i] = stack[i] BY <1>1
<1> HIDE DEF low
<1>4. /\ low \o entries \in Seq(StackEntries)
      /\ Len(low \o entries) = k + Len(entries)
      /\ \A i \in 1 .. k : (low \o entries)[i] = low[i]
      /\ \A i \in 1 .. Len(entries) : (low \o entries)[k + i] = entries[i]
  BY <1>2
<1> QED BY <1>3, <1>4 DEF low

(* The variables of the state on top are values, as many as the table says.*)
LEMMA VarsType ==
  ASSUME NEW stack \in Seq(StackEntries), Executable(stack)
  PROVE  LET depth == Len(stack)
             state == stack[depth].state
             count == LocalVarsCount[state]
             vars  == [j \in 1 .. count |-> stack[depth - j]]
         IN /\ depth \in Nat \ {0}
            /\ state \in TaskStates
            /\ count \in 0 .. 2
            /\ depth - 1 - count \in 0 .. depth
            /\ \A j \in DOMAIN vars : vars[j] \in Values
<1> DEFINE depth == Len(stack)
           state == stack[depth].state
           count == LocalVarsCount[state]
           vars  == [j \in 1 .. count |-> stack[depth - j]]
<1>1. depth \in Nat \ {0} BY DEF Executable
<1>2. state \in TaskStates
  <2>1. stack[depth] \in StackEntries BY <1>1
  <2>2. stack[depth].entry = "State" BY DEF Executable
  <2> QED BY <2>1, <2>2 DEF StackEntries, Values
<1>3. count \in 0 .. 2 BY <1>2 DEF LocalVarsCount
<1>4. count < depth /\ \A j \in 1 .. count : stack[depth - j].entry = "Value"
  BY DEF Executable
<1>5. \A j \in DOMAIN vars : vars[j] \in Values
  <2> SUFFICES ASSUME NEW j \in 1 .. count PROVE stack[depth - j] \in Values
    OBVIOUS
  <2>1. depth - j \in 1 .. depth BY <1>1, <1>3, <1>4
  <2>2. stack[depth - j] \in StackEntries BY <2>1
  <2>3. stack[depth - j].entry = "Value" BY <1>4
  <2> QED BY <2>2, <2>3 DEF StackEntries, Values
<1>6. depth - 1 - count \in 0 .. depth
  <2> HIDE DEF depth, count
  <2> QED BY <1>1, <1>3, <1>4
<1> QED BY <1>1, <1>2, <1>3, <1>5, <1>6

OutcomeOK(outcome) ==
  /\ outcome.do \in {"Done", "Next", "Sleep", "Write", "Panic"}
  /\ outcome.ms \in Word
  /\ outcome.text \in Texts
  /\ outcome.stack \in Seq(StackEntries)
  /\ outcome.heap \in Heaps

(* Advancing a well-typed task, whatever its shape, is well typed.         *)
LEMMA AdvanceType ==
  ASSUME NEW stack \in Seq(StackEntries), NEW heap \in Heaps
  PROVE  OutcomeOK(Advance(stack, heap))
<1> DEFINE depth == Len(stack)
           state == stack[depth].state
           count == LocalVarsCount[state]
           vars  == [j \in 1 .. count |-> stack[depth - j]]
           rest  == SubSeq(stack, 1, depth - 1 - count)
           step  == global_step(state, vars, heap)
<1>1. CASE ~Executable(stack)
  BY <1>1, Literals, TextType DEF Advance, OutcomeOK, Panic, Outcome
<1>2. CASE Executable(stack)
  <2>1. /\ state \in TaskStates
        /\ \A j \in DOMAIN vars : vars[j] \in Values
        /\ depth - 1 - count \in 0 .. depth
    BY <1>2, VarsType
  <2>2. StepOK(step) BY <2>1, GlobalStepOK
  <2>3. rest \in Seq(StackEntries) BY <2>1
  <2>4. Advance(stack, heap) = Resume(step, rest) BY <1>2 DEF Advance
  <2> HIDE DEF step, rest
  <2>5. CASE step.do # "Return"
    BY <2>2, <2>3, <2>4, <2>5 DEF Resume, Outcome, OutcomeOK, StepOK
  <2>6. CASE /\ step.do = "Return" /\ rest # <<>>
             /\ rest[Len(rest)].entry = "Retrn"
    <3> DEFINE back == SubSeq(rest, 1, Len(rest) - 1)
               next == <<State(rest[Len(rest)].state)>>
    <3>1. rest[Len(rest)] \in StackEntries BY <2>3, <2>6
    <3>2. rest[Len(rest)].state \in TaskStates
      BY <3>1, <2>6 DEF StackEntries, Values
    <3>3. next \in Seq(StackEntries) BY <3>2, OneState
    <3>4. back \in Seq(StackEntries) BY <2>3, <2>6
    <3>5. step.entries \in Seq(StackEntries) /\ step.heap \in Heaps
      BY <2>2 DEF StepOK
    <3>6. Resume(step, rest) =
            Outcome("Next", 0, NoText, back \o step.entries \o next, step.heap)
      BY <2>6 DEF Resume
    <3> HIDE DEF back, next
    <3>7. back \o step.entries \o next \in Seq(StackEntries)
      BY <3>3, <3>4, <3>5
    <3> QED BY <2>4, <3>5, <3>6, <3>7, Literals, TextType DEF Outcome, OutcomeOK
  <2>7. CASE step.do = "Return"
             /\ ~(rest # <<>> /\ rest[Len(rest)].entry = "Retrn")
    BY <2>2, <2>3, <2>4, <2>7, Literals, TextType
       DEF Resume, Outcome, OutcomeOK, StepOK, Panic
  <2> QED BY <2>5, <2>6, <2>7
<1> QED BY <1>1, <1>2

-----------------------------------------------------------------------------
(* Shapes.                                                                 *)

Good(outcome) ==
  /\ outcome.do # "Panic"
  /\ outcome.do # "Done" => WellShaped(outcome.stack, outcome.heap)

(* An arm that leaves one state as the whole stack, and its heap with it.  *)
LeavesOne(step) ==
  /\ step.do \in {"Next", "Sleep", "Write"}
  /\ Len(step.entries) = 1
  /\ step.entries \in Seq(StackEntries)
  /\ HeapShape(step.entries, step.heap)

LEMMA DivisorsArmsShape ==
  ASSUME NEW heap \in Heaps, heap.kind = "Divisors"
  PROVE  /\ LeavesOne(DivisorsTaskBegin(heap))
         /\ LeavesOne(DivisorsTaskIteration(heap))
         /\ LeavesOne(DivisorsPrintAndMoveOn(heap))
<1>1. heap \in [kind : {"Divisors"}, n : Word, i : Word]
  BY DEF Heaps, EmptyHeap
<1>2. \A i : [heap EXCEPT !.i = i].kind = "Divisors" BY <1>1
<1>3. \A s \in TaskStates : <<State(s)>> \in Seq(StackEntries) BY OneState
<1>4. LeavesOne(DivisorsTaskBegin(heap))
  BY <1>2, <1>3 DEF LeavesOne, DivisorsTaskBegin, StepNext, StepResult,
     HeapShape, TaskStates
<1>5. LeavesOne(DivisorsTaskIteration(heap))
  <2> DEFINE i == LargestDivisorUpTo(heap.n, heap.i)
  <2> HIDE DEF i
  <2>1. LeavesOne(StepWrite(DivisorsDone(heap.n), <<State("Completed")>>, heap))
    BY <1>3 DEF LeavesOne, StepWrite, StepResult, HeapShape, TaskStates
  <2>2. LeavesOne(StepSleep(Wrap(i * 10), <<State("DivisorsPrintAndMoveOn")>>,
                            [heap EXCEPT !.i = i]))
    BY <1>2, <1>3 DEF LeavesOne, StepSleep, StepResult, HeapShape, TaskStates
  <2> QED BY <2>1, <2>2 DEF DivisorsTaskIteration, i
<1>6. LeavesOne(DivisorsPrintAndMoveOn(heap))
  BY <1>2, <1>3 DEF LeavesOne, DivisorsPrintAndMoveOn, StepWrite, StepResult,
     HeapShape, TaskStates
<1> QED BY <1>4, <1>5, <1>6

LEMMA FibonacciArmsShape ==
  ASSUME NEW heap \in Heaps, heap.kind = "Fibonacci"
  PROVE  /\ LeavesOne(FibonacciTaskBegin(heap))
         /\ LeavesOne(FibonacciTaskCalculate(heap))
         /\ LeavesOne(FibonacciTaskStep(heap))
         /\ LeavesOne(FibonacciTaskResult(heap))
<1>1. heap \in [kind : {"Fibonacci"}, n : Word, index : Word, a : Word,
                b : Word, delay_ms : Word]
  BY DEF Heaps, EmptyHeap
<1>2. \A s \in TaskStates : <<State(s)>> \in Seq(StackEntries) BY OneState
<1>3. ASSUME NEW text
      PROVE  LeavesOne(StepWrite(text, <<State("Completed")>>, heap))
  BY <1>2 DEF LeavesOne, StepWrite, StepResult, HeapShape, TaskStates
<1>4. LeavesOne(FibonacciTaskBegin(heap))
  <2>1. [heap EXCEPT !.index = 1, !.a = 0, !.b = 1].kind = "Fibonacci"
    BY <1>1
  <2>2. LeavesOne(StepNext(<<State("FibonacciTaskCalculate")>>,
                           [heap EXCEPT !.index = 1, !.a = 0, !.b = 1]))
    BY <1>2, <2>1 DEF LeavesOne, StepNext, StepResult, HeapShape, TaskStates
  <2> QED BY <1>3, <2>2 DEF FibonacciTaskBegin
<1>5. LeavesOne(FibonacciTaskCalculate(heap))
  <2>1. LeavesOne(StepNext(<<State("FibonacciTaskResult")>>, heap))
    BY <1>2 DEF LeavesOne, StepNext, StepResult, HeapShape, TaskStates
  <2>2. \A d : [heap EXCEPT !.delay_ms = d].kind = "Fibonacci"
    BY <1>1
  <2>3. LeavesOne(StepWrite(FibonacciStep(heap.n, heap.index, heap.b),
                            <<State("FibonacciTaskStep")>>,
                            [heap EXCEPT !.delay_ms = Wrap(5 * heap.index)]))
    BY <1>2, <2>2 DEF LeavesOne, StepWrite, StepResult, HeapShape, TaskStates
  <2> QED BY <2>1, <2>3 DEF FibonacciTaskCalculate
<1>6. LeavesOne(FibonacciTaskStep(heap))
  <2> DEFINE after == [heap EXCEPT !.index = Wrap(heap.index + 1),
                                   !.a = heap.b,
                                   !.b = Wrap(heap.a + heap.b)]
  <2>1. after.kind = "Fibonacci" BY <1>1
  <2> HIDE DEF after
  <2>2. LeavesOne(StepSleep(heap.delay_ms, <<State("FibonacciTaskCalculate")>>,
                            after))
    BY <1>2, <2>1 DEF LeavesOne, StepSleep, StepResult, HeapShape, TaskStates
  <2> QED BY <2>2 DEF FibonacciTaskStep, after
<1>7. LeavesOne(FibonacciTaskResult(heap)) BY <1>3 DEF FibonacciTaskResult
<1> QED BY <1>4, <1>5, <1>6, <1>7

(* A task whose stack is a single state stays one, or is done.             *)
LEMMA HeapShapeAdvances ==
  ASSUME NEW stack \in Seq(StackEntries), NEW heap \in Heaps,
         HeapShape(stack, heap)
  PROVE  Good(Advance(stack, heap))
<1> DEFINE state == stack[1].state
           step  == global_step(state, <<>>, heap)
<1>1. /\ Len(stack) = 1 /\ stack[1].entry = "State"
      /\ state \in TaskStates /\ LocalVarsCount[state] = 0
  BY DEF HeapShape, State, LocalVarsCount, TaskStates
<1>2. Executable(stack) BY <1>1 DEF Executable
<1>3. SubSeq(stack, 1, Len(stack) - 1 - LocalVarsCount[state]) = <<>>
  BY <1>1
<1>4. [j \in 1 .. LocalVarsCount[state] |-> stack[Len(stack) - j]] = <<>>
  BY <1>1
<1>5. Advance(stack, heap) = Resume(step, <<>>)
  BY <1>1, <1>2, <1>3, <1>4 DEF Advance
<1>6. LeavesOne(step) \/ step = StepDone(heap)
  <2>1. CASE heap.kind = "Divisors" /\ state \in
               {"DivisorsTaskBegin", "DivisorsTaskIteration",
                "DivisorsPrintAndMoveOn"}
    BY <2>1, DivisorsArmsShape DEF global_step
  <2>2. CASE heap.kind = "Fibonacci" /\ state \in
               {"FibonacciTaskBegin", "FibonacciTaskCalculate",
                "FibonacciTaskStep", "FibonacciTaskResult"}
    BY <2>2, FibonacciArmsShape DEF global_step
  <2>3. CASE state = "Completed"
    BY <2>3 DEF global_step
  <2> QED BY <2>1, <2>2, <2>3 DEF HeapShape, State
<1> HIDE DEF step
<1>7. CASE LeavesOne(step)
  <2>1. <<>> \o step.entries = step.entries BY <1>7 DEF LeavesOne
  <2> QED
    BY <1>5, <1>7, <2>1 DEF Resume, Outcome, Good, LeavesOne, WellShaped
<1>8. CASE step = StepDone(heap)
  BY <1>5, <1>8 DEF Resume, Outcome, Good, StepDone, StepResult
<1> QED BY <1>6, <1>7, <1>8

LEMMA EntryType ==
  ASSUME NEW stack \in Seq(StackEntries), NEW i \in 1 .. Len(stack)
  PROVE  /\ stack[i] \in StackEntries
         /\ stack[i].entry = "Value" => stack[i] \in Values
<1>1. stack[i] \in StackEntries OBVIOUS
<1> QED BY <1>1 DEF StackEntries

LEMMA ExecutableIntro ==
  ASSUME NEW stack \in Seq(StackEntries), NEW depth \in Nat \ {0},
         Len(stack) = depth, stack[depth].entry = "State",
         NEW count \in Nat, LocalVarsCount[stack[depth].state] = count,
         count < depth,
         \A j \in 1 .. count : stack[depth - j].entry = "Value"
  PROVE  Executable(stack)
BY DEF Executable

(* A delayed message sleeps, says its message and is done.                 *)
LEMMA DelayAdvances ==
  ASSUME NEW stack \in Seq(StackEntries), NEW heap \in Heaps,
         DelayShape(stack)
  PROVE  \/ /\ stack[3] = State("DelayedMessageTaskBegin")
            /\ Advance(stack, heap) =
                 Outcome("Sleep", stack[1].value, NoText,
                         <<stack[1], stack[2],
                           State("DelayedMessageTaskExecute")>>, heap)
         \/ /\ stack[3] = State("DelayedMessageTaskExecute")
            /\ Advance(stack, heap) =
                 Outcome("Write", 0,
                         DelayedMessage(stack[1].value, stack[2].value),
                         <<State("Completed")>>, heap)
<1> DEFINE state == stack[3].state
           vars  == [j \in 1 .. 2 |-> stack[3 - j]]
           step  == global_step(state, vars, heap)
<1>1. /\ Len(stack) = 3 /\ stack[3].entry = "State"
      /\ LocalVarsCount[state] = 2
      /\ state \in {"DelayedMessageTaskBegin", "DelayedMessageTaskExecute"}
      /\ stack[1].entry = "Value" /\ stack[2].entry = "Value"
  BY DEF DelayShape, IsValue, State, LocalVarsCount, TaskStates
<1>2. \A j \in 1 .. 2 : stack[3 - j].entry = "Value" BY <1>1
<1>3. /\ vars[1] = stack[2] /\ vars[2] = stack[1]
      /\ Matches(vars, <<"DelayInputMessage", "DelayInputMs">>)
  BY DEF DelayShape, IsValue, Matches
<1>4. Executable(stack) BY <1>1, <1>2, ExecutableIntro
<1>5. Advance(stack, heap) = Resume(step, <<>>)
  <2>1. SubSeq(stack, 1, Len(stack) - 1 - LocalVarsCount[state]) = <<>>
    BY <1>1
  <2>2. [j \in 1 .. LocalVarsCount[state] |-> stack[Len(stack) - j]] = vars
    BY <1>1
  <2> QED BY <1>1, <1>4, <2>1, <2>2 DEF Advance
<1>6. CASE state = "DelayedMessageTaskBegin"
  <2>1. step = StepSleep(stack[1].value,
                         <<stack[1], stack[2],
                           State("DelayedMessageTaskExecute")>>, heap)
    BY <1>3, <1>6 DEF global_step, DelayedMessageTaskBegin
  <2>2. <<stack[1], stack[2], State("DelayedMessageTaskExecute")>>
          \in Seq(StackEntries)
    <3>1. stack[1] \in StackEntries /\ stack[2] \in StackEntries
      <4>1. 1 \in 1 .. Len(stack) /\ 2 \in 1 .. Len(stack) BY <1>1
      <4> QED BY <4>1, EntryType
    <3>2. State("DelayedMessageTaskExecute") \in StackEntries
      BY StateType DEF TaskStates
    <3> QED BY ONLY <3>1, <3>2
  <2> HIDE DEF step
  <2>3. Advance(stack, heap) =
          Outcome("Sleep", stack[1].value, NoText,
                  <<stack[1], stack[2], State("DelayedMessageTaskExecute")>>,
                  heap)
    BY <1>5, <2>1, <2>2 DEF StepSleep, StepResult, Resume
  <2> QED BY <1>6, <2>3 DEF DelayShape, State
<1>7. CASE state = "DelayedMessageTaskExecute"
  <2> DEFINE text == DelayedMessage(stack[1].value, stack[2].value)
  <2>1. step = StepWrite(text, <<State("Completed")>>, heap)
    BY <1>3, <1>7 DEF global_step, DelayedMessageTaskExecute
  <2> HIDE DEF step, text
  <2>2. Advance(stack, heap) =
          Outcome("Write", 0, text, <<State("Completed")>>, heap)
    BY <1>5, <2>1, OneState DEF StepWrite, StepResult, TaskStates, Resume
  <2> QED BY <1>7, <2>2 DEF DelayShape, State, text
<1> QED BY <1>1, <1>6, <1>7

LEMMA CompletedGood ==
  ASSUME NEW do \in {"Next", "Sleep", "Write"}, NEW ms, NEW text, NEW heap
  PROVE  Good(Outcome(do, ms, text, <<State("Completed")>>, heap))
<1>1. HeapShape(<<State("Completed")>>, heap) BY DEF HeapShape
<1> QED BY <1>1 DEF Outcome, Good, WellShaped

LEMMA DelayShapeAdvances ==
  ASSUME NEW stack \in Seq(StackEntries), NEW heap \in Heaps,
         DelayShape(stack)
  PROVE  Good(Advance(stack, heap))
<1> DEFINE next == <<stack[1], stack[2], State("DelayedMessageTaskExecute")>>
<1>1. Good(Outcome("Sleep", stack[1].value, NoText, next, heap))
  <2>1. DelayShape(next) BY DEF DelayShape
  <2> HIDE DEF next
  <2> QED BY <2>1 DEF Outcome, Good, WellShaped
<1> QED BY <1>1, DelayAdvances, CompletedGood

(* A factorial that starts calls the recursion for its input.              *)
EntryCalls(stack) ==
  << stack[1], Retrn("FactorialDone"),
     Value("FactorialArgument", stack[1].value),
     State("FactorialRecursiveCall") >>

LEMMA EntryAdvances ==
  ASSUME NEW stack \in Seq(StackEntries), NEW heap \in Heaps,
         EntryShape(stack)
  PROVE  /\ Advance(stack, heap) =
              Outcome("Next", 0, NoText, EntryCalls(stack), heap)
         /\ Len(EntryCalls(stack)) = 4
         /\ CallShape(EntryCalls(stack), 2)
<1> DEFINE vars  == [j \in 1 .. 1 |-> stack[2 - j]]
           step  == global_step("FactorialEntry", vars, heap)
           after == <<stack[1], Retrn("FactorialDone"),
                      Value("FactorialArgument", stack[1].value),
                      State("FactorialRecursiveCall")>>
<1>1. /\ Len(stack) = 2 /\ stack[2].entry = "State"
      /\ stack[2].state = "FactorialEntry"
      /\ LocalVarsCount["FactorialEntry"] = 1
      /\ stack[1].entry = "Value"
  BY DEF EntryShape, IsValue, State, LocalVarsCount, TaskStates
<1>2. /\ vars[1] = stack[1]
      /\ Matches(vars, <<"FactorialInput">>)
  BY DEF EntryShape, IsValue, Matches
<1>3. Executable(stack) BY <1>1 DEF Executable
<1>4. step = StepNext(after, heap) BY <1>2 DEF global_step, FactorialEntry
<1>5. Advance(stack, heap) = Resume(step, <<>>)
  <2>1. SubSeq(stack, 1, Len(stack) - 1 - LocalVarsCount["FactorialEntry"])
          = <<>>
    BY <1>1
  <2>2. vars = [j \in 1 .. LocalVarsCount["FactorialEntry"] |->
                  stack[Len(stack) - j]]
    BY <1>1
  <2> QED BY <1>1, <1>3, <2>1, <2>2 DEF Advance
<1>6. after \in Seq(StackEntries)
  <2>1. stack[1] \in StackEntries /\ stack[1] \in Values
    BY <1>1, EntryType
  <2>2. stack[1].value \in Word
    BY <2>1, WordValue DEF EntryShape, IsValue, WordKinds
  <2>3. Value("FactorialArgument", stack[1].value) \in StackEntries
    BY <2>2, ValueType DEF WordKinds
  <2>4. /\ Retrn("FactorialDone") \in StackEntries
        /\ State("FactorialRecursiveCall") \in StackEntries
    BY StateType DEF TaskStates
  <2> QED BY <2>1, <2>3, <2>4
<1>7. CallShape(after, 2)
  <2>1. IsValue(Value("FactorialArgument", stack[1].value), "FactorialArgument")
    BY DEF IsValue, Value
  <2>2. IsValue(stack[1], "FactorialInput") BY DEF EntryShape
  <2> QED BY <2>1, <2>2 DEF CallShape, Frames
<1>8. after = EntryCalls(stack) /\ Len(after) = 4 BY DEF EntryCalls
<1> HIDE DEF after
<1>9. Advance(stack, heap) = Outcome("Next", 0, NoText, after, heap)
  BY <1>4, <1>5, <1>6 DEF StepNext, StepResult, Resume
<1> QED BY <1>7, <1>8, <1>9

LEMMA EntryShapeAdvances ==
  ASSUME NEW stack \in Seq(StackEntries), NEW heap \in Heaps,
         EntryShape(stack)
  PROVE  Good(Advance(stack, heap))
<1> DEFINE after == EntryCalls(stack)
<1>1. /\ Advance(stack, heap) = Outcome("Next", 0, NoText, after, heap)
      /\ CallShape(after, 2) /\ Len(after) = 4
  BY EntryAdvances
<1> HIDE DEF after
<1>2. 2 \in 2 .. Len(after) BY <1>1
<1>3. WellShaped(after, heap) BY <1>1, <1>2 DEF WellShaped
<1> QED BY <1>1, <1>3 DEF Outcome, Good

(* The factorial that was returned to says its result and is done.         *)
LEMMA DoneAdvances ==
  ASSUME NEW stack \in Seq(StackEntries), NEW heap \in Heaps,
         DoneShape(stack)
  PROVE  Advance(stack, heap) =
           Outcome("Write", 0,
                   FactorialResult(stack[1].value, stack[2].value),
                   <<State("Completed")>>, heap)
<1> DEFINE vars == [j \in 1 .. 2 |-> stack[3 - j]]
           step == global_step("FactorialDone", vars, heap)
           text == FactorialResult(stack[1].value, stack[2].value)
<1>1. /\ Len(stack) = 3 /\ stack[3].entry = "State"
      /\ stack[3].state = "FactorialDone"
      /\ LocalVarsCount["FactorialDone"] = 2
      /\ stack[1].entry = "Value" /\ stack[2].entry = "Value"
  BY DEF DoneShape, IsValue, State, LocalVarsCount, TaskStates
<1>2. /\ vars[1] = stack[2] /\ vars[2] = stack[1]
      /\ Matches(vars, <<"FactorialReturnValue", "FactorialInput">>)
  BY DEF DoneShape, IsValue, Matches
<1>3. Executable(stack)
  <2>1. \A j \in 1 .. 2 : stack[3 - j].entry = "Value" BY <1>1
  <2>2. /\ Len(stack) = 3 /\ stack[3].entry = "State"
        /\ LocalVarsCount[stack[3].state] = 2
    BY <1>1
  <2> HIDE DEF vars, step, text
  <2>3. stack # <<>>
    <3>1. Len(stack) = 3 BY <2>2
    <3> QED BY ONLY <3>1
  <2>4. /\ LocalVarsCount[stack[Len(stack)].state] = 2
        /\ stack[Len(stack)].entry = "State" /\ 2 < Len(stack)
        /\ \A j \in 1 .. 2 : stack[Len(stack) - j].entry = "Value"
    BY ONLY <2>1, <2>2
  <2> QED BY ONLY <2>3, <2>4 DEF Executable
<1>4. step = StepWrite(text, <<State("Completed")>>, heap)
  BY <1>2 DEF global_step, FactorialDone
<1>5. Advance(stack, heap) = Resume(step, <<>>)
  <2>1. SubSeq(stack, 1, Len(stack) - 1 - LocalVarsCount["FactorialDone"])
          = <<>>
    BY <1>1
  <2>2. vars = [j \in 1 .. LocalVarsCount["FactorialDone"] |->
                  stack[Len(stack) - j]]
    BY <1>1
  <2> QED BY <1>1, <1>3, <2>1, <2>2 DEF Advance
<1> HIDE DEF text
<1>6. Advance(stack, heap) =
        Outcome("Write", 0, text, <<State("Completed")>>, heap)
  BY <1>4, <1>5, OneState DEF StepWrite, StepResult, TaskStates, Resume
<1> QED BY <1>6 DEF text

LEMMA DoneShapeAdvances ==
  ASSUME NEW stack \in Seq(StackEntries), NEW heap \in Heaps,
         DoneShape(stack)
  PROVE  Good(Advance(stack, heap))
BY DoneAdvances, CompletedGood

(* The frames of k callers, with nothing above them.                       *)
Callers(stack, k) ==
  /\ Len(stack) = 2 * k
  /\ Frames(stack, k)
  /\ k >= 2 => stack[2 * k] = Retrn("FactorialRecursionPostRecursiveCall")

(* Two entries pushed on a stack, one after the other and as a pair.       *)
TwoMore(new, low, a, b) ==
  /\ new \in Seq(StackEntries)
  /\ Len(new) = Len(low) + 2
  /\ \A i \in 1 .. Len(low) : new[i] = low[i]
  /\ new[Len(low) + 1] = a
  /\ new[Len(low) + 2] = b

LEMMA TwoOnTop ==
  ASSUME NEW low \in Seq(StackEntries),
         NEW a \in StackEntries, NEW b \in StackEntries
  PROVE  TwoMore(low \o <<a>> \o <<b>>, low, a, b)
<1> DEFINE mid == low \o <<a>>
           new == mid \o <<b>>
<1>1. /\ mid \in Seq(StackEntries) /\ Len(mid) = Len(low) + 1
      /\ \A i \in 1 .. Len(low) : mid[i] = low[i]
      /\ mid[Len(low) + 1] = a
  OBVIOUS
<1> HIDE DEF mid
<1>2. /\ new \in Seq(StackEntries) /\ Len(new) = Len(mid) + 1
      /\ \A i \in 1 .. Len(mid) : new[i] = mid[i]
      /\ new[Len(mid) + 1] = b
  BY <1>1
<1>3. Len(low) \in Nat OBVIOUS
<1> HIDE DEF new
<1>4. TwoMore(new, low, a, b) BY <1>1, <1>2, <1>3 DEF TwoMore
<1> QED BY <1>4 DEF new, mid

LEMMA PairOnTop ==
  ASSUME NEW low \in Seq(StackEntries),
         NEW a \in StackEntries, NEW b \in StackEntries
  PROVE  TwoMore(low \o <<a, b>>, low, a, b)
<1> DEFINE two == <<a, b>>
           new == low \o two
<1>1. two \in Seq(StackEntries) /\ Len(two) = 2 /\ two[1] = a /\ two[2] = b
  OBVIOUS
<1> HIDE DEF two
<1>2. /\ new \in Seq(StackEntries)
      /\ Len(new) = Len(low) + Len(two)
      /\ \A i \in 1 .. Len(low) : new[i] = low[i]
      /\ \A i \in 1 .. Len(two) : new[Len(low) + i] = two[i]
  BY <1>1, Concatenation
<1> HIDE DEF new
<1>3. 1 \in 1 .. Len(two) /\ 2 \in 1 .. Len(two) BY <1>1
<1>4. TwoMore(new, low, a, b) BY <1>1, <1>2, <1>3 DEF TwoMore
<1> QED BY <1>4 DEF new, two

(* Returning a factorial's value to its callers: to FactorialDone when     *)
(* there is one frame, to the caller's level when there are more.          *)
ReturnsTo(rest, k, v, new) ==
  /\ new \in Seq(StackEntries) /\ Len(new) = 2 * k + 1
  /\ \A i \in 1 .. 2 * k - 1 : new[i] = rest[i]
  /\ new[2 * k] = v
  /\ k = 1 => DoneShape(new)
  /\ k >= 2 => ReturnShape(new, k)

LEMMA ReturnAdvances ==
  ASSUME NEW rest \in Seq(StackEntries), NEW k \in Nat \ {0},
         Callers(rest, k),
         NEW v \in Values, v.kind = "FactorialReturnValue",
         NEW heap \in Heaps
  PROVE  \E new : /\ Resume(StepReturn(v, heap), rest) =
                       Outcome("Next", 0, NoText, new, heap)
                  /\ ReturnsTo(rest, k, v, new)
<1> DEFINE top == rest[2 * k]
           low == SubSeq(rest, 1, 2 * k - 1)
           new == low \o <<v>> \o <<State(top.state)>>
<1>1. /\ Len(rest) = 2 * k /\ rest # <<>>
      /\ top.entry = "Retrn"
      /\ top.state = IF k = 1 THEN "FactorialDone"
                     ELSE "FactorialRecursionPostRecursiveCall"
  BY DEF Callers, Frames, Retrn
<1>2. Resume(StepReturn(v, heap), rest) = Outcome("Next", 0, NoText, new, heap)
  BY <1>1 DEF Resume, StepReturn, StepResult
<1>3. /\ low \in Seq(StackEntries) /\ Len(low) = 2 * k - 1
      /\ \A i \in 1 .. 2 * k - 1 : low[i] = rest[i]
  BY <1>1
<1>4. v \in StackEntries /\ State(top.state) \in StackEntries
  BY <1>1, StateType DEF StackEntries, TaskStates
<1> HIDE DEF low, top
<1>5. /\ new \in Seq(StackEntries) /\ Len(new) = 2 * k + 1
      /\ \A i \in 1 .. 2 * k - 1 : new[i] = rest[i]
      /\ new[2 * k] = v
      /\ new[2 * k + 1] = State(top.state)
  <2>1. TwoMore(new, low, v, State(top.state)) BY <1>3, <1>4, TwoOnTop
  <2>2. (2 * k - 1) + 1 = 2 * k /\ (2 * k - 1) + 2 = 2 * k + 1 OBVIOUS
  <2> HIDE DEF new
  <2> QED BY <1>3, <2>1, <2>2 DEF TwoMore
<1> HIDE DEF new
<1>6. IsValue(v, "FactorialReturnValue") BY DEF IsValue, Values
<1>7. CASE k = 1
  <2>1. DoneShape(new)
    BY <1>1, <1>5, <1>6, <1>7 DEF DoneShape, Callers, Frames
  <2> QED BY <1>2, <1>5, <1>7, <2>1 DEF ReturnsTo
<1>8. CASE k >= 2
  <2>1. Frames(new, k)
    <3>1. IsValue(new[1], "FactorialInput") /\ new[2] = Retrn("FactorialDone")
      BY <1>5, <1>8 DEF Callers, Frames
    <3>2. ASSUME NEW j \in 2 .. k
          PROVE  IsValue(new[2 * j - 1], "FactorialArgument")
      <4>1. 2 * j - 1 \in 1 .. 2 * k - 1 OBVIOUS
      <4> QED BY <1>5, <4>1 DEF Callers, Frames
    <3>3. ASSUME NEW j \in 2 .. k - 1
          PROVE  new[2 * j] = Retrn("FactorialRecursionPostRecursiveCall")
      <4>1. 2 * j \in 1 .. 2 * k - 1 OBVIOUS
      <4> QED BY <1>5, <4>1 DEF Callers, Frames
    <3> QED BY <3>1, <3>2, <3>3 DEF Frames
  <2>2. ReturnShape(new, k)
    BY <1>1, <1>5, <1>6, <1>8, <2>1 DEF ReturnShape
  <2>3. ReturnsTo(rest, k, v, new) BY <1>5, <1>8, <2>2 DEF ReturnsTo
  <2> QED BY ONLY <1>2, <2>3
<1> QED BY <1>7, <1>8

LEMMA ReturnGood ==
  ASSUME NEW rest, NEW k \in Nat \ {0}, NEW v, NEW new,
         ReturnsTo(rest, k, v, new), NEW heap
  PROVE  Good(Outcome("Next", 0, NoText, new, heap))
<1>1. CASE k = 1
  BY <1>1 DEF ReturnsTo, Outcome, Good, WellShaped
<1>2. CASE k >= 2
  <2>1. k \in 2 .. Len(new) BY <1>2 DEF ReturnsTo
  <2> QED BY <1>2, <2>1 DEF ReturnsTo, Outcome, Good, WellShaped
<1> QED BY <1>1, <1>2

(* What is left of a recursion when its innermost level is popped.         *)
LEMMA CallersBelow ==
  ASSUME NEW stack \in Seq(StackEntries), NEW m \in Nat, m >= 2,
         Len(stack) >= 2 * m, Frames(stack, m)
  PROVE  LET rest == SubSeq(stack, 1, 2 * m - 2)
         IN /\ rest \in Seq(StackEntries)
            /\ Len(rest) = 2 * m - 2
            /\ \A i \in 1 .. 2 * m - 2 : rest[i] = stack[i]
            /\ Callers(rest, m - 1)
<1> DEFINE rest == SubSeq(stack, 1, 2 * m - 2)
<1>1. /\ rest \in Seq(StackEntries) /\ Len(rest) = 2 * m - 2
      /\ \A i \in 1 .. 2 * m - 2 : rest[i] = stack[i]
  OBVIOUS
<1> HIDE DEF rest
<1>2. rest[1] = stack[1] /\ rest[2] = stack[2] BY <1>1
<1>3. ASSUME NEW j \in 2 .. m - 1
      PROVE  IsValue(rest[2 * j - 1], "FactorialArgument")
  <2>1. 2 * j - 1 \in 1 .. 2 * m - 2 /\ j \in 2 .. m OBVIOUS
  <2> QED BY <1>1, <2>1 DEF Frames
<1>4. ASSUME NEW j \in 2 .. m - 1
      PROVE  rest[2 * j] = Retrn("FactorialRecursionPostRecursiveCall")
  <2>1. 2 * j \in 1 .. 2 * m - 2 OBVIOUS
  <2> QED BY <1>1, <2>1 DEF Frames
<1>5. Frames(rest, m - 1) BY <1>2, <1>3, <1>4 DEF Frames
<1>6. Callers(rest, m - 1)
  <2>1. Len(rest) = 2 * (m - 1) BY <1>1
  <2>2. m - 1 >= 2 => m - 1 \in 2 .. m - 1 OBVIOUS
  <2> QED BY <1>4, <1>5, <2>1, <2>2 DEF Callers
<1> QED BY <1>1, <1>6 DEF rest

(* A level on top of its callers, in one of its first three states.        *)
Level(new, rest, k, v, s) ==
  /\ CallShape(new, k + 1)
  /\ \A i \in 1 .. 2 * k : new[i] = rest[i]
  /\ new[2 * k + 1] = v
  /\ new[2 * k + 2] = State(s)

LEMMA LevelOnTop ==
  ASSUME NEW rest \in Seq(StackEntries), NEW k \in Nat \ {0},
         Callers(rest, k),
         NEW v \in StackEntries, IsValue(v, "FactorialArgument"),
         NEW s \in {"FactorialRecursiveCall", "FactorialRecursionPostWrite",
                    "FactorialRecursionPostSleep"}
  PROVE  Level(rest \o <<v, State(s)>>, rest, k, v, s)
<1> DEFINE new == rest \o <<v, State(s)>>
<1>1. State(s) \in StackEntries BY StateType DEF TaskStates
<1>2. Len(rest) = 2 * k BY DEF Callers
<1>3. /\ Len(new) = 2 * k + 2
      /\ \A i \in 1 .. 2 * k : new[i] = rest[i]
      /\ new[2 * k + 1] = v
      /\ new[2 * k + 2] = State(s)
  <2>1. TwoMore(new, rest, v, State(s)) BY <1>1, PairOnTop
  <2> HIDE DEF new
  <2> QED BY <1>2, <2>1 DEF TwoMore
<1> HIDE DEF new
<1>4. new[1] = rest[1] /\ new[2] = rest[2] BY <1>3
<1>5. ASSUME NEW j \in 2 .. k + 1
      PROVE  IsValue(new[2 * j - 1], "FactorialArgument")
  <2>1. CASE j = k + 1
    <3>1. 2 * j - 1 = 2 * k + 1 BY <2>1
    <3> QED BY <1>3, <3>1
  <2>2. CASE j # k + 1
    <3>1. j \in 2 .. k /\ 2 * j - 1 \in 1 .. 2 * k BY <2>2
    <3> QED BY <1>3, <3>1 DEF Callers, Frames
  <2> QED BY <2>1, <2>2
<1>6. ASSUME NEW j \in 2 .. (k + 1) - 1
      PROVE  new[2 * j] = Retrn("FactorialRecursionPostRecursiveCall")
  <2>1. j \in 2 .. k /\ 2 * j \in 1 .. 2 * k OBVIOUS
  <2>2. CASE j = k BY <1>3, <2>1, <2>2 DEF Callers
  <2>3. CASE j # k
    <3>1. j \in 2 .. k - 1 BY <2>1, <2>3
    <3> QED BY <1>3, <2>1, <3>1 DEF Callers, Frames
  <2> QED BY <2>2, <2>3
<1>7. Frames(new, k + 1) BY <1>4, <1>5, <1>6 DEF Frames, Callers
<1>8. 2 * (k + 1) = 2 * k + 2 OBVIOUS
<1>9. CallShape(new, k + 1) BY <1>3, <1>7, <1>8 DEF CallShape
<1>10. Level(new, rest, k, v, s) BY <1>3, <1>9 DEF Level
<1> QED BY <1>10 DEF new

(* One more caller: its argument and where it goes on.                     *)
LEMMA CallerOnTop ==
  ASSUME NEW rest \in Seq(StackEntries), NEW k \in Nat \ {0},
         Callers(rest, k),
         NEW v \in StackEntries, IsValue(v, "FactorialArgument")
  PROVE  LET new ==
               rest \o <<v, Retrn("FactorialRecursionPostRecursiveCall")>>
         IN /\ new \in Seq(StackEntries) /\ Callers(new, k + 1)
            /\ \A i \in 1 .. 2 * k : new[i] = rest[i]
            /\ new[2 * k + 1] = v
<1> DEFINE r   == Retrn("FactorialRecursionPostRecursiveCall")
           new == rest \o <<v, r>>
<1>1. r \in StackEntries BY StateType DEF TaskStates
<1> HIDE DEF r
<1>2. Len(rest) = 2 * k BY DEF Callers
<1>3. /\ new \in Seq(StackEntries)
      /\ Len(new) = 2 * k + 2
      /\ \A i \in 1 .. 2 * k : new[i] = rest[i]
      /\ new[2 * k + 1] = v
      /\ new[2 * k + 2] = r
  <2>1. TwoMore(new, rest, v, r) BY <1>1, PairOnTop
  <2> HIDE DEF new
  <2> QED BY <1>2, <2>1 DEF TwoMore
<1> HIDE DEF new
<1>4. new[1] = rest[1] /\ new[2] = rest[2] BY <1>3
<1>5. ASSUME NEW j \in 2 .. k + 1
      PROVE  IsValue(new[2 * j - 1], "FactorialArgument")
  <2>1. CASE j = k + 1
    <3>1. 2 * j - 1 = 2 * k + 1 BY <2>1
    <3> QED BY <1>3, <3>1
  <2>2. CASE j # k + 1
    <3>1. j \in 2 .. k /\ 2 * j - 1 \in 1 .. 2 * k BY <2>2
    <3> QED BY <1>3, <3>1 DEF Callers, Frames
  <2> QED BY <2>1, <2>2
<1>6. ASSUME NEW j \in 2 .. (k + 1) - 1
      PROVE  new[2 * j] = r
  <2>1. j \in 2 .. k /\ 2 * j \in 1 .. 2 * k OBVIOUS
  <2>2. CASE j = k BY <1>3, <2>1, <2>2 DEF Callers, r
  <2>3. CASE j # k
    <3>1. j \in 2 .. k - 1 BY <2>1, <2>3
    <3> QED BY <1>3, <2>1, <3>1 DEF Callers, Frames, r
  <2> QED BY <2>2, <2>3
<1>7. Frames(new, k + 1) BY <1>4, <1>5, <1>6 DEF Frames, Callers, r
<1>8. 2 * (k + 1) = 2 * k + 2 OBVIOUS
<1>9. Callers(new, k + 1) BY <1>3, <1>7, <1>8 DEF Callers, r
<1> QED BY <1>3, <1>9 DEF new, r

LEMMA ReturnsToBelow ==
  ASSUME NEW stack, NEW rest, NEW m \in Nat, m >= 2,
         \A i \in 1 .. 2 * m - 2 : rest[i] = stack[i],
         NEW v, NEW new, ReturnsTo(rest, m - 1, v, new)
  PROVE  ReturnsTo(stack, m - 1, v, new)
<1>1. \A i \in 1 .. 2 * (m - 1) - 1 : i \in 1 .. 2 * m - 2 OBVIOUS
<1> QED BY <1>1 DEF ReturnsTo

(* A level of the recursion says its call, sleeps, and then calls the next *)
(* level or returns 1 to its callers.                                      *)
SameLevel(stack, m, s, new) ==
  /\ CallShape(new, m) /\ new[2 * m] = State(s)
  /\ \A i \in 1 .. 2 * m - 1 : new[i] = stack[i]

NextLevel(stack, m, new) ==
  /\ CallShape(new, m + 1)
  /\ \A i \in 1 .. 2 * m - 1 : new[i] = stack[i]
  /\ new[2 * m + 1] =
       Value("FactorialArgument", stack[2 * m - 1].value - 1)
  /\ new[2 * m + 2] = State("FactorialRecursiveCall")

CallAdvancesTo(stack, heap, m, state, arg, out, new) ==
  \/ /\ state = "FactorialRecursiveCall"
     /\ out = Outcome("Write", 0, FactorialCall(arg), new, heap)
     /\ SameLevel(stack, m, "FactorialRecursionPostWrite", new)
  \/ /\ state = "FactorialRecursionPostWrite"
     /\ out = Outcome("Sleep", Wrap(arg * 50), NoText, new, heap)
     /\ SameLevel(stack, m, "FactorialRecursionPostSleep", new)
  \/ /\ state = "FactorialRecursionPostSleep" /\ arg > 1
     /\ out = Outcome("Next", 0, NoText, new, heap)
     /\ NextLevel(stack, m, new)
  \/ /\ state = "FactorialRecursionPostSleep" /\ ~(arg > 1)
     /\ out = Outcome("Next", 0, NoText, new, heap)
     /\ ReturnsTo(stack, m - 1, Value("FactorialReturnValue", 1), new)

LEMMA CallAdvances ==
  ASSUME NEW stack \in Seq(StackEntries), NEW heap \in Heaps,
         NEW m \in Nat, m >= 2, CallShape(stack, m)
  PROVE  \E new : CallAdvancesTo(stack, heap, m, stack[2 * m].state,
                                 stack[2 * m - 1].value,
                                 Advance(stack, heap), new)
<1> DEFINE state == stack[2 * m].state
           v     == stack[2 * m - 1]
           vars  == [j \in 1 .. 1 |-> stack[2 * m - j]]
           step  == global_step(state, vars, heap)
           rest  == SubSeq(stack, 1, 2 * m - 2)
           Goes(new) == CallAdvancesTo(stack, heap, m, state, v.value,
                                       Advance(stack, heap), new)
<1>1. /\ Len(stack) = 2 * m /\ stack[2 * m].entry = "State"
      /\ state \in {"FactorialRecursiveCall", "FactorialRecursionPostWrite",
                    "FactorialRecursionPostSleep"}
      /\ LocalVarsCount[state] = 1
  BY DEF CallShape, State, LocalVarsCount, TaskStates
<1>2. IsValue(v, "FactorialArgument") BY DEF CallShape, Frames
<1>3. /\ v \in StackEntries /\ v \in Values /\ v.value \in Word
  <2>1. 2 * m - 1 \in 1 .. Len(stack) BY <1>1
  <2>2. v \in StackEntries /\ v \in Values
    BY <1>2, <2>1, EntryType DEF IsValue
  <2> QED BY <1>2, <2>2, WordValue DEF IsValue, WordKinds
<1>4. vars[1] = v /\ Matches(vars, <<"FactorialArgument">>)
  BY <1>2 DEF IsValue, Matches
<1>5. Executable(stack)
  <2>1. \A j \in 1 .. 1 : stack[2 * m - j].entry = "Value"
    BY <1>2 DEF IsValue
  <2>2. stack # <<>> /\ 1 < Len(stack) BY <1>1
  <2>3. /\ stack[Len(stack)].entry = "State"
        /\ LocalVarsCount[stack[Len(stack)].state] = 1
        /\ \A j \in 1 .. 1 : stack[Len(stack) - j].entry = "Value"
    BY <1>1, <2>1
  <2> QED BY ONLY <2>2, <2>3 DEF Executable
<1>6. Advance(stack, heap) = Resume(step, rest)
  <2>1. Len(stack) - 1 - LocalVarsCount[state] = 2 * m - 2 BY <1>1
  <2>2. [j \in 1 .. LocalVarsCount[state] |-> stack[Len(stack) - j]] = vars
    BY <1>1
  <2> QED BY <1>1, <1>5, <2>1, <2>2 DEF Advance
<1>7. /\ rest \in Seq(StackEntries) /\ Callers(rest, m - 1)
      /\ m - 1 \in Nat \ {0}
      /\ \A i \in 1 .. 2 * m - 2 : rest[i] = stack[i]
  <2>1. Frames(stack, m) /\ Len(stack) >= 2 * m BY <1>1 DEF CallShape
  <2>2. m - 1 \in Nat \ {0} OBVIOUS
  <2> QED BY <2>1, <2>2, CallersBelow
<1>8. v = stack[2 * m - 1] OBVIOUS
<1> HIDE DEF rest, vars, v
<1>9. ASSUME NEW s \in {"FactorialRecursiveCall",
                        "FactorialRecursionPostWrite",
                        "FactorialRecursionPostSleep"}
      PROVE  SameLevel(stack, m, s, rest \o <<v, State(s)>>)
  <2> DEFINE new == rest \o <<v, State(s)>>
  <2>1. Level(new, rest, m - 1, v, s) BY <1>2, <1>3, <1>7, LevelOnTop
  <2> HIDE DEF new
  <2>2. /\ (m - 1) + 1 = m /\ 2 * (m - 1) = 2 * m - 2
        /\ 2 * (m - 1) + 1 = 2 * m - 1 /\ 2 * (m - 1) + 2 = 2 * m
    OBVIOUS
  <2>3. ASSUME NEW i \in 1 .. 2 * m - 1 PROVE new[i] = stack[i]
    <3>1. CASE i = 2 * m - 1 BY <1>8, <2>1, <2>2, <3>1 DEF Level
    <3>2. CASE i # 2 * m - 1
      <4>1. i \in 1 .. 2 * m - 2 BY <3>2
      <4> QED BY <1>7, <2>1, <2>2, <4>1 DEF Level
    <3> QED BY <3>1, <3>2
  <2>4. CallShape(new, m) /\ new[2 * m] = State(s)
    BY <2>1, <2>2 DEF Level
  <2>5. SameLevel(stack, m, s, new) BY <2>3, <2>4 DEF SameLevel
  <2> QED BY <2>5 DEF new
<1>10. CASE state = "FactorialRecursiveCall"
  <2> DEFINE new == rest \o <<v, State("FactorialRecursionPostWrite")>>
  <2>1. step = StepWrite(FactorialCall(v.value),
                         <<v, State("FactorialRecursionPostWrite")>>, heap)
    BY <1>4, <1>10 DEF global_step, FactorialRecursiveCall
  <2>2. Advance(stack, heap) =
          Outcome("Write", 0, FactorialCall(v.value), new, heap)
    BY <1>6, <2>1 DEF Resume, StepWrite, StepResult
  <2>3. SameLevel(stack, m, "FactorialRecursionPostWrite", new) BY <1>9
  <2> HIDE DEF new
  <2>4. Goes(new) BY <1>10, <2>2, <2>3 DEF CallAdvancesTo
  <2> QED BY <2>4 DEF v
<1>11. CASE state = "FactorialRecursionPostWrite"
  <2> DEFINE new == rest \o <<v, State("FactorialRecursionPostSleep")>>
  <2>1. step = StepSleep(Wrap(v.value * 50),
                         <<v, State("FactorialRecursionPostSleep")>>, heap)
    BY <1>4, <1>11 DEF global_step, FactorialRecursionPostWrite
  <2>2. Advance(stack, heap) =
          Outcome("Sleep", Wrap(v.value * 50), NoText, new, heap)
    BY <1>6, <2>1 DEF Resume, StepSleep, StepResult
  <2>3. SameLevel(stack, m, "FactorialRecursionPostSleep", new) BY <1>9
  <2> HIDE DEF new
  <2>4. Goes(new) BY <1>11, <2>2, <2>3 DEF CallAdvancesTo
  <2> QED BY <2>4 DEF v
<1>12. CASE state = "FactorialRecursionPostSleep" /\ v.value > 1
  <2> DEFINE r    == Retrn("FactorialRecursionPostRecursiveCall")
             w    == Value("FactorialArgument", v.value - 1)
             call == State("FactorialRecursiveCall")
             below == rest \o <<v, r>>
             new   == below \o <<w, call>>
  <2>1. step = StepNext(<<v, r, w, call>>, heap)
    BY <1>4, <1>12 DEF global_step, FactorialRecursionPostSleep
  <2>2. r \in StackEntries /\ call \in StackEntries
    BY StateType DEF TaskStates
  <2>3. w \in StackEntries /\ IsValue(w, "FactorialArgument")
    <3>1. v.value - 1 \in Word BY <1>3, <1>12, WordAssumption DEF Word
    <3> QED BY <3>1, ValueType DEF WordKinds, IsValue, Value
  <2>4. /\ below \in Seq(StackEntries) /\ Callers(below, (m - 1) + 1)
        /\ \A i \in 1 .. 2 * (m - 1) : below[i] = rest[i]
        /\ below[2 * (m - 1) + 1] = v
    BY <1>2, <1>3, <1>7, CallerOnTop
  <2>5. Level(new, below, m, w, "FactorialRecursiveCall")
    <3>1. Callers(below, m) BY <2>4
    <3> HIDE DEF w, below
    <3>2. m \in Nat \ {0} OBVIOUS
    <3> QED BY <2>3, <2>4, <3>1, <3>2, LevelOnTop DEF w
  <2>6. rest \o <<v, r, w, call>> = new
    <3> HIDE DEF r, w, call, state, step
    <3>1. /\ rest \in Seq(StackEntries) /\ v \in StackEntries
          /\ r \in StackEntries /\ w \in StackEntries
          /\ call \in StackEntries
      BY <1>3, <1>7, <2>2, <2>3
    <3> DEFINE x == <<v, r>>
               y == <<w, call>>
    <3>2. /\ x \in Seq(StackEntries) /\ y \in Seq(StackEntries)
          /\ <<v, r, w, call>> = x \o y
      BY <3>1
    <3>3. new = (rest \o x) \o y BY DEF new, below
    <3> HIDE DEF x, y, new, below
    <3>4. rest \o (x \o y) = (rest \o x) \o y
      <4>1. rest \in Seq(StackEntries) BY <3>1
      <4>2. x \in Seq(StackEntries) /\ y \in Seq(StackEntries) BY <3>2
      <4> QED BY <4>1, <4>2, StackConcatAssociative
    <3> QED BY <3>2, <3>3, <3>4
  <2>7. Advance(stack, heap) = Outcome("Next", 0, NoText, new, heap)
    <3> DEFINE entries == <<v, r, w, call>>
    <3> HIDE DEF entries
    <3>1. step = StepNext(entries, heap) BY <2>1 DEF entries
    <3>2. rest \o entries = new BY <2>6 DEF entries
    <3> HIDE DEF step, new, r, w, call
    <3> QED BY <1>6, <3>1, <3>2 DEF Resume, StepNext, StepResult
  <2>8. NextLevel(stack, m, new)
    <3> HIDE DEF new, below, r, call
    <3>1. w = Value("FactorialArgument", stack[2 * m - 1].value - 1)
      BY <1>8
    <3> HIDE DEF w
    <3>2. ASSUME NEW i \in 1 .. 2 * m - 1 PROVE new[i] = stack[i]
      <4>1. i \in 1 .. 2 * m /\ 2 * (m - 1) + 1 = 2 * m - 1
            /\ 2 * (m - 1) = 2 * m - 2
        OBVIOUS
      <4>2. new[i] = below[i] BY <2>5, <4>1 DEF Level
      <4>3. CASE i = 2 * m - 1 BY <1>8, <2>4, <4>1, <4>2, <4>3
      <4>4. CASE i # 2 * m - 1
        <5>1. i \in 1 .. 2 * m - 2 BY <4>4
        <5> QED BY <1>7, <2>4, <4>1, <4>2, <5>1
      <4> QED BY <4>3, <4>4
    <3> QED BY <2>5, <3>1, <3>2 DEF Level, NextLevel
  <2> HIDE DEF new, r, w, call
  <2>9. Goes(new) BY <1>12, <2>7, <2>8 DEF CallAdvancesTo
  <2> QED BY <2>9 DEF v
<1>13. CASE state = "FactorialRecursionPostSleep" /\ ~(v.value > 1)
  <2> DEFINE one == Value("FactorialReturnValue", 1)
  <2>1. step = StepReturn(one, heap)
    BY <1>4, <1>13 DEF global_step, FactorialRecursionPostSleep
  <2>2. one \in Values /\ one.kind = "FactorialReturnValue"
    BY ValueType, Literals DEF WordKinds, Value
  <2> HIDE DEF one, step
  <2>3. \E new : /\ Resume(StepReturn(one, heap), rest) =
                      Outcome("Next", 0, NoText, new, heap)
                 /\ ReturnsTo(rest, m - 1, one, new)
    BY <1>7, <2>2, ReturnAdvances
  <2>4. PICK new : /\ Resume(StepReturn(one, heap), rest) =
                        Outcome("Next", 0, NoText, new, heap)
                   /\ ReturnsTo(rest, m - 1, one, new)
    BY <2>3
  <2>5. ReturnsTo(stack, m - 1, one, new) BY <1>7, <2>4, ReturnsToBelow
  <2>6. Goes(new) BY <1>6, <1>13, <2>1, <2>4, <2>5 DEF CallAdvancesTo, one
  <2> QED BY <2>6 DEF v
<1> QED BY <1>1, <1>10, <1>11, <1>12, <1>13

LEMMA CallShapeAdvances ==
  ASSUME NEW stack \in Seq(StackEntries), NEW heap \in Heaps,
         NEW m \in Nat, m >= 2, CallShape(stack, m)
  PROVE  Good(Advance(stack, heap))
<1> DEFINE out == Advance(stack, heap)
<1>1. PICK new : CallAdvancesTo(stack, heap, m, stack[2 * m].state,
                                stack[2 * m - 1].value, out, new)
  BY CallAdvances
<1> HIDE DEF out
<1>2. ASSUME NEW k \in {m, m + 1}, CallShape(new, k)
      PROVE  WellShaped(new, heap)
  <2>1. k \in 2 .. Len(new) BY <1>2 DEF CallShape
  <2> QED BY <1>2, <2>1 DEF WellShaped
<1>3. ASSUME NEW do \in {"Next", "Sleep", "Write"}, NEW ms, NEW text,
             out = Outcome(do, ms, text, new, heap),
             \/ \E s : SameLevel(stack, m, s, new)
             \/ NextLevel(stack, m, new)
      PROVE  Good(out)
  <2>1. WellShaped(new, heap) BY <1>2, <1>3 DEF SameLevel, NextLevel
  <2> QED BY <1>3, <2>1 DEF Good, Outcome
<1>4. ASSUME NEW v, out = Outcome("Next", 0, NoText, new, heap),
             ReturnsTo(stack, m - 1, v, new)
      PROVE  Good(out)
  <2>1. m - 1 \in Nat \ {0} OBVIOUS
  <2> QED BY <1>4, <2>1, ReturnGood
<1>5. Good(out) BY <1>1, <1>3, <1>4 DEF CallAdvancesTo
<1> QED BY <1>5 DEF out

(* A level that was returned to multiplies and returns to its callers.     *)
LEMMA MultiplyAdvances ==
  ASSUME NEW stack \in Seq(StackEntries), NEW heap \in Heaps,
         NEW m \in Nat, m >= 2, ReturnShape(stack, m)
  PROVE  \E new :
           /\ Advance(stack, heap) = Outcome("Next", 0, NoText, new, heap)
           /\ ReturnsTo(stack, m - 1,
                        Value("FactorialReturnValue",
                              Wrap(stack[2 * m].value
                                     * stack[2 * m - 1].value)), new)
<1> DEFINE state == "FactorialRecursionPostRecursiveCall"
           vars  == [j \in 1 .. 2 |-> stack[2 * m + 1 - j]]
           step  == global_step(state, vars, heap)
           rest  == SubSeq(stack, 1, 2 * m - 2)
           v     == Value("FactorialReturnValue",
                          Wrap(vars[1].value * vars[2].value))
<1>1. /\ Len(stack) = 2 * m + 1
      /\ stack[2 * m + 1].entry = "State"
      /\ stack[2 * m + 1].state = state
      /\ LocalVarsCount[state] = 2
  BY DEF ReturnShape, State, LocalVarsCount, TaskStates
<1>2. /\ vars[1] = stack[2 * m] /\ vars[2] = stack[2 * m - 1]
      /\ IsValue(vars[1], "FactorialReturnValue")
      /\ IsValue(vars[2], "FactorialArgument")
  <2>1. /\ 2 * m + 1 - 1 = 2 * m /\ 2 * m + 1 - 2 = 2 * m - 1
        /\ m \in 2 .. m
    OBVIOUS
  <2> QED BY <2>1 DEF ReturnShape, Frames
<1>3. Matches(vars, <<"FactorialReturnValue", "FactorialArgument">>)
  BY <1>2 DEF IsValue, Matches
<1>4. vars[1].value \in Word /\ vars[2].value \in Word
  <2>1. 2 * m \in 1 .. Len(stack) /\ 2 * m - 1 \in 1 .. Len(stack) BY <1>1
  <2>2. vars[1] \in Values /\ vars[2] \in Values
    BY <1>2, <2>1, EntryType DEF IsValue
  <2> QED BY <1>2, <2>2, WordValue DEF IsValue, WordKinds
<1>5. Executable(stack)
  <2>1. \A j \in 1 .. 2 : stack[2 * m + 1 - j].entry = "Value"
    BY <1>2 DEF IsValue
  <2>2. stack # <<>> /\ 2 < Len(stack) BY <1>1
  <2>3. /\ stack[Len(stack)].entry = "State"
        /\ LocalVarsCount[stack[Len(stack)].state] = 2
        /\ \A j \in 1 .. 2 : stack[Len(stack) - j].entry = "Value"
    BY <1>1, <2>1
  <2> QED BY ONLY <2>2, <2>3 DEF Executable
<1>6. Advance(stack, heap) = Resume(step, rest)
  <2>1. Len(stack) - 1 - LocalVarsCount[state] = 2 * m - 2 BY <1>1
  <2>2. [j \in 1 .. LocalVarsCount[state] |-> stack[Len(stack) - j]] = vars
    BY <1>1
  <2> QED BY <1>1, <1>5, <2>1, <2>2 DEF Advance
<1>7. /\ rest \in Seq(StackEntries) /\ Callers(rest, m - 1)
      /\ m - 1 \in Nat \ {0}
      /\ \A i \in 1 .. 2 * m - 2 : rest[i] = stack[i]
  BY <1>1, CallersBelow DEF ReturnShape
<1>8. step = StepReturn(v, heap)
  BY <1>3 DEF global_step, FactorialRecursionPostRecursiveCall
<1>9. v \in Values /\ v.kind = "FactorialReturnValue"
  BY <1>4, WrappedArithmetic, ValueType DEF WordKinds, Value
<1>10. v = Value("FactorialReturnValue",
                 Wrap(stack[2 * m].value * stack[2 * m - 1].value))
  BY <1>2
<1> HIDE DEF v, rest, step
<1>11. \E new : /\ Resume(StepReturn(v, heap), rest) =
                    Outcome("Next", 0, NoText, new, heap)
                /\ ReturnsTo(rest, m - 1, v, new)
  BY <1>7, <1>9, ReturnAdvances
<1>12. PICK new : /\ Resume(StepReturn(v, heap), rest) =
                      Outcome("Next", 0, NoText, new, heap)
                  /\ ReturnsTo(rest, m - 1, v, new)
  BY <1>11
<1>13. ReturnsTo(stack, m - 1, v, new) BY <1>7, <1>12, ReturnsToBelow
<1> QED BY <1>6, <1>8, <1>10, <1>12, <1>13

LEMMA ReturnShapeAdvances ==
  ASSUME NEW stack \in Seq(StackEntries), NEW heap \in Heaps,
         NEW m \in Nat, m >= 2, ReturnShape(stack, m)
  PROVE  Good(Advance(stack, heap))
<1>1. \E new, v : /\ Advance(stack, heap) =
                       Outcome("Next", 0, NoText, new, heap)
                  /\ ReturnsTo(stack, m - 1, v, new)
  BY MultiplyAdvances
<1>2. m - 1 \in Nat \ {0} OBVIOUS
<1> QED BY <1>1, <1>2, ReturnGood

(* Stepping a task of any of the shapes does not panic, and unless the     *)
(* task is done it leaves one of the shapes.                               *)
THEOREM AdvanceShape ==
  ASSUME NEW stack \in Seq(StackEntries), NEW heap \in Heaps,
         WellShaped(stack, heap)
  PROVE  LET outcome == Advance(stack, heap)
         IN /\ outcome.do # "Panic"
            /\ outcome.do # "Done" => WellShaped(outcome.stack, outcome.heap)
<1>1. Good(Advance(stack, heap))
  BY HeapShapeAdvances, DelayShapeAdvances, EntryShapeAdvances,
     DoneShapeAdvances, CallShapeAdvances, ReturnShapeAdvances
     DEF WellShaped
<1> QED BY <1>1 DEF Good

(* The tasks that the routes start have these shapes.                      *)
THEOREM InitialShape ==
  ASSUME NEW request \in Requests(Word, Word)
  PROVE  /\ InitialStack(request) \in Seq(StackEntries)
         /\ InitialHeap(request) \in Heaps
         /\ WellShaped(InitialStack(request), InitialHeap(request))
<1>1. CASE request.route = "delay"
  <2>1. request.t \in Word /\ request.s \in Messages
    BY <1>1 DEF Requests
  <2>2. /\ Value("DelayInputMs", request.t) \in StackEntries
        /\ Value("DelayInputMessage", request.s) \in StackEntries
        /\ State("DelayedMessageTaskBegin") \in StackEntries
    BY <2>1, ValueType, StateType
       DEF WordKinds, Value, Values, StackEntries, TaskStates
  <2>3. InitialStack(request) \in Seq(StackEntries)
    BY <1>1, <2>2 DEF InitialStack
  <2>4. DelayShape(InitialStack(request))
    BY <1>1 DEF InitialStack, DelayShape, IsValue, Value
  <2> QED BY <1>1, <2>3, <2>4 DEF InitialHeap, Heaps, WellShaped
<1>2. CASE request.route = "divisors"
  <2>1. request.n \in Word BY <1>2 DEF Requests
  <2>2. InitialStack(request) \in Seq(StackEntries)
    BY <1>2, OneState DEF InitialStack, TaskStates
  <2>3. InitialHeap(request) \in Heaps
    BY <1>2, <2>1 DEF InitialHeap, Heaps
  <2>4. HeapShape(InitialStack(request), InitialHeap(request))
    BY <1>2 DEF InitialStack, InitialHeap, HeapShape
  <2> QED BY <2>2, <2>3, <2>4 DEF WellShaped
<1>3. CASE request.route = "fibonacci"
  <2>1. request.n \in Word BY <1>3 DEF Requests
  <2>2. InitialStack(request) \in Seq(StackEntries)
    BY <1>3, OneState DEF InitialStack, TaskStates
  <2>3. InitialHeap(request) \in Heaps
    BY <1>3, <2>1, Literals DEF InitialHeap, Heaps
  <2>4. HeapShape(InitialStack(request), InitialHeap(request))
    BY <1>3 DEF InitialStack, InitialHeap, HeapShape
  <2> QED BY <2>2, <2>3, <2>4 DEF WellShaped
<1>4. CASE request.route = "factorial"
  <2>1. request.n \in Word BY <1>4 DEF Requests
  <2>2. /\ Value("FactorialInput", request.n) \in StackEntries
        /\ State("FactorialEntry") \in StackEntries
    BY <2>1, ValueType, StateType DEF WordKinds, TaskStates
  <2>3. InitialStack(request) \in Seq(StackEntries)
    BY <1>4, <2>2 DEF InitialStack
  <2>4. EntryShape(InitialStack(request))
    BY <1>4 DEF InitialStack, EntryShape, IsValue, Value
  <2> QED BY <1>4, <2>3, <2>4 DEF InitialHeap, Heaps, WellShaped
<1> QED BY <1>1, <1>2, <1>3, <1>4 DEF Requests

-----------------------------------------------------------------------------
(* The validator of the test build accepts every shape.                    *)

VarsBelow(e) == IF e.entry = "State" THEN LocalVarsCount[e.state]
                                     ELSE ReturnLocalVarsCount[e.state]

(* The recursion of the validator, for the entry at i.                     *)
Goes(stack, frame, i) ==
  \/ i <= 1
  \/ /\ stack[i].entry # "Value"
     /\ VarsBelow(stack[i]) < i
     /\ \A j \in 1 .. VarsBelow(stack[i]) : stack[i - j].entry = "Value"
     /\ frame[IF i - VarsBelow(stack[i]) = 1 THEN 1
              ELSE i - VarsBelow(stack[i]) - 1]

IsFrame(stack, frame) ==
  frame = [i \in 1 .. Len(stack) |-> Goes(stack, frame, i)]

LEMMA Validates ==
  ASSUME NEW stack
  PROVE  debug_validate_maroon_stack(stack) =
           (stack # <<>> /\ (CHOOSE frame : IsFrame(stack, frame))[Len(stack)])
BY Zenon DEF debug_validate_maroon_stack, IsFrame, Goes, VarsBelow

(* The entry at i > 1 has its variables right below it, and the validator  *)
(* goes on below them.                                                     *)
HasVars(stack, i) ==
  /\ stack[i].entry # "Value"
  /\ VarsBelow(stack[i]) < i
  /\ \A j \in 1 .. VarsBelow(stack[i]) : stack[i - j].entry = "Value"

Below(stack, i) ==
  IF i - VarsBelow(stack[i]) = 1 THEN 1 ELSE i - VarsBelow(stack[i]) - 1

LEMMA GoesDown ==
  ASSUME NEW stack, NEW frame, NEW i \in 1 .. Len(stack)
  PROVE  Goes(stack, frame, i) <=>
           i = 1 \/ (HasVars(stack, i) /\ frame[Below(stack, i)])
<1>1. i <= 1 <=> i = 1 OBVIOUS
<1> DEFINE next == frame[Below(stack, i)]
<1>2. Goes(stack, frame, i) <=> i <= 1 \/ (HasVars(stack, i) /\ next)
  BY Zenon DEF Goes, HasVars, Below
<1> QED BY <1>1, <1>2

LEMMA BelowType ==
  ASSUME NEW stack \in Seq(StackEntries), NEW i \in 2 .. Len(stack),
         HasVars(stack, i)
  PROVE  Below(stack, i) \in 1 .. Len(stack) /\ Below(stack, i) < i
<1>1. stack[i] \in StackEntries /\ stack[i].entry # "Value"
  BY DEF HasVars
<1>2. stack[i].state \in TaskStates BY <1>1 DEF StackEntries, Values
<1>3. VarsBelow(stack[i]) \in {0, 1, 2}
  BY <1>2 DEF VarsBelow, LocalVarsCount, ReturnLocalVarsCount
<1> QED BY <1>3 DEF HasVars, Below

(* The positions that the validator accepts: the least set that holds the  *)
(* bottom, and each entry that has its variables and goes on in the set.   *)
Closed(stack, S) ==
  \A i \in 1 .. Len(stack) :
    i = 1 \/ (HasVars(stack, i) /\ Below(stack, i) \in S) => i \in S

Accepted(stack) ==
  {i \in 1 .. Len(stack) :
     \A S \in SUBSET (1 .. Len(stack)) : Closed(stack, S) => i \in S}

LEMMA AcceptedIs ==
  ASSUME NEW stack, NEW i \in 1 .. Len(stack)
  PROVE  i \in Accepted(stack) <=>
           i = 1 \/ (HasVars(stack, i) /\ Below(stack, i) \in Accepted(stack))
<1> DEFINE A == Accepted(stack)
<1>1. Closed(stack, A) BY DEF Closed, Accepted
<1>2. ASSUME i \in A, i # 1, ~(HasVars(stack, i) /\ Below(stack, i) \in A)
      PROVE  FALSE
  <2>1. A \ {i} \in SUBSET (1 .. Len(stack)) BY DEF Accepted
  <2>2. Closed(stack, A \ {i})
    <3> SUFFICES ASSUME NEW j \in 1 .. Len(stack),
                        \/ j = 1
                        \/ HasVars(stack, j) /\ Below(stack, j) \in A \ {i}
                 PROVE  j \in A \ {i}
      BY DEF Closed
    <3>1. j \in A BY <1>1 DEF Closed
    <3>2. j # i BY <1>2
    <3> QED BY <3>1, <3>2
  <2> QED BY <1>2, <2>1, <2>2 DEF Accepted
<1>3. i = 1 \/ (HasVars(stack, i) /\ Below(stack, i) \in A) => i \in A
  BY <1>1 DEF Closed
<1> QED BY <1>2, <1>3

(* The validator's recursion is well defined, and computes that set.       *)
LEMMA FrameOfAccepted ==
  ASSUME NEW stack \in Seq(StackEntries)
  PROVE  IsFrame(stack, [i \in 1 .. Len(stack) |-> i \in Accepted(stack)])
<1> DEFINE A == Accepted(stack)
           frame == [i \in 1 .. Len(stack) |-> i \in A]
<1>1. \A i \in 1 .. Len(stack) : frame[i] = (i \in A) OBVIOUS
<1>2. ASSUME NEW i \in 1 .. Len(stack)
      PROVE  (i \in A) = Goes(stack, frame, i)
  <2>1. i # 1 /\ HasVars(stack, i) =>
          (frame[Below(stack, i)] <=> Below(stack, i) \in A)
    <3> SUFFICES ASSUME i # 1, HasVars(stack, i)
                 PROVE  frame[Below(stack, i)] <=> Below(stack, i) \in A
      OBVIOUS
    <3>1. Below(stack, i) \in 1 .. Len(stack) BY BelowType
    <3> HIDE DEF frame
    <3> QED BY <1>1, <3>1
  <2> HIDE DEF frame
  <2>2. Goes(stack, frame, i) <=>
          i = 1 \/ (HasVars(stack, i) /\ frame[Below(stack, i)])
    BY GoesDown
  <2>3. i \in A <=> i = 1 \/ (HasVars(stack, i) /\ Below(stack, i) \in A)
    BY AcceptedIs
  <2> HIDE DEF A
  <2>4. (i \in A) <=> Goes(stack, frame, i) BY <2>1, <2>2, <2>3, Zenon
  <2>5. Goes(stack, frame, i) \in BOOLEAN BY Zenon DEF Goes
  <2>6. (i \in A) \in BOOLEAN OBVIOUS
  <2> QED BY <2>4, <2>5, <2>6
<1>3. frame = [i \in 1 .. Len(stack) |-> Goes(stack, frame, i)]
  <2> DEFINE G(i) == Goes(stack, frame, i)
  <2>1. \A i \in 1 .. Len(stack) : (i \in A) = G(i) BY <1>2
  <2> HIDE DEF G, A
  <2>2. frame = [i \in 1 .. Len(stack) |-> G(i)] BY <2>1
  <2> QED BY <2>2, Zenon DEF G
<1> QED BY <1>3, Zenon DEF IsFrame

(* For a stack of entries, the validator goes down from the top: it is     *)
(* what any function with its recursion says of the top.                   *)
LEMMA ValidatorGoesDown ==
  ASSUME NEW stack \in Seq(StackEntries)
  PROVE  \E frame :
           /\ debug_validate_maroon_stack(stack) =
                (stack # <<>> /\ frame[Len(stack)])
           /\ \A i \in 1 .. Len(stack) :
                frame[i] <=>
                  i = 1 \/ (HasVars(stack, i) /\ frame[Below(stack, i)])
<1> DEFINE frame == CHOOSE f : IsFrame(stack, f)
<1>1. IsFrame(stack, frame) BY FrameOfAccepted, Zenon
<1>2. debug_validate_maroon_stack(stack) = (stack # <<>> /\ frame[Len(stack)])
  BY Validates
<1> HIDE DEF frame
<1>3. ASSUME NEW i \in 1 .. Len(stack)
      PROVE  frame[i] <=>
               i = 1 \/ (HasVars(stack, i) /\ frame[Below(stack, i)])
  <2>1. frame[i] = Goes(stack, frame, i) BY <1>1 DEF IsFrame
  <2> QED BY <2>1, GoesDown, Zenon
<1> QED BY <1>2, <1>3

(* An entry with the right values below it has its variables.              *)
LEMMA OneVar ==
  ASSUME NEW stack, NEW i \in Int, i > 1,
         \/ stack[i] = State("FactorialEntry")
         \/ stack[i] = State("FactorialRecursiveCall")
         \/ stack[i] = State("FactorialRecursionPostWrite")
         \/ stack[i] = State("FactorialRecursionPostSleep")
         \/ stack[i] = Retrn("FactorialDone")
         \/ stack[i] = Retrn("FactorialRecursionPostRecursiveCall"),
         stack[i - 1].entry = "Value"
  PROVE  HasVars(stack, i) /\ Below(stack, i) = IF i = 2 THEN 1 ELSE i - 2
<1>1. stack[i].entry # "Value" /\ VarsBelow(stack[i]) = 1
  BY DEF State, Retrn, VarsBelow, LocalVarsCount, ReturnLocalVarsCount,
         TaskStates
<1> QED BY <1>1 DEF HasVars, Below

LEMMA TwoVars ==
  ASSUME NEW stack, NEW i \in Int, i > 2,
         \/ stack[i] = State("DelayedMessageTaskBegin")
         \/ stack[i] = State("DelayedMessageTaskExecute")
         \/ stack[i] = State("FactorialDone")
         \/ stack[i] = State("FactorialRecursionPostRecursiveCall"),
         stack[i - 1].entry = "Value", stack[i - 2].entry = "Value"
  PROVE  HasVars(stack, i) /\ Below(stack, i) = IF i = 3 THEN 1 ELSE i - 3
<1>1. stack[i].entry # "Value" /\ VarsBelow(stack[i]) = 2
  BY DEF State, VarsBelow, LocalVarsCount, TaskStates
<1>2. \A j \in 1 .. 2 : j = 1 \/ j = 2 OBVIOUS
<1> QED BY <1>1, <1>2 DEF HasVars, Below

(* The frames of a factorial's recursion are accepted, level by level.     *)
LEMMA FramesAccepted ==
  ASSUME NEW stack, NEW frame, NEW m \in Nat, 2 * m <= Len(stack),
         Len(stack) \in Nat,
         \A i \in 1 .. Len(stack) :
           frame[i] <=> i = 1 \/ (HasVars(stack, i) /\ frame[Below(stack, i)]),
         Frames(stack, m)
  PROVE  \A j \in 1 .. m - 1 : frame[2 * j]
<1> DEFINE Bad == {j \in 1 .. m - 1 : ~frame[2 * j]}
<1> SUFFICES ASSUME Bad # {} PROVE FALSE OBVIOUS
<1>1. PICK j \in Bad : \A k \in Bad : j <= k
  <2>1. Bad \subseteq Nat OBVIOUS
  <2>2. \E j \in Bad : \A k \in Bad : j <= k BY <2>1, LeastNumber
  <2> QED BY <2>2
<1>2. /\ j \in 1 .. m - 1 /\ ~frame[2 * j]
      /\ 2 * j \in 1 .. Len(stack) /\ 2 * j # 1 /\ 2 * j > 1
  BY <1>1
<1>3. HasVars(stack, 2 * j)
      /\ Below(stack, 2 * j) = IF 2 * j = 2 THEN 1 ELSE 2 * j - 2
  <2>1. stack[2 * j - 1].entry = "Value"
    BY <1>2 DEF Frames, IsValue
  <2>2. \/ stack[2 * j] = Retrn("FactorialDone")
        \/ stack[2 * j] = Retrn("FactorialRecursionPostRecursiveCall")
    BY <1>2 DEF Frames
  <2> QED BY <1>2, <2>1, <2>2, OneVar
<1>4. CASE j = 1
  <2>1. frame[1] BY <1>2
  <2> QED BY <1>2, <1>3, <1>4, <2>1
<1>5. CASE j # 1
  <2>1. j - 1 \in 1 .. m - 1 /\ ~(j <= j - 1) BY <1>2, <1>5
  <2>2. frame[2 * (j - 1)] BY <1>1, <2>1
  <2>3. 2 * (j - 1) = 2 * j - 2 /\ 2 * j # 2 BY <1>2, <1>5
  <2> QED BY <1>2, <1>3, <2>2, <2>3
<1> QED BY <1>4, <1>5

LEMMA ShapeValidates ==
  ASSUME NEW stack \in Seq(StackEntries), NEW heap, WellShaped(stack, heap)
  PROVE  debug_validate_maroon_stack(stack)
<1>1. PICK frame :
        /\ debug_validate_maroon_stack(stack) =
             (stack # <<>> /\ frame[Len(stack)])
        /\ \A i \in 1 .. Len(stack) :
             frame[i] <=> i = 1 \/ (HasVars(stack, i) /\ frame[Below(stack, i)])
  BY ValidatorGoesDown
<1>2. Len(stack) \in Nat OBVIOUS
<1>3. SUFFICES Len(stack) # 0 /\ frame[Len(stack)]
  <2>1. Len(stack) # 0 => stack # <<>> OBVIOUS
  <2> QED BY <1>1, <2>1
<1>4. Len(stack) # 0 => frame[1] BY <1>1, <1>2
<1>5. CASE DelayShape(stack)
  <2>1. Len(stack) = 3 /\ HasVars(stack, 3) /\ Below(stack, 3) = 1
    BY <1>5, TwoVars DEF DelayShape, IsValue
  <2> QED BY <1>1, <1>4, <2>1
<1>6. CASE HeapShape(stack, heap)
  BY <1>4, <1>6 DEF HeapShape
<1>7. CASE EntryShape(stack)
  <2>1. Len(stack) = 2 /\ HasVars(stack, 2) /\ Below(stack, 2) = 1
    BY <1>7, OneVar DEF EntryShape, IsValue
  <2> QED BY <1>1, <1>4, <2>1
<1>8. CASE DoneShape(stack)
  <2>1. Len(stack) = 3 /\ HasVars(stack, 3) /\ Below(stack, 3) = 1
    BY <1>8, TwoVars DEF DoneShape, IsValue
  <2> QED BY <1>1, <1>4, <2>1
<1>9. ASSUME NEW m \in 2 .. Len(stack), CallShape(stack, m)
      PROVE  Len(stack) # 0 /\ frame[Len(stack)]
  <2>1. Len(stack) = 2 * m /\ 2 * m > 2 /\ m \in Nat BY <1>9 DEF CallShape
  <2>2. frame[2 * (m - 1)]
    <3>1. \A j \in 1 .. m - 1 : frame[2 * j]
      BY <1>1, <1>2, <1>9, <2>1, FramesAccepted DEF CallShape
    <3> QED BY <3>1
  <2>3. stack[2 * m - 1].entry = "Value"
    BY <1>9 DEF CallShape, Frames, IsValue
  <2>4. HasVars(stack, 2 * m) /\ Below(stack, 2 * m) = 2 * m - 2
    <3>1. \/ stack[2 * m] = State("FactorialRecursiveCall")
          \/ stack[2 * m] = State("FactorialRecursionPostWrite")
          \/ stack[2 * m] = State("FactorialRecursionPostSleep")
      BY <1>9 DEF CallShape
    <3>2. 2 * m \in Int /\ 2 * m > 1 /\ 2 * m # 2 BY <2>1
    <3> QED BY <2>3, <3>1, <3>2, OneVar
  <2>5. 2 * (m - 1) = 2 * m - 2 BY <2>1
  <2> QED BY <1>1, <2>1, <2>2, <2>4, <2>5
<1>10. ASSUME NEW m \in 2 .. Len(stack), ReturnShape(stack, m)
       PROVE  Len(stack) # 0 /\ frame[Len(stack)]
  <2>1. Len(stack) = 2 * m + 1 /\ 2 * m + 1 > 3 /\ m \in Nat
    BY <1>10 DEF ReturnShape
  <2>2. frame[2 * (m - 1)]
    <3>1. \A j \in 1 .. m - 1 : frame[2 * j]
      BY <1>1, <1>2, <1>10, <2>1, FramesAccepted DEF ReturnShape
    <3> QED BY <3>1
  <2>3. stack[2 * m - 1].entry = "Value" /\ stack[2 * m].entry = "Value"
    BY <1>10 DEF ReturnShape, Frames, IsValue
  <2>4. HasVars(stack, 2 * m + 1) /\ Below(stack, 2 * m + 1) = 2 * m - 2
    BY <1>10, <2>1, <2>3, TwoVars DEF ReturnShape
  <2>5. 2 * (m - 1) = 2 * m - 2 BY <2>1
  <2> QED BY <1>1, <2>1, <2>2, <2>4, <2>5
<1> QED BY <1>5, <1>6, <1>7, <1>8, <1>9, <1>10 DEF WellShaped

-----------------------------------------------------------------------------
(* The numbers that the scripts are made of.                               *)

(* The factorials.                                                         *)
LEMMA FactorialIs ==
  /\ factorial[0] = 1
  /\ \A k \in Nat : /\ factorial[k] \in Nat \ {0}
                    /\ factorial[k + 1] = (k + 1) * factorial[k]
<1> DEFINE V == Nat \ {0}
           step == [k \in Nat |-> [v \in V |-> (k + 1) * v]]
           Is(f) == f = [k \in Nat |-> IF k = 0 THEN 1 ELSE k * f[k - 1]]
<1>1. ASSUME NEW k \in Nat, NEW v \in V
      PROVE  step[k][v] = (k + 1) * v /\ (k + 1) * v \in V
  <2>1. step[k][v] = (k + 1) * v OBVIOUS
  <2>2. (k + 1) * v \in Nat /\ (k + 1) * v # 0 OBVIOUS
  <2> QED BY <2>1, <2>2
<1>2. PICK f \in [Nat -> V] :
        f[0] = 1 /\ \A k \in Nat : f[k + 1] = step[k][f[k]]
  <2>1. step \in [Nat -> [V -> V]]
    <3>1. \A k \in Nat, v \in V : (k + 1) * v \in V BY <1>1
    <3> QED BY <3>1
  <2>2. 1 \in V OBVIOUS
  <2>3. \E f \in [Nat -> V] : Recursion(f, 1, step)
    <3> HIDE DEF step, V
    <3> QED BY <2>1, <2>2, RecursiveFunction
  <2> HIDE DEF step
  <2> QED BY <2>3 DEF Recursion
<1> HIDE DEF step
<1>3. Is(f)
  <2>1. ASSUME NEW k \in Nat \ {0} PROVE f[k] = k * f[k - 1]
    <3>1. k - 1 \in Nat /\ (k - 1) + 1 = k OBVIOUS
    <3>2. f[k - 1] \in V BY <3>1
    <3>3. f[(k - 1) + 1] = ((k - 1) + 1) * f[k - 1] BY <1>1, <1>2, <3>1, <3>2
    <3> QED BY <3>1, <3>3
  <2>2. \A k \in Nat : f[k] = IF k = 0 THEN 1 ELSE k * f[k - 1]
    BY <1>2, <2>1
  <2> QED BY <2>2
<1>4. factorial = CHOOSE g : Is(g) BY Zenon DEF factorial
<1>5. Is(factorial) BY <1>3, <1>4, Zenon
<1>6. ASSUME NEW k \in Nat
      PROVE  factorial[k + 1] = (k + 1) * factorial[k]
  <2>1. k + 1 \in Nat /\ k + 1 # 0 /\ (k + 1) - 1 = k OBVIOUS
  <2>2. factorial[k + 1] = (k + 1) * factorial[(k + 1) - 1] BY <1>5, <2>1
  <2> QED BY <2>1, <2>2
<1>7. factorial[0] = 1 BY <1>5
<1>8. \A k \in Nat : factorial[k] \in V
  <2> DEFINE S == {k \in Nat : factorial[k] \in V}
  <2>1. 0 \in S BY <1>7
  <2>2. ASSUME NEW k \in Nat, k \in S PROVE k + 1 \in S
    <3>1. (k + 1) * factorial[k] \in V BY <1>1, <2>2
    <3> QED BY <1>6, <3>1
  <2> HIDE DEF S
  <2>3. Nat \subseteq S BY <2>1, <2>2, InductiveSet
  <2> QED BY <2>3 DEF S
<1> QED BY <1>6, <1>7, <1>8

LEMMA FactorialGrows ==
  ASSUME NEW n \in Nat, NEW k \in 0 .. n
  PROVE  factorial[k] <= factorial[n]
<1>1. ASSUME NEW j \in Nat
      PROVE  factorial[j] \in Nat /\ factorial[j] <= factorial[j + 1]
  <2> DEFINE f == factorial[j]
  <2>1. f \in Nat /\ factorial[j + 1] = (j + 1) * f BY FactorialIs
  <2> HIDE DEF f
  <2>2. (j + 1) * f = j * f + f BY <2>1
  <2>3. j * f \in Nat BY <2>1
  <2>4. f <= j * f + f BY <2>1, <2>3
  <2> QED BY <2>1, <2>2, <2>4 DEF f
<1> QED BY <1>1, Grows

(* The Fibonacci numbers.                                                  *)
LEMMA FibonacciIs ==
  /\ fib[0] = 0 /\ fib[1] = 1
  /\ \A k \in Nat : /\ fib[k] \in Nat
                    /\ fib[k + 2] = fib[k + 1] + fib[k]
<1> DEFINE V == Nat \X Nat
           step == [k \in Nat |-> [v \in V |-> <<v[2], v[1] + v[2]>>]]
           Is(f) == f = [k \in Nat |-> IF k <= 1 THEN k
                                       ELSE f[k - 1] + f[k - 2]]
<1>1. ASSUME NEW k \in Nat, NEW v \in V
      PROVE  step[k][v] = <<v[2], v[1] + v[2]>> /\ step[k][v] \in V
  OBVIOUS
<1>2. PICK p \in [Nat -> V] : Recursion(p, <<0, 1>>, step)
  <2>1. step \in [Nat -> [V -> V]] OBVIOUS
  <2>2. <<0, 1>> \in V OBVIOUS
  <2>3. \E p \in [Nat -> V] : Recursion(p, <<0, 1>>, step)
    <3> HIDE DEF step, V
    <3> QED BY <2>1, <2>2, RecursiveFunction
  <2> QED BY <2>3
<1>3. /\ p[0] = <<0, 1>>
      /\ \A k \in Nat : /\ p[k][1] \in Nat /\ p[k][2] \in Nat
                        /\ p[k + 1][1] = p[k][2]
                        /\ p[k + 1][2] = p[k][1] + p[k][2]
  <2>1. p[0] = <<0, 1>> BY <1>2 DEF Recursion
  <2>2. ASSUME NEW k \in Nat
        PROVE  /\ p[k][1] \in Nat /\ p[k][2] \in Nat
               /\ p[k + 1][1] = p[k][2]
               /\ p[k + 1][2] = p[k][1] + p[k][2]
    <3>1. p[k] \in V BY <1>2
    <3>2. p[k + 1] = step[k][p[k]] BY <1>2 DEF Recursion
    <3>3. p[k][1] \in Nat /\ p[k][2] \in Nat BY <3>1
    <3> HIDE DEF step, V
    <3>4. p[k + 1] = <<p[k][2], p[k][1] + p[k][2]>> BY <1>1, <3>1, <3>2
    <3>5. \A x, a, b : x = <<a, b>> => x[1] = a /\ x[2] = b OBVIOUS
    <3> QED BY <3>3, <3>4, <3>5
  <2> HIDE DEF step, V
  <2> QED BY <2>1, <2>2
<1> HIDE DEF step, V
<1> DEFINE f == [k \in Nat |-> p[k][1]]
<1>4. Is(f)
  <2>1. f[0] = 0 BY <1>3
  <2>2. f[1] = 1
    <3>1. p[0 + 1][1] = p[0][2] BY <1>3
    <3> QED BY <1>3, <3>1
  <2>3. ASSUME NEW k \in Nat, ~(k <= 1)
        PROVE  f[k] = f[k - 1] + f[k - 2]
    <3>1. /\ k - 2 \in Nat /\ k - 1 \in Nat
          /\ (k - 2) + 1 = k - 1 /\ (k - 1) + 1 = k
      BY <2>3
    <3>2. /\ p[(k - 1) + 1][1] = p[k - 1][2]
          /\ p[(k - 2) + 1][2] = p[k - 2][1] + p[k - 2][2]
          /\ p[(k - 2) + 1][1] = p[k - 2][2]
          /\ p[k - 2][1] \in Nat /\ p[k - 2][2] \in Nat
      BY <1>3, <3>1
    <3>3. p[k][1] = p[k - 1][1] + p[k - 2][1] BY <3>1, <3>2
    <3> QED BY <3>1, <3>3
  <2>4. \A k \in Nat : f[k] = IF k <= 1 THEN k ELSE f[k - 1] + f[k - 2]
    <3> HIDE DEF f
    <3>1. \A k \in Nat : k <= 1 => k = 0 \/ k = 1 OBVIOUS
    <3> QED BY <2>1, <2>2, <2>3, <3>1
  <2>5. f = [k \in Nat |-> f[k]] OBVIOUS
  <2> HIDE DEF f
  <2> QED BY <2>4, <2>5
<1>5. fib = CHOOSE g : Is(g) BY Zenon DEF fib
<1>6. Is(fib)
  <2> HIDE DEF f
  <2> QED BY <1>4, <1>5, Zenon
<1>7. fib[0] = 0 /\ fib[1] = 1 BY <1>6
<1>8. ASSUME NEW k \in Nat PROVE fib[k + 2] = fib[k + 1] + fib[k]
  <2>1. /\ k + 2 \in Nat /\ ~(k + 2 <= 1)
        /\ (k + 2) - 1 = k + 1 /\ (k + 2) - 2 = k
    OBVIOUS
  <2>2. fib[k + 2] = fib[(k + 2) - 1] + fib[(k + 2) - 2] BY <1>6, <2>1
  <2> QED BY <2>1, <2>2
<1>9. \A k \in Nat : fib[k] \in Nat
  <2> DEFINE S == {k \in Nat : fib[k] \in Nat /\ fib[k + 1] \in Nat}
  <2>1. 0 \in S BY <1>7
  <2>2. ASSUME NEW k \in Nat, k \in S PROVE k + 1 \in S
    <3>1. (k + 1) + 1 = k + 2 OBVIOUS
    <3> QED BY <1>8, <2>2, <3>1
  <2> HIDE DEF S
  <2>3. Nat \subseteq S BY <2>1, <2>2, InductiveSet
  <2> QED BY <2>3 DEF S
<1> QED BY <1>7, <1>8, <1>9

LEMMA TriangleIs ==
  /\ Triangle(0) = 0
  /\ \A k \in Nat : /\ Triangle(k) \in Nat
                    /\ Triangle(k + 1) = Triangle(k) + (k + 1)
<1>1. Triangle(0) = 0 BY DEF Triangle
<1>2. ASSUME NEW k \in Nat
      PROVE  /\ Triangle(k) \in Nat
             /\ Triangle(k + 1) = Triangle(k) + (k + 1)
  <2> DEFINE x == k * (k + 1)
  <2>1. x \in Nat OBVIOUS
  <2>2. (k + 1) * ((k + 1) + 1) = x + 2 * (k + 1) OBVIOUS
  <2> HIDE DEF x
  <2>3. (x + 2 * (k + 1)) \div 2 = x \div 2 + (k + 1) BY <2>1
  <2>4. x \div 2 \in Nat BY <2>1
  <2> QED BY <2>2, <2>3, <2>4 DEF Triangle, x
<1> QED BY <1>1, <1>2

-----------------------------------------------------------------------------
(* The divisors, and when each of them is due.                             *)

(* The divisors of n from d on.                                            *)
DivisorsFrom(n, d) == {e \in DivisorsOf(n) : e >= d}

LEMMA DivisorsFinite ==
  ASSUME NEW n \in Nat, NEW d \in Nat
  PROVE  /\ IsFiniteSet(DivisorsFrom(n, d)) /\ IsFiniteSet(DivisorsOf(n))
         /\ Cardinality(DivisorsFrom(n, d)) \in Nat
         /\ Cardinality(DivisorsOf(n)) \in Nat
         /\ Cardinality(DivisorsFrom(n, d)) <= Cardinality(DivisorsOf(n))
<1>1. IsFiniteSet(1 .. n)
  <2>1. 1 \in Int /\ n \in Int OBVIOUS
  <2> QED BY ONLY <2>1, FS_Interval
<1>2. DivisorsOf(n) \in SUBSET (1 .. n) BY DEF DivisorsOf
<1>3. DivisorsFrom(n, d) \in SUBSET DivisorsOf(n) BY DEF DivisorsFrom
<1>4. IsFiniteSet(DivisorsOf(n)) BY ONLY <1>1, <1>2, FS_Subset
<1>5. /\ IsFiniteSet(DivisorsFrom(n, d))
      /\ Cardinality(DivisorsFrom(n, d)) <= Cardinality(DivisorsOf(n))
  BY ONLY <1>3, <1>4, FS_Subset
<1> QED BY <1>4, <1>5, FS_CardinalityType

(* One divisor more, and none.                                             *)
LEMMA OneDivisorMore ==
  ASSUME NEW n \in Nat, NEW d \in DivisorsOf(n)
  PROVE  /\ d \in 1 .. n /\ n % d = 0
         /\ Cardinality(DivisorsFrom(n, d)) =
              Cardinality(DivisorsFrom(n, d + 1)) + 1
<1>1. d \in 1 .. n /\ n % d = 0 BY DEF DivisorsOf
<1>2. DivisorsFrom(n, d) = DivisorsFrom(n, d + 1) \cup {d}
  BY <1>1 DEF DivisorsFrom, DivisorsOf
<1>3. d \notin DivisorsFrom(n, d + 1) BY <1>1 DEF DivisorsFrom
<1>4. IsFiniteSet(DivisorsFrom(n, d + 1))
  <2>1. d + 1 \in Nat BY <1>1
  <2> QED BY <2>1, DivisorsFinite
<1> DEFINE From == DivisorsFrom(n, d + 1)
<1> HIDE DEF From
<1>5. Cardinality(From \cup {d}) = Cardinality(From) + 1
  BY <1>3, <1>4, FS_AddElement DEF From
<1> QED BY <1>1, <1>2, <1>5 DEF From

LEMMA NoDivisorBetween ==
  ASSUME NEW n \in Nat, NEW d \in Nat, NEW i \in Nat, d <= i,
         \A e \in (d + 1) .. i : e \notin DivisorsOf(n)
  PROVE  DivisorsFrom(n, i + 1) = DivisorsFrom(n, d + 1)
<1>1. ASSUME NEW e \in DivisorsOf(n)
      PROVE  e >= i + 1 <=> e >= d + 1
  <2>1. e \in Nat BY DEF DivisorsOf
  <2>2. ~(e \in (d + 1) .. i) OBVIOUS
  <2> QED BY <2>1, <2>2
<1> QED BY <1>1 DEF DivisorsFrom

LEMMA AllDivisors ==
  ASSUME NEW n \in Nat
  PROVE  /\ DivisorsFrom(n, 1) = DivisorsOf(n)
         /\ Cardinality(DivisorsFrom(n, n + 1)) = 0
<1>1. \A e \in DivisorsOf(n) : e \in 1 .. n BY DEF DivisorsOf
<1>2. DivisorsFrom(n, 1) = DivisorsOf(n) BY <1>1 DEF DivisorsFrom
<1>3. DivisorsFrom(n, n + 1) = {} BY <1>1 DEF DivisorsFrom
<1> QED BY <1>2, <1>3, FS_EmptySet

(* The place of a divisor in the script is how many there are from it on.  *)
LEMMA PlaceOfDivisor ==
  ASSUME NEW n \in Nat, NEW d \in DivisorsOf(n)
  PROVE  /\ Cardinality(DivisorsFrom(n, d)) \in 1 .. Cardinality(DivisorsOf(n))
         /\ NthDivisor(n, Cardinality(DivisorsFrom(n, d))) = d
<1> DEFINE Place(e) == Cardinality(DivisorsFrom(n, e))
<1>1. \A e \in DivisorsOf(n) : e \in Nat /\ e \in 1 .. n BY DEF DivisorsOf
<1>2. ASSUME NEW e \in DivisorsOf(n), NEW f \in DivisorsOf(n), e < f
      PROVE  Place(e) # Place(f)
  <2>1. e \in DivisorsFrom(n, e) /\ e \notin DivisorsFrom(n, f)
    BY <1>1, <1>2 DEF DivisorsFrom
  <2>2. DivisorsFrom(n, f) \in SUBSET DivisorsFrom(n, e)
    BY <1>1, <1>2 DEF DivisorsFrom
  <2>3. IsFiniteSet(DivisorsFrom(n, e)) BY <1>1, DivisorsFinite
  <2> QED BY <2>1, <2>2, <2>3, FS_Subset
<1>3. ASSUME NEW e \in DivisorsOf(n), Place(e) = Place(d) PROVE e = d
  <2>1. e < d \/ d < e \/ e = d BY <1>1
  <2> HIDE DEF Place
  <2> QED BY <1>2, <1>3, <2>1
<1>4. Place(d) \in 1 .. Cardinality(DivisorsOf(n))
  <2>1. /\ Place(d) \in Nat /\ Cardinality(DivisorsOf(n)) \in Nat
        /\ Place(d) <= Cardinality(DivisorsOf(n))
    BY <1>1, DivisorsFinite
  <2>2. Place(d) # 0
    <3>1. d \in DivisorsFrom(n, d) BY <1>1 DEF DivisorsFrom
    <3>2. IsFiniteSet(DivisorsFrom(n, d)) BY <1>1, DivisorsFinite
    <3> QED BY <3>1, <3>2, FS_EmptySet
  <2> QED BY <2>1, <2>2
<1>5. NthDivisor(n, Place(d)) =
        CHOOSE e \in DivisorsOf(n) : Place(e) = Place(d)
  BY DEF NthDivisor, DivisorsFrom
<1> HIDE DEF Place
<1>6. NthDivisor(n, Place(d)) = d BY <1>3, <1>5
<1> QED BY <1>4, <1>6 DEF Place

(* Every place has its divisor.                                            *)
LEMMA DivisorAtPlace ==
  ASSUME NEW n \in Nat, NEW k \in 1 .. Cardinality(DivisorsOf(n))
  PROVE  \E d \in DivisorsOf(n) : Cardinality(DivisorsFrom(n, d)) = k
<1> DEFINE Place(e) == Cardinality(DivisorsFrom(n, e))
           S == {j \in Nat :
                   j <= n => \A i \in 1 .. Place(n + 1 - j) :
                               \E d \in DivisorsOf(n) : Place(d) = i}
<1>1. 0 \in S
  <2>1. n + 1 - 0 = n + 1 OBVIOUS
  <2>2. Place(n + 1) = 0 BY AllDivisors
  <2> HIDE DEF Place
  <2>3. \A i \in 1 .. Place(n + 1 - 0) : FALSE BY <2>1, <2>2
  <2> QED BY <2>3
<1>2. ASSUME NEW j \in Nat, j \in S PROVE j + 1 \in S
  <2> SUFFICES ASSUME j + 1 <= n, NEW i \in 1 .. Place(n + 1 - (j + 1))
               PROVE  \E d \in DivisorsOf(n) : Place(d) = i
    OBVIOUS
  <2> DEFINE e == n - j
  <2>1. /\ e \in 1 .. n /\ n + 1 - (j + 1) = e /\ n + 1 - j = e + 1
        /\ e + 1 \in Nat
    OBVIOUS
  <2> HIDE DEF e
  <2>2. Place(e) \in Nat /\ Place(e + 1) \in Nat
    <3>1. \A x \in Nat : Place(x) \in Nat BY DivisorsFinite
    <3>2. e \in Nat BY <2>1
    <3> HIDE DEF Place
    <3> QED BY <2>1, <3>1, <3>2
  <2>3. CASE e \in DivisorsOf(n)
    <3>1. Place(e) = Place(e + 1) + 1 BY <2>3, OneDivisorMore
    <3> HIDE DEF Place
    <3>2. i = Place(e) \/ i \in 1 .. Place(e + 1) BY <2>1, <2>2, <3>1
    <3> QED BY <1>2, <2>1, <2>3, <3>2
  <2>4. CASE e \notin DivisorsOf(n)
    <3>1. \A x \in ((e - 1) + 1) .. e : x \notin DivisorsOf(n)
      BY <2>1, <2>4
    <3>2. e - 1 \in Nat /\ e - 1 <= e /\ e \in Nat /\ (e - 1) + 1 = e
      BY <2>1
    <3>3. DivisorsFrom(n, e + 1) = DivisorsFrom(n, (e - 1) + 1)
      BY <3>1, <3>2, NoDivisorBetween
    <3>4. Place(e + 1) = Place(e) BY <3>2, <3>3
    <3> HIDE DEF Place
    <3> QED BY <1>2, <2>1, <3>4
  <2> QED BY <2>3, <2>4
<1>3. n \in S
  <2> HIDE DEF S
  <2> QED BY <1>1, <1>2, InductiveSet
<1>4. n + 1 - n = 1 /\ n <= n OBVIOUS
<1>5. Place(1) = Cardinality(DivisorsOf(n)) BY AllDivisors
<1> HIDE DEF Place
<1>6. \E d \in DivisorsOf(n) : Place(d) = k BY <1>3, <1>4, <1>5
<1> QED BY <1>6 DEF Place

LEMMA NthDivisorType ==
  ASSUME NEW n \in Nat, NEW k \in 1 .. Cardinality(DivisorsOf(n))
  PROVE  NthDivisor(n, k) \in 1 .. n
<1>1. \E d \in DivisorsOf(n) : Cardinality(DivisorsFrom(n, d)) = k
  BY DivisorAtPlace
<1>2. NthDivisor(n, k) \in DivisorsOf(n)
  BY <1>1 DEF NthDivisor, DivisorsFrom
<1> QED BY <1>2 DEF DivisorsOf

(* When the divisors are due.                                              *)
LEMMA DivisorsDueIs ==
  ASSUME NEW n \in Nat, NEW start \in Nat
  PROVE  LET count == Cardinality(DivisorsOf(n))
             due   == DivisorsDue(n, start)
         IN /\ due[0] = start
            /\ \A k \in 0 .. count : due[k] \in Nat
            /\ \A k \in 1 .. count :
                 due[k] = due[k - 1] + 10 * NthDivisor(n, k)
<1> DEFINE count == Cardinality(DivisorsOf(n))
           Nth(k) == NthDivisor(n, k)
           step == [k \in Nat |-> [v \in Nat |->
                      IF k < count THEN v + 10 * Nth(k + 1) ELSE v]]
           Is(f) == f = [k \in 0 .. count |->
                           IF k = 0 THEN start ELSE f[k - 1] + 10 * Nth(k)]
<1>1. count \in Nat
  <2>1. 0 \in Nat OBVIOUS
  <2> QED BY <2>1, DivisorsFinite
<1>2. \A k \in 1 .. count : Nth(k) \in Nat
  <2> SUFFICES ASSUME NEW k \in 1 .. count PROVE Nth(k) \in Nat OBVIOUS
  <2>1. Nth(k) \in 1 .. n BY NthDivisorType
  <2> QED BY <2>1
<1>3. DivisorsDue(n, start) = CHOOSE f : Is(f) BY Zenon DEF DivisorsDue
<1> HIDE DEF count, Nth
<1>4. step \in [Nat -> [Nat -> Nat]]
  <2>1. ASSUME NEW k \in Nat, NEW v \in Nat
        PROVE  (IF k < count THEN v + 10 * Nth(k + 1) ELSE v) \in Nat
    <3>1. CASE k < count
      <4>1. k + 1 \in 1 .. count BY <1>1, <3>1
      <4>2. Nth(k + 1) \in Nat BY <1>2, <4>1
      <4> QED BY <4>2
    <3> QED BY <3>1
  <2> QED BY <2>1
<1>5. PICK f \in [Nat -> Nat] : Recursion(f, start, step)
  <2>1. \E f \in [Nat -> Nat] : Recursion(f, start, step)
    <3> HIDE DEF step
    <3> QED BY <1>4, RecursiveFunction
  <2> QED BY <2>1
<1> DEFINE g == [k \in 0 .. count |-> f[k]]
<1>6. Is(g)
  <2>1. \A k \in 0 .. count : g[k] = f[k] OBVIOUS
  <2>2. g[0] = start BY <1>1, <1>5 DEF Recursion
  <2>3. ASSUME NEW k \in 0 .. count, k # 0
        PROVE  g[k] = g[k - 1] + 10 * Nth(k)
    <3>1. /\ k - 1 \in Nat /\ (k - 1) + 1 = k /\ k - 1 < count
          /\ k - 1 \in 0 .. count
      BY <1>1, <2>3
    <3>2. f[(k - 1) + 1] = step[k - 1][f[k - 1]]
      BY <1>5, <3>1 DEF Recursion
    <3>3. f[k - 1] \in Nat BY <3>1
    <3>4. step[k - 1][f[k - 1]] = f[k - 1] + 10 * Nth((k - 1) + 1)
      BY <3>1, <3>3
    <3> HIDE DEF g, step
    <3> QED BY <2>1, <3>1, <3>2, <3>4
  <2>4. g = [k \in 0 .. count |-> g[k]] OBVIOUS
  <2> HIDE DEF g
  <2> QED BY <2>2, <2>3, <2>4
<1> DEFINE due == DivisorsDue(n, start)
<1>7. Is(due)
  <2> HIDE DEF g
  <2> QED BY <1>3, <1>6, Zenon
<1> HIDE DEF due
<1>8. due[0] = start BY <1>1, <1>7
<1>9. ASSUME NEW k \in 1 .. count
      PROVE  due[k] = due[k - 1] + 10 * Nth(k)
  <2>1. k \in 0 .. count /\ k # 0 BY <1>1
  <2> QED BY <1>7, <2>1
<1>10. \A k \in 0 .. count : due[k] \in Nat
  <2> DEFINE S == {k \in Nat : k <= count => due[k] \in Nat}
  <2>1. 0 \in S BY <1>8
  <2>2. ASSUME NEW k \in Nat, k \in S PROVE k + 1 \in S
    <3>1. CASE k + 1 <= count
      <4>1. k + 1 \in 1 .. count /\ (k + 1) - 1 = k /\ k <= count
        BY <1>1, <3>1
      <4>2. due[k + 1] = due[k] + 10 * Nth(k + 1) BY <1>9, <4>1
      <4>3. Nth(k + 1) \in Nat BY <1>2, <4>1
      <4> QED BY <2>2, <4>1, <4>2, <4>3
    <3>2. CASE ~(k + 1 <= count) BY <3>2
    <3> QED BY <3>1, <3>2
  <2> HIDE DEF S
  <2>3. Nat \subseteq S BY <2>1, <2>2, InductiveSet
  <2> QED BY <1>1, <2>3 DEF S
<1> QED BY <1>8, <1>9, <1>10 DEF due, count, Nth

-----------------------------------------------------------------------------
(* The scripts, entry by entry.                                            *)

(* A sequence that is given entry by entry, and its last entry.            *)
LEMMA WithLast ==
  ASSUME NEW m \in Nat, NEW f, f = [j \in 1 .. m |-> f[j]], NEW last
  PROVE  LET s == f \o <<last>>
         IN /\ Len(s) = m + 1
            /\ s = [j \in 1 .. m + 1 |-> s[j]]
            /\ \A j \in 1 .. m : s[j] = f[j]
            /\ s[m + 1] = last
<1> DEFINE S == {f[j] : j \in 1 .. m} \cup {last}
           t == <<last>>
<1>1. f \in Seq(S) /\ Len(f) = m
  <2>1. \A j \in 1 .. m : f[j] \in S OBVIOUS
  <2> HIDE DEF S
  <2>2. f \in [1 .. m -> S] BY <2>1
  <2> QED BY <2>2
<1>2. t \in Seq(S) /\ Len(t) = 1 /\ t[1] = last
  <2>1. last \in S OBVIOUS
  <2> HIDE DEF S
  <2> QED BY <2>1
<1> HIDE DEF S, t
<1> DEFINE s == f \o t
<1>3. /\ s \in Seq(S) /\ Len(s) = m + 1
      /\ \A j \in 1 .. m : s[j] = f[j]
      /\ s[m + 1] = t[1]
  <2>1. /\ s \in Seq(S) /\ Len(s) = Len(f) + Len(t)
        /\ \A j \in 1 .. Len(f) + Len(t) :
             s[j] = IF j <= Len(f) THEN f[j] ELSE t[j - Len(f)]
    BY <1>1, <1>2, ConcatProperties
  <2> HIDE DEF s
  <2>2. m + 1 \in 1 .. m + 1 /\ ~(m + 1 <= m) /\ (m + 1) - m = 1 OBVIOUS
  <2>3. \A j \in 1 .. m : j \in 1 .. m + 1 /\ j <= m OBVIOUS
  <2> QED BY <1>1, <1>2, <2>1, <2>2, <2>3
<1>4. s = [j \in 1 .. m + 1 |-> s[j]]
  <2> HIDE DEF s
  <2> QED BY <1>3
<1> QED BY <1>2, <1>3, <1>4 DEF t

(* What the four scripts are, entry by entry.                              *)
IsScript(script, length) ==
  /\ length \in Nat \ {0} /\ Len(script) = length
  /\ script = [j \in 1 .. length |-> script[j]]

LEMMA DelayScriptIs ==
  ASSUME NEW t, NEW s, NEW start
  PROVE  /\ IsScript(DelayScript(t, s, start), 1)
         /\ DelayScript(t, s, start)[1]
              = Said(start + t, DelayedMessage(t, s))
<1> DEFINE e == Said(start + t, DelayedMessage(t, s))
<1>1. DelayScript(t, s, start) = <<e>> BY DEF DelayScript
<1> HIDE DEF e
<1> QED BY <1>1 DEF IsScript, e

LEMMA DivisorsScriptIs ==
  ASSUME NEW n \in Nat, NEW start \in Nat
  PROVE  LET count  == Cardinality(DivisorsOf(n))
             due    == DivisorsDue(n, start)
             script == DivisorsScript(n, start)
         IN /\ count \in Nat
            /\ IsScript(script, count + 1)
            /\ \A k \in 1 .. count :
                 script[k] = Said(due[k], DivisorFound(n, NthDivisor(n, k)))
            /\ script[count + 1] = Said(due[count], DivisorsDone(n))
<1> DEFINE count  == Cardinality(DivisorsOf(n))
           due    == DivisorsDue(n, start)
           last   == Said(due[count], DivisorsDone(n))
           f      == [k \in 1 .. count |->
                        Said(due[k], DivisorFound(n, NthDivisor(n, k)))]
           script == f \o <<last>>
<1>1. count \in Nat
  <2>1. 0 \in Nat OBVIOUS
  <2> QED BY <2>1, DivisorsFinite
<1>2. DivisorsScript(n, start) = script BY DEF DivisorsScript
<1> HIDE DEF count, due, last
<1>3. f = [k \in 1 .. count |-> f[k]] OBVIOUS
<1>4. \A k \in 1 .. count :
        f[k] = Said(due[k], DivisorFound(n, NthDivisor(n, k)))
  OBVIOUS
<1> HIDE DEF f
<1>5. /\ Len(script) = count + 1
      /\ script = [j \in 1 .. count + 1 |-> script[j]]
      /\ \A j \in 1 .. count : script[j] = f[j]
      /\ script[count + 1] = last
  BY <1>1, <1>3, WithLast
<1> HIDE DEF script
<1>6. IsScript(script, count + 1) BY <1>1, <1>5 DEF IsScript
<1> QED BY <1>1, <1>2, <1>4, <1>5, <1>6 DEF count, due, last

LEMMA FibonacciScriptIs ==
  ASSUME NEW n \in Nat, NEW start \in Nat
  PROVE  LET script == FibonacciScript(n, start)
         IN /\ n <= 1 => /\ IsScript(script, 1)
                         /\ script[1] = Said(start, FibonacciResult(n, n))
            /\ n > 1 =>
                 /\ IsScript(script, n)
                 /\ \A k \in 1 .. n - 1 :
                      script[k] = Said(start + 5 * Triangle(k - 1),
                                       FibonacciStep(n, k, fib[k]))
                 /\ script[n] = Said(start + 5 * Triangle(n - 1),
                                     FibonacciResult(n, fib[n]))
<1> DEFINE script == FibonacciScript(n, start)
<1>1. CASE n <= 1
  <2> DEFINE e == Said(start, FibonacciResult(n, n))
  <2>1. script = <<e>> BY <1>1 DEF FibonacciScript
  <2> HIDE DEF e, script
  <2>2. IsScript(script, 1) /\ script[1] = e BY <2>1 DEF IsScript
  <2> QED BY <1>1, <2>2 DEF e, script
<1>2. CASE n > 1
  <2> DEFINE m    == n - 1
             last == Said(start + 5 * Triangle(n - 1),
                          FibonacciResult(n, fib[n]))
             f    == [k \in 1 .. m |-> Said(start + 5 * Triangle(k - 1),
                                            FibonacciStep(n, k, fib[k]))]
  <2>1. script = f \o <<last>> BY <1>2 DEF FibonacciScript
  <2>2. m \in Nat /\ m + 1 = n BY <1>2
  <2>3. f = [k \in 1 .. m |-> f[k]] OBVIOUS
  <2>4. \A k \in 1 .. m : f[k] = Said(start + 5 * Triangle(k - 1),
                                      FibonacciStep(n, k, fib[k]))
    OBVIOUS
  <2> HIDE DEF f, last, m, script
  <2>5. /\ Len(script) = m + 1
        /\ script = [j \in 1 .. m + 1 |-> script[j]]
        /\ \A j \in 1 .. m : script[j] = f[j]
        /\ script[m + 1] = last
    BY <2>1, <2>2, <2>3, WithLast
  <2>6. IsScript(script, n) BY <1>2, <2>2, <2>5 DEF IsScript
  <2>7. \A k \in 1 .. n - 1 :
          script[k] = Said(start + 5 * Triangle(k - 1),
                           FibonacciStep(n, k, fib[k]))
    BY <2>4, <2>5 DEF m
  <2>8. script[n] = Said(start + 5 * Triangle(n - 1),
                         FibonacciResult(n, fib[n]))
    BY <2>2, <2>5 DEF last
  <2> QED BY <1>2, <2>6, <2>7, <2>8 DEF script
<1>3. n <= 1 \/ n > 1 OBVIOUS
<1> QED BY <1>1, <1>2, <1>3

LEMMA FactorialScriptIs ==
  ASSUME NEW n \in Nat, NEW start \in Nat
  PROVE  LET script == FactorialScript(n, start)
         IN /\ Levels(n) \in Nat \ {0}
            /\ IsScript(script, Levels(n) + 1)
            /\ \A j \in 1 .. Levels(n) :
                 script[j] =
                   Said(start + 50 * (Triangle(n) - Triangle(n + 1 - j)),
                        FactorialCall(n + 1 - j))
            /\ script[Levels(n) + 1] =
                 Said(start + 50 * (Triangle(n) - Triangle(0)),
                      FactorialResult(n, factorial[n]))
<1> DEFINE m    == Levels(n)
           last == Said(start + 50 * (Triangle(n) - Triangle(0)),
                        FactorialResult(n, factorial[n]))
           f    == [j \in 1 .. m |->
                      Said(start + 50 * (Triangle(n) - Triangle(n + 1 - j)),
                           FactorialCall(n + 1 - j))]
           script == FactorialScript(n, start)
<1>1. script = f \o <<last>> BY DEF FactorialScript
<1>2. m \in Nat \ {0} BY DEF Levels
<1>3. f = [k \in 1 .. m |-> f[k]] OBVIOUS
<1>4. \A j \in 1 .. m :
        f[j] = Said(start + 50 * (Triangle(n) - Triangle(n + 1 - j)),
                    FactorialCall(n + 1 - j))
  OBVIOUS
<1> HIDE DEF f, last, m, script
<1>5. /\ Len(script) = m + 1
      /\ script = [j \in 1 .. m + 1 |-> script[j]]
      /\ \A j \in 1 .. m : script[j] = f[j]
      /\ script[m + 1] = last
  BY <1>1, <1>2, <1>3, WithLast
<1>6. IsScript(script, m + 1) BY <1>2, <1>5 DEF IsScript
<1> QED BY <1>2, <1>4, <1>5, <1>6 DEF m, last, script

LEMMA ScriptIs ==
  ASSUME NEW r \in Requests(Word, Word), NEW start \in Word
  PROVE  IsScript(Script(r, start), Len(Script(r, start)))
<1>1. CASE r.route = "delay"
  <2>1. Script(r, start) = DelayScript(r.t, r.s, start)
    BY <1>1 DEF Script
  <2> QED BY <2>1, DelayScriptIs DEF IsScript
<1>2. CASE r.route = "divisors"
  <2>1. Script(r, start) = DivisorsScript(r.n, start) /\ r.n \in Word
    BY <1>2 DEF Script, Requests
  <2>2. r.n \in Nat /\ start \in Nat BY <2>1, Literals
  <2>3. \E m : IsScript(DivisorsScript(r.n, start), m)
    BY <2>2, DivisorsScriptIs
  <2> QED BY <2>1, <2>3 DEF IsScript
<1>3. CASE r.route = "fibonacci"
  <2>1. Script(r, start) = FibonacciScript(r.n, start) /\ r.n \in Word
    BY <1>3 DEF Script, Requests
  <2>2. r.n \in Nat /\ start \in Nat BY <2>1, Literals
  <2>3. r.n <= 1 \/ r.n > 1 BY <2>2
  <2>4. \E m : IsScript(FibonacciScript(r.n, start), m)
    BY <2>2, <2>3, FibonacciScriptIs
  <2> QED BY <2>1, <2>4 DEF IsScript
<1>4. CASE r.route = "factorial"
  <2>1. Script(r, start) = FactorialScript(r.n, start) /\ r.n \in Word
    BY <1>4 DEF Script, Requests
  <2>2. r.n \in Nat /\ start \in Nat BY <2>1, Literals
  <2> QED BY <2>1, <2>2, FactorialScriptIs DEF IsScript
<1> QED BY <1>1, <1>2, <1>3, <1>4 DEF Requests

(* The numbers in a text that fits are words.                              *)
LEMMA TextWords ==
  /\ \A x, y, z : FibonacciStep(x, y, z) \in Texts => z \in Word
  /\ \A x, y : FibonacciResult(x, y) \in Texts => y \in Word
  /\ \A x, y : FactorialResult(x, y) \in Texts => y \in Word
<1>1. ASSUME NEW x, NEW y, NEW z, FibonacciStep(x, y, z) \in Texts
      PROVE  z \in Word
  BY <1>1 DEF Texts, NoText, FibonacciStep
<1>2. ASSUME NEW x, NEW y, FibonacciResult(x, y) \in Texts
      PROVE  y \in Word
  BY <1>2 DEF Texts, NoText, FibonacciResult
<1>3. ASSUME NEW x, NEW y, FactorialResult(x, y) \in Texts
      PROVE  y \in Word
  BY <1>3 DEF Texts, NoText, FactorialResult
<1> QED BY <1>1, <1>2, <1>3

LEMMA WrapIs ==
  ASSUME NEW x \in Nat, x < WORD
  PROVE  Wrap(x) = x /\ x \in Word
<1>1. WORD \in Nat /\ x \in 0 .. WORD - 1 BY WordAssumption
<1>2. x % WORD = x BY ONLY <1>1
<1> QED BY <1>1, <1>2 DEF Wrap, Word

-----------------------------------------------------------------------------
(* Where a task is on its script: it answers r since `start`, has said k   *)
(* texts of the script, and its next step is due at ts.                    *)

OnDelay(r, start, k, stack, ts) ==
  LET Stack(s) == << Value("DelayInputMs", r.t),
                     Value("DelayInputMessage", r.s), State(s) >>
  IN /\ k = 0
     /\ \/ stack = Stack("DelayedMessageTaskBegin") /\ ts = start
        \/ stack = Stack("DelayedMessageTaskExecute") /\ ts = start + r.t

OnDivisors(n, start, k, stack, heap, ts) ==
  LET due == DivisorsDue(n, start)
  IN /\ heap.kind = "Divisors" /\ heap.n = n
     /\ \/ /\ stack = <<State("DivisorsTaskBegin")>>
           /\ k = 0 /\ ts = start
        \/ /\ stack = <<State("DivisorsTaskIteration")>>
           /\ heap.i \in 0 .. n
           /\ k = Cardinality(DivisorsFrom(n, heap.i + 1)) /\ ts = due[k]
        \/ /\ stack = <<State("DivisorsPrintAndMoveOn")>>
           /\ heap.i \in DivisorsOf(n)
           /\ k + 1 = Cardinality(DivisorsFrom(n, heap.i))
           /\ ts = due[k + 1]

OnFibonacci(n, start, k, stack, heap, ts) ==
  LET due == start + 5 * Triangle(heap.index - 1)
  IN /\ heap.kind = "Fibonacci" /\ heap.n = n
     /\ \/ /\ stack = <<State("FibonacciTaskBegin")>>
           /\ k = 0 /\ ts = start
        \/ /\ heap.index \in 1 .. n /\ n > 1 /\ ts = due
           /\ heap.a = fib[heap.index - 1] /\ heap.b = fib[heap.index]
           /\ \/ /\ stack = <<State("FibonacciTaskCalculate")>>
                 /\ k = heap.index - 1
              \/ /\ stack = <<State("FibonacciTaskStep")>>
                 /\ k = heap.index /\ heap.index < n
                 /\ heap.delay_ms = 5 * heap.index
              \/ /\ stack = <<State("FibonacciTaskResult")>>
                 /\ heap.index = n /\ k = n - 1

(* The arguments of the levels of the recursion, from n downwards.         *)
Arguments(stack, n, m) ==
  stack[1].value = n /\ \A j \in 2 .. m : stack[2 * j - 1].value = n + 2 - j

OnFactorial(n, start, k, stack, ts) ==
  LET After(v) == start + 50 * (Triangle(n) - Triangle(v))
      Top(s)   == stack[Len(stack)] = State(s)
  IN \/ EntryShape(stack) /\ stack[1].value = n /\ k = 0 /\ ts = start
     \/ /\ DoneShape(stack) /\ stack[1].value = n
        /\ stack[2].value = factorial[n]
        /\ k = Levels(n) /\ ts = After(0)
     \/ \E m \in 2 .. Levels(n) + 1 :
          /\ CallShape(stack, m) /\ Arguments(stack, n, m)
          /\ \/ /\ Top("FactorialRecursiveCall")
                /\ k = m - 2 /\ ts = After(n + 2 - m)
             \/ /\ Top("FactorialRecursionPostWrite")
                /\ k = m - 1 /\ ts = After(n + 2 - m)
             \/ /\ Top("FactorialRecursionPostSleep")
                /\ k = m - 1 /\ ts = After(n + 2 - m) + 50 * (n + 2 - m)
     \/ \E m \in 2 .. n :
          /\ ReturnShape(stack, m) /\ Arguments(stack, n, m)
          /\ stack[2 * m].value = factorial[n + 1 - m]
          /\ k = Levels(n) /\ ts = After(0)

OnScript(r, start, k, stack, heap, ts) ==
  \/ stack = <<State("Completed")>> /\ k = Len(Script(r, start))
  \/ r.route = "delay" /\ OnDelay(r, start, k, stack, ts)
  \/ r.route = "divisors" /\ OnDivisors(r.n, start, k, stack, heap, ts)
  \/ r.route = "fibonacci" /\ OnFibonacci(r.n, start, k, stack, heap, ts)
  \/ r.route = "factorial" /\ OnFactorial(r.n, start, k, stack, ts)

(* What a step of a task on its script comes to: it goes on, no earlier    *)
(* and without wrapping, or it says the next text, or all has been said.   *)
Follows(r, start, k, ts, out) ==
  /\ out.do \in {"Next", "Sleep"} =>
       /\ ts + out.ms < WORD
       /\ OnScript(r, start, k, out.stack, out.heap, ts + out.ms)
  /\ out.do = "Write" =>
       /\ k < Len(Script(r, start))
       /\ Script(r, start)[k + 1] = Said(ts, out.text)
       /\ OnScript(r, start, k + 1, out.stack, out.heap, ts)
  /\ out.do = "Done" => k = Len(Script(r, start))

LEMMA GoesOn ==
  ASSUME NEW r, NEW start, NEW k, NEW ts, NEW do \in {"Next", "Sleep"},
         NEW ms, NEW stack, NEW heap, ts + ms < WORD,
         OnScript(r, start, k, stack, heap, ts + ms)
  PROVE  Follows(r, start, k, ts, Outcome(do, ms, NoText, stack, heap))
BY DEF Follows, Outcome

LEMMA GoesOnAtOnce ==
  ASSUME NEW r, NEW start, NEW k, NEW ts \in Word, NEW stack, NEW heap,
         OnScript(r, start, k, stack, heap, ts)
  PROVE  Follows(r, start, k, ts, Outcome("Next", 0, NoText, stack, heap))
<1>1. ts + 0 = ts /\ ts < WORD BY WordAssumption DEF Word
<1> QED BY <1>1, GoesOn

LEMMA SaysNext ==
  ASSUME NEW r, NEW start, NEW k, NEW ts, NEW text, NEW stack, NEW heap,
         k < Len(Script(r, start)),
         Script(r, start)[k + 1] = Said(ts, text),
         OnScript(r, start, k + 1, stack, heap, ts)
  PROVE  Follows(r, start, k, ts, Outcome("Write", 0, text, stack, heap))
BY DEF Follows, Outcome

LEMMA SaysLast ==
  ASSUME NEW r, NEW start, NEW k \in Nat, NEW ts, NEW text, NEW heap,
         IsScript(Script(r, start), k + 1),
         Script(r, start)[k + 1] = Said(ts, text)
  PROVE  Follows(r, start, k, ts,
                 Outcome("Write", 0, text, <<State("Completed")>>, heap))
<1>1. k < Len(Script(r, start)) /\ k + 1 = Len(Script(r, start))
  BY DEF IsScript
<1>2. OnScript(r, start, k + 1, <<State("Completed")>>, heap, ts)
  BY <1>1 DEF OnScript
<1> QED BY <1>1, <1>2, SaysNext

(* Each text of a script that fits is due at a time that is a `u64`.       *)
LEMMA Fits ==
  ASSUME NEW r, NEW start, ScriptFits(r, start),
         NEW length, IsScript(Script(r, start), length),
         NEW j \in 1 .. length, NEW at, NEW text,
         Script(r, start)[j] = Said(at, text)
  PROVE  at \in Word /\ text \in Texts
<1>1. j \in DOMAIN Script(r, start) BY DEF IsScript
<1>2. Script(r, start)[j] \in [at : Word, text : Texts]
  BY <1>1 DEF ScriptFits
<1> QED BY <1>2 DEF Said

(* A stack that is one state.                                              *)
LEMMA OneStateAdvances ==
  ASSUME NEW s \in TaskStates, LocalVarsCount[s] = 0, NEW heap,
         NEW do, do # "Return", NEW ms, NEW text,
         NEW entries \in Seq(StackEntries), NEW after,
         global_step(s, <<>>, heap) = StepResult(do, ms, text, entries, after)
  PROVE  Advance(<<State(s)>>, heap) = Outcome(do, ms, text, entries, after)
<1> DEFINE stack == <<State(s)>>
           step  == global_step(s, <<>>, heap)
<1>1. /\ Len(stack) = 1 /\ stack[1].entry = "State" /\ stack[1].state = s
  BY DEF State
<1>0. stack \in Seq(StackEntries) BY OneState
<1> HIDE DEF stack
<1>2. Executable(stack)
  <2>1. \A j \in 1 .. 0 : stack[1 - j].entry = "Value" OBVIOUS
  <2> QED BY <1>0, <1>1, <2>1, ExecutableIntro
<1>3. SubSeq(stack, 1, Len(stack) - 1 - LocalVarsCount[s]) = <<>>
  BY <1>1
<1>4. [j \in 1 .. LocalVarsCount[s] |-> stack[Len(stack) - j]] = <<>>
  BY <1>1
<1>5. Advance(stack, heap) = Resume(step, <<>>)
  BY <1>1, <1>2, <1>3, <1>4 DEF Advance
<1> HIDE DEF step
<1>6. step = StepResult(do, ms, text, entries, after) BY DEF step
<1>7. /\ step.do = do /\ step.ms = ms /\ step.text = text
      /\ step.entries = entries /\ step.heap = after
  BY <1>6 DEF StepResult
<1>8. <<>> \o entries = entries OBVIOUS
<1>9. Advance(stack, heap) = Outcome(do, ms, text, entries, after)
  BY <1>5, <1>7, <1>8 DEF Resume
<1> QED BY <1>9 DEF stack

-----------------------------------------------------------------------------
(* One step on the script of a delay.                                      *)

LEMMA DelayFollows ==
  ASSUME NEW r \in Requests(Word, Word), r.route = "delay",
         NEW start \in Word, ScriptFits(r, start),
         NEW k, NEW stack \in Seq(StackEntries), NEW heap \in Heaps,
         NEW ts \in Word, OnDelay(r, start, k, stack, ts)
  PROVE  Follows(r, start, k, ts, Advance(stack, heap))
<1> DEFINE Ms     == Value("DelayInputMs", r.t)
           Msg    == Value("DelayInputMessage", r.s)
           Stack(s) == << Ms, Msg, State(s) >>
           text   == DelayedMessage(r.t, r.s)
           due    == start + r.t
<1>1. r.t \in Word /\ r.s \in Messages /\ start \in Nat /\ r.t \in Nat
  BY Literals DEF Requests
<1>2. Script(r, start) = DelayScript(r.t, r.s, start) BY DEF Script
<1>3. /\ IsScript(Script(r, start), 1)
      /\ Script(r, start)[1] = Said(due, text)
  BY <1>2, DelayScriptIs
<1>4. due \in Word
  <2>1. 1 \in 1 .. 1 OBVIOUS
  <2> QED BY <1>3, <2>1, Fits
<1>5. /\ k = 0
      /\ \/ stack = Stack("DelayedMessageTaskBegin") /\ ts = start
         \/ stack = Stack("DelayedMessageTaskExecute") /\ ts = due
  BY DEF OnDelay
<1>6. /\ Ms.value = r.t /\ IsValue(Ms, "DelayInputMs")
      /\ Msg.value = r.s /\ IsValue(Msg, "DelayInputMessage")
  BY DEF Value, IsValue
<1> HIDE DEF Ms, Msg, text, due
<1>7. stack[1] = Ms /\ stack[2] = Msg /\ DelayShape(stack)
  BY <1>5, <1>6 DEF DelayShape
<1>8. CASE stack = Stack("DelayedMessageTaskBegin") /\ ts = start
  <2>1. stack[3] = State("DelayedMessageTaskBegin") BY <1>8
  <2>2. stack[3] # State("DelayedMessageTaskExecute") BY <2>1 DEF State
  <2>3. Advance(stack, heap) =
          Outcome("Sleep", r.t, NoText, Stack("DelayedMessageTaskExecute"),
                  heap)
    BY <1>6, <1>7, <2>2, DelayAdvances
  <2>4. OnDelay(r, start, 0, Stack("DelayedMessageTaskExecute"), due)
    BY DEF OnDelay, Ms, Msg, due
  <2> HIDE DEF Stack
  <2>5. OnScript(r, start, k, Stack("DelayedMessageTaskExecute"), heap,
                 ts + r.t)
    BY <1>5, <1>8, <2>4 DEF OnScript, due
  <2>6. ts + r.t < WORD BY <1>1, <1>4, <1>8, WordAssumption DEF due, Word
  <2> QED BY <2>3, <2>5, <2>6, GoesOn
<1>9. CASE stack = Stack("DelayedMessageTaskExecute") /\ ts = due
  <2>1. stack[3] = State("DelayedMessageTaskExecute") BY <1>9
  <2>2. stack[3] # State("DelayedMessageTaskBegin") BY <2>1 DEF State
  <2>3. Advance(stack, heap) =
          Outcome("Write", 0, text, <<State("Completed")>>, heap)
    BY <1>6, <1>7, <2>2, DelayAdvances DEF text
  <2>4. k \in Nat /\ k + 1 = 1 BY <1>5
  <2>5. /\ IsScript(Script(r, start), k + 1)
        /\ Script(r, start)[k + 1] = Said(ts, text)
    BY <1>3, <1>9, <2>4
  <2> QED BY <2>3, <2>4, <2>5, SaysLast
<1> QED BY <1>5, <1>8, <1>9

-----------------------------------------------------------------------------
(* One step on the script of the divisors.                                 *)

(* Where the loop of DivisorsTaskIteration ends: at the largest divisor.   *)
LEMMA LargestDivisorIs ==
  ASSUME NEW n \in Nat, NEW i \in 0 .. n
  PROVE  LET d == LargestDivisorUpTo(n, i)
         IN /\ d = 0 \/ (d \in DivisorsOf(n) /\ d \in 1 .. i)
            /\ \A e \in (d + 1) .. i : e \notin DivisorsOf(n)
<1> DEFINE Largest == {d \in 1 .. i : /\ n % d = 0
                                     /\ \A e \in (d + 1) .. i : n % e # 0}
           below == {j \in Nat : i - j \in 1 .. i /\ n % (i - j) = 0}
<1>1. \A e \in 1 .. i : e \in DivisorsOf(n) <=> n % e = 0
  BY DEF DivisorsOf
<1>2. CASE below = {}
  <2>1. ASSUME NEW e \in 1 .. i PROVE n % e # 0
    <3>1. i - e \in Nat /\ i - (i - e) = e OBVIOUS
    <3> QED BY <1>2, <3>1
  <2>2. Largest = {} BY <2>1
  <2>3. LargestDivisorUpTo(n, i) = 0 BY <2>2 DEF LargestDivisorUpTo
  <2>4. \A e \in (0 + 1) .. i : e \notin DivisorsOf(n) BY <1>1, <2>1
  <2> QED BY <2>3, <2>4
<1>3. CASE below # {}
  <2>1. below \subseteq Nat OBVIOUS
  <2>2. PICK j \in below : \A k \in below : j <= k
    <3> HIDE DEF below
    <3>1. \E j \in below : \A k \in below : j <= k
      BY <1>3, <2>1, LeastNumber
    <3> QED BY <3>1
  <2> DEFINE d == i - j
  <2>3. d \in 1 .. i /\ n % d = 0 BY <2>2
  <2>4. ASSUME NEW e \in (d + 1) .. i PROVE n % e # 0
    <3>1. i - e \in Nat /\ i - (i - e) = e /\ e \in 1 .. i /\ ~(j <= i - e)
      BY <2>3
    <3> QED BY <2>2, <3>1
  <2>5. d \in Largest BY <2>3, <2>4
  <2> HIDE DEF d
  <2> DEFINE L == LargestDivisorUpTo(n, i)
  <2>6. L \in Largest
    <3>1. L = CHOOSE x \in Largest : TRUE
      BY <2>5 DEF LargestDivisorUpTo
    <3> HIDE DEF Largest, L
    <3> QED BY <2>5, <3>1
  <2>7. /\ L \in 1 .. i /\ n % L = 0
        /\ \A e \in (L + 1) .. i : n % e # 0
    BY <2>6
  <2> HIDE DEF L
  <2>8. \A e \in (L + 1) .. i : e \in 1 .. i BY <2>7
  <2>9. L \in DivisorsOf(n) /\ \A e \in (L + 1) .. i : e \notin DivisorsOf(n)
    BY <1>1, <2>7, <2>8
  <2>10. L \in DivisorsOf(n) /\ L \in 1 .. i BY <2>7, <2>9
  <2> QED BY <2>9, <2>10 DEF L
<1> QED BY <1>2, <1>3

(* The heap of the divisors with another i.                                *)
LEMMA DivisorsHeap ==
  ASSUME NEW heap \in Heaps, heap.kind = "Divisors", NEW i
  PROVE  /\ heap.n \in Word /\ heap.i \in Word
         /\ [heap EXCEPT !.i = i].kind = "Divisors"
         /\ [heap EXCEPT !.i = i].n = heap.n
         /\ [heap EXCEPT !.i = i].i = i
<1>1. heap \in [kind : {"Divisors"}, n : Word, i : Word]
  BY DEF Heaps, EmptyHeap
<1> QED BY <1>1

LEMMA DivisorsFollows ==
  ASSUME NEW r \in Requests(Word, Word), r.route = "divisors",
         NEW start \in Word, ScriptFits(r, start),
         NEW k \in Nat,
         NEW stack \in Seq(StackEntries), NEW heap \in Heaps,
         NEW ts \in Word, OnDivisors(r.n, start, k, stack, heap, ts)
  PROVE  Follows(r, start, k, ts, Advance(stack, heap))
<1> DEFINE n      == r.n
           count  == Cardinality(DivisorsOf(n))
           due    == DivisorsDue(n, start)
           script == Script(r, start)
           Place(d) == Cardinality(DivisorsFrom(n, d))
           Set(i) == [heap EXCEPT !.i = i]
           ToCompleted == <<State("Completed")>>
           ToIteration == <<State("DivisorsTaskIteration")>>
           ToPrint     == <<State("DivisorsPrintAndMoveOn")>>
<1>1. n \in Word /\ n \in Nat /\ start \in Nat
  BY Literals DEF Requests
<1>2. /\ count \in Nat
      /\ IsScript(script, count + 1)
      /\ \A j \in 1 .. count :
           script[j] = Said(due[j], DivisorFound(n, NthDivisor(n, j)))
      /\ script[count + 1] = Said(due[count], DivisorsDone(n))
  <2>1. script = DivisorsScript(n, start) BY DEF Script
  <2> HIDE DEF script
  <2> QED BY <1>1, <2>1, DivisorsScriptIs
<1>3. /\ due[0] = start
      /\ \A j \in 0 .. count : due[j] \in Nat
      /\ \A j \in 1 .. count : due[j] = due[j - 1] + 10 * NthDivisor(n, j)
  BY <1>1, DivisorsDueIs
<1>4. /\ heap.kind = "Divisors" /\ heap.n = n
      /\ heap.i \in Word
      /\ \A i : /\ Set(i).kind = "Divisors" /\ Set(i).n = n
                /\ Set(i).i = i
  BY DivisorsHeap DEF OnDivisors
<1>5. ASSUME NEW s, NEW i, NEW m, NEW at,
             OnDivisors(n, start, m, s, Set(i), at)
      PROVE  OnScript(r, start, m, s, Set(i), at)
  BY <1>5 DEF OnScript
<1>6. \A s \in TaskStates : <<State(s)>> \in Seq(StackEntries) BY OneState
<1>7. Place(n + 1) = 0 BY <1>1, AllDivisors
<1> HIDE DEF count, due, script, Place, Set
<1>8. CASE stack = <<State("DivisorsTaskBegin")>> /\ k = 0 /\ ts = start
  <2>1. Advance(stack, heap) = Outcome("Next", 0, NoText, ToIteration, Set(n))
    <3>1. global_step("DivisorsTaskBegin", <<>>, heap) =
            StepResult("Next", 0, NoText, ToIteration, Set(n))
      BY <1>4 DEF global_step, DivisorsTaskBegin, StepNext, Set
    <3>2. /\ "DivisorsTaskBegin" \in TaskStates
          /\ LocalVarsCount["DivisorsTaskBegin"] = 0
          /\ ToIteration \in Seq(StackEntries)
      BY <1>6 DEF TaskStates, LocalVarsCount
    <3> HIDE DEF ToIteration
    <3> QED BY <1>8, <3>1, <3>2, OneStateAdvances
  <2>2. OnDivisors(n, start, k, ToIteration, Set(n), ts)
    <3>1. n \in 0 .. n BY <1>1
    <3>2. k = Place(n + 1) /\ ts = due[k] BY <1>3, <1>7, <1>8
    <3> QED BY <1>4, <3>1, <3>2 DEF OnDivisors, due, Place
  <2>3. OnScript(r, start, k, ToIteration, Set(n), ts) BY <1>5, <2>2
  <2> HIDE DEF ToIteration
  <2> QED BY <2>1, <2>3, GoesOnAtOnce
<1>9. CASE /\ stack = <<State("DivisorsTaskIteration")>>
           /\ heap.i \in 0 .. n
           /\ k = Place(heap.i + 1) /\ ts = due[k]
  <2> DEFINE d == LargestDivisorUpTo(n, heap.i)
  <2>1. /\ d = 0 \/ (d \in DivisorsOf(n) /\ d \in 1 .. heap.i)
        /\ \A e \in (d + 1) .. heap.i : e \notin DivisorsOf(n)
    BY <1>1, <1>9, LargestDivisorIs
  <2>2. /\ "DivisorsTaskIteration" \in TaskStates
        /\ LocalVarsCount["DivisorsTaskIteration"] = 0
        /\ ToCompleted \in Seq(StackEntries)
        /\ ToPrint \in Seq(StackEntries)
    BY <1>6 DEF TaskStates, LocalVarsCount
  <2>3. /\ d = 0 => global_step("DivisorsTaskIteration", <<>>, heap) =
                      StepResult("Write", 0, DivisorsDone(n), ToCompleted,
                                 heap)
        /\ d # 0 => global_step("DivisorsTaskIteration", <<>>, heap) =
                      StepResult("Sleep", Wrap(d * 10), NoText, ToPrint,
                                 Set(d))
    BY <1>4 DEF global_step, DivisorsTaskIteration, StepWrite, StepSleep, Set
  <2> HIDE DEF d
  <2>4. d \in Nat /\ heap.i \in Nat /\ d <= heap.i BY <1>9, <2>1
  <2>5. k = Place(d + 1)
    <3>1. DivisorsFrom(n, heap.i + 1) = DivisorsFrom(n, d + 1)
      BY <1>1, <2>1, <2>4, NoDivisorBetween
    <3> QED BY <1>9, <3>1 DEF Place
  <2>6. CASE d = 0
    <3>1. Advance(stack, heap) =
            Outcome("Write", 0, DivisorsDone(n), ToCompleted, heap)
      <4> HIDE DEF ToCompleted
      <4> QED BY <1>9, <2>2, <2>3, <2>6, OneStateAdvances
    <3>2. k = count
      <4>1. d + 1 = 1 BY <2>6
      <4>2. DivisorsFrom(n, 1) = DivisorsOf(n) BY <1>1, AllDivisors
      <4> QED BY <2>5, <4>1, <4>2 DEF Place, count
    <3>3. /\ k \in Nat /\ IsScript(script, k + 1)
          /\ script[k + 1] = Said(ts, DivisorsDone(n))
      BY <1>2, <1>9, <3>2
    <3> QED BY <3>1, <3>3, SaysLast DEF script
  <2>7. CASE d # 0
    <3>1. Advance(stack, heap) =
            Outcome("Sleep", Wrap(d * 10), NoText, ToPrint, Set(d))
      <4> HIDE DEF ToPrint
      <4> QED BY <1>9, <2>2, <2>3, <2>7, OneStateAdvances
    <3>2. d \in DivisorsOf(n) BY <2>1, <2>7
    <3>3. /\ Place(d) = k + 1 /\ Place(d) \in 1 .. count
          /\ NthDivisor(n, Place(d)) = d
      <4>1. Place(d) = Place(d + 1) + 1
        BY <1>1, <3>2, OneDivisorMore DEF Place
      <4>2. Place(d) \in 1 .. count /\ NthDivisor(n, Place(d)) = d
        BY <1>1, <3>2, PlaceOfDivisor DEF Place, count
      <4>3. Place(d) = k + 1 BY <2>5, <4>1
      <4> QED BY <4>2, <4>3
    <3>4. k + 1 \in 1 .. count /\ NthDivisor(n, k + 1) = d BY <3>3
    <3>5. due[k + 1] = ts + 10 * d
      <4>1. (k + 1) - 1 = k BY <3>3
      <4> QED BY <1>3, <1>9, <3>4, <4>1
    <3>6. due[k + 1] \in Word
      <4>1. k + 1 \in 1 .. count + 1 BY <1>2, <3>4
      <4>2. script[k + 1] = Said(due[k + 1], DivisorFound(n, d))
        BY <1>2, <3>4
      <4> QED BY <1>2, <4>1, <4>2, Fits DEF script
    <3>7. ts \in Nat BY Literals
    <3>8. Wrap(d * 10) = d * 10 /\ ts + d * 10 < WORD
      <4>1. d * 10 \in Nat /\ d * 10 < WORD /\ ts + d * 10 < WORD
        BY <2>4, <3>5, <3>6, <3>7, WordAssumption DEF Word
      <4> QED BY <4>1, WrapIs
    <3>9. ts + Wrap(d * 10) = due[k + 1] BY <2>4, <3>5, <3>7, <3>8
    <3>10. OnDivisors(n, start, k, ToPrint, Set(d), due[k + 1])
      BY <1>4, <3>2, <3>3 DEF OnDivisors, due, Place
    <3>11. OnScript(r, start, k, ToPrint, Set(d), ts + Wrap(d * 10))
      BY <1>5, <3>9, <3>10
    <3>12. ts + Wrap(d * 10) < WORD BY <3>8
    <3> HIDE DEF ToPrint
    <3> QED BY <3>1, <3>11, <3>12, GoesOn
  <2> QED BY <2>6, <2>7
<1>10. CASE /\ stack = <<State("DivisorsPrintAndMoveOn")>>
            /\ heap.i \in DivisorsOf(n)
            /\ k + 1 = Place(heap.i) /\ ts = due[k + 1]
  <2> DEFINE d == heap.i
  <2>1. d \in 1 .. n /\ Wrap(d - 1) = d - 1 /\ d \in Nat
    <3>1. d \in 1 .. n BY <1>10 DEF DivisorsOf
    <3>2. d - 1 \in Nat /\ d - 1 < WORD
      BY <1>1, <3>1, WordAssumption DEF Word
    <3> QED BY <3>1, <3>2, WrapIs
  <2>2. Advance(stack, heap) =
          Outcome("Write", 0, DivisorFound(n, d), ToIteration, Set(d - 1))
    <3>1. global_step("DivisorsPrintAndMoveOn", <<>>, heap) =
            StepResult("Write", 0, DivisorFound(n, d), ToIteration,
                       Set(d - 1))
      BY <1>4, <2>1 DEF global_step, DivisorsPrintAndMoveOn, StepWrite, Set
    <3>2. /\ "DivisorsPrintAndMoveOn" \in TaskStates
          /\ LocalVarsCount["DivisorsPrintAndMoveOn"] = 0
          /\ ToIteration \in Seq(StackEntries)
      BY <1>6 DEF TaskStates, LocalVarsCount
    <3> HIDE DEF ToIteration
    <3> QED BY <1>10, <3>1, <3>2, OneStateAdvances
  <2>3. k + 1 \in 1 .. count /\ NthDivisor(n, k + 1) = d
    <3>1. Place(d) \in 1 .. count /\ NthDivisor(n, Place(d)) = d
      BY <1>1, <1>10, PlaceOfDivisor DEF Place, count
    <3> QED BY <1>10, <3>1
  <2> HIDE DEF d
  <2>4. k < Len(script) /\ script[k + 1] = Said(ts, DivisorFound(n, d))
    <3>1. Len(script) = count + 1 BY <1>2 DEF IsScript
    <3>2. k < count + 1 BY <1>2, <2>3
    <3>3. script[k + 1] = Said(due[k + 1], DivisorFound(n, d))
      BY <1>2, <2>3
    <3> QED BY <1>10, <3>1, <3>2, <3>3
  <2>5. OnDivisors(n, start, k + 1, ToIteration, Set(d - 1), ts)
    <3>1. d - 1 \in 0 .. n /\ (d - 1) + 1 = d BY <1>1, <2>1
    <3>2. k + 1 = Place((d - 1) + 1) BY <1>10, <3>1 DEF d
    <3> QED BY <1>4, <1>10, <3>1, <3>2 DEF OnDivisors, due, Place
  <2>6. OnScript(r, start, k + 1, ToIteration, Set(d - 1), ts)
    BY <1>5, <2>5
  <2> HIDE DEF ToIteration
  <2> QED BY <2>2, <2>4, <2>6, SaysNext DEF script
<1> QED BY <1>8, <1>9, <1>10 DEF OnDivisors, due, Place

-----------------------------------------------------------------------------
(* One step on the script of the Fibonacci numbers.                        *)

(* The heap of the Fibonacci numbers with other values.                    *)
FibonacciHeaps ==
  [kind : {"Fibonacci"}, n : Word, index : Word, a : Word, b : Word,
   delay_ms : Word]

LEMMA FibonacciHeap ==
  ASSUME NEW heap \in Heaps, heap.kind = "Fibonacci",
         NEW index, NEW a, NEW b, NEW delay_ms
  PROVE  /\ heap \in FibonacciHeaps
         /\ LET new == [heap EXCEPT !.index = index, !.a = a, !.b = b]
            IN /\ new.kind = "Fibonacci" /\ new.n = heap.n
               /\ new.index = index /\ new.a = a /\ new.b = b
         /\ LET new == [heap EXCEPT !.delay_ms = delay_ms]
            IN /\ new.kind = "Fibonacci" /\ new.n = heap.n
               /\ new.index = heap.index
               /\ new.a = heap.a /\ new.b = heap.b
               /\ new.delay_ms = delay_ms
<1>1. heap \in FibonacciHeaps BY DEF Heaps, EmptyHeap, FibonacciHeaps
<1> QED BY <1>1 DEF FibonacciHeaps

(* When the numbers are due, and that neither they nor their times wrap.   *)
LEMMA FibonacciFits ==
  ASSUME NEW r \in Requests(Word, Word), r.route = "fibonacci", r.n > 1,
         NEW start \in Word, ScriptFits(r, start), NEW j \in 1 .. r.n
  PROVE  /\ start + 5 * Triangle(j - 1) \in Word
         /\ fib[j] \in Word
<1> DEFINE n  == r.n
           at == start + 5 * Triangle(j - 1)
<1>1. n \in Nat /\ n > 1 /\ start \in Nat BY Literals DEF Requests
<1>2. Script(r, start) = FibonacciScript(n, start) BY DEF Script
<1>3. /\ IsScript(Script(r, start), n)
      /\ j < n => Script(r, start)[j] = Said(at, FibonacciStep(n, j, fib[j]))
      /\ j = n => Script(r, start)[j] = Said(at, FibonacciResult(n, fib[j]))
  <2>1. j < n => j \in 1 .. n - 1 BY <1>1
  <2> HIDE DEF n
  <2> QED BY <1>1, <1>2, <2>1, FibonacciScriptIs
<1>4. CASE j < n
  <2>1. at \in Word /\ FibonacciStep(n, j, fib[j]) \in Texts
    BY <1>3, <1>4, Fits
  <2> QED BY <2>1, TextWords
<1>5. CASE j = n
  <2>1. at \in Word /\ FibonacciResult(n, fib[j]) \in Texts
    BY <1>3, <1>5, Fits
  <2> QED BY <2>1, TextWords
<1> QED BY <1>1, <1>4, <1>5

LEMMA FibonacciBeginFollows ==
  ASSUME NEW r \in Requests(Word, Word), r.route = "fibonacci",
         NEW start \in Word, ScriptFits(r, start),
         NEW heap \in Heaps, heap.kind = "Fibonacci", heap.n = r.n
  PROVE  Follows(r, start, 0, start,
                 Advance(<<State("FibonacciTaskBegin")>>, heap))
<1> DEFINE n    == r.n
           out  == Advance(<<State("FibonacciTaskBegin")>>, heap)
           new  == [heap EXCEPT !.index = 1, !.a = 0, !.b = 1]
           ToCompleted == <<State("Completed")>>
           ToCalculate == <<State("FibonacciTaskCalculate")>>
<1>1. n \in Nat /\ start \in Nat BY Literals DEF Requests
<1>2. Script(r, start) = FibonacciScript(n, start) BY DEF Script
<1>3. /\ "FibonacciTaskBegin" \in TaskStates
      /\ LocalVarsCount["FibonacciTaskBegin"] = 0
      /\ ToCompleted \in Seq(StackEntries)
      /\ ToCalculate \in Seq(StackEntries)
  BY OneState DEF TaskStates, LocalVarsCount
<1>4. /\ n <= 1 => global_step("FibonacciTaskBegin", <<>>, heap) =
                     StepResult("Write", 0, FibonacciResult(n, n),
                                ToCompleted, heap)
      /\ ~(n <= 1) => global_step("FibonacciTaskBegin", <<>>, heap) =
                        StepResult("Next", 0, NoText, ToCalculate, new)
  BY DEF global_step, FibonacciTaskBegin, StepWrite, StepNext
<1>5. CASE n <= 1
  <2>1. out = Outcome("Write", 0, FibonacciResult(n, n), ToCompleted, heap)
    <3> HIDE DEF ToCompleted, n
    <3> QED BY <1>3, <1>4, <1>5, OneStateAdvances
  <2>2. /\ IsScript(Script(r, start), 0 + 1)
        /\ Script(r, start)[0 + 1] = Said(start, FibonacciResult(n, n))
    <3>1. 0 + 1 = 1 OBVIOUS
    <3> HIDE DEF n
    <3> QED BY <1>1, <1>2, <1>5, <3>1, FibonacciScriptIs
  <2>3. 0 \in Nat OBVIOUS
  <2> QED BY <2>1, <2>2, <2>3, SaysLast
<1>6. CASE ~(n <= 1)
  <2>1. out = Outcome("Next", 0, NoText, ToCalculate, new)
    <3> HIDE DEF ToCalculate, new, n
    <3> QED BY <1>3, <1>4, <1>6, OneStateAdvances
  <2>2. /\ new.kind = "Fibonacci" /\ new.n = n
        /\ new.index = 1 /\ new.a = 0 /\ new.b = 1
    BY FibonacciHeap
  <2> HIDE DEF new
  <2>3. OnFibonacci(n, start, 0, ToCalculate, new, start)
    <3>1. /\ new.index \in 1 .. n /\ n > 1 /\ new.index - 1 = 0
          /\ 0 = new.index - 1
      BY <1>1, <1>6, <2>2
    <3>2. start = start + 5 * Triangle(new.index - 1)
      BY <1>1, <3>1, TriangleIs
    <3>3. new.a = fib[new.index - 1] /\ new.b = fib[new.index]
      BY <2>2, <3>1, FibonacciIs
    <3> QED BY <2>2, <3>1, <3>2, <3>3 DEF OnFibonacci
  <2>4. OnScript(r, start, 0, ToCalculate, new, start)
    BY <2>3 DEF OnScript
  <2> HIDE DEF ToCalculate
  <2> QED BY <2>1, <2>4, GoesOnAtOnce
<1> QED BY <1>5, <1>6

(* A number of the script is computed: it is said, or it is the last one.  *)
LEMMA FibonacciCalculateFollows ==
  ASSUME NEW r \in Requests(Word, Word), r.route = "fibonacci", r.n > 1,
         NEW start \in Word, ScriptFits(r, start),
         NEW heap \in Heaps, heap.kind = "Fibonacci", heap.n = r.n,
         NEW i \in 1 .. r.n, heap.index = i,
         heap.a = fib[i - 1], heap.b = fib[i]
  PROVE  Follows(r, start, i - 1, start + 5 * Triangle(i - 1),
                 Advance(<<State("FibonacciTaskCalculate")>>, heap))
<1> DEFINE n    == r.n
           ts   == start + 5 * Triangle(i - 1)
           out  == Advance(<<State("FibonacciTaskCalculate")>>, heap)
           new  == [heap EXCEPT !.delay_ms = Wrap(5 * i)]
           text == FibonacciStep(n, i, fib[i])
           ToResult == <<State("FibonacciTaskResult")>>
           ToStep   == <<State("FibonacciTaskStep")>>
<1>1. n \in Nat /\ start \in Nat /\ n > 1 BY Literals DEF Requests
<1>2. Script(r, start) = FibonacciScript(n, start) BY DEF Script
<1>3. /\ "FibonacciTaskCalculate" \in TaskStates
      /\ LocalVarsCount["FibonacciTaskCalculate"] = 0
      /\ ToResult \in Seq(StackEntries)
      /\ ToStep \in Seq(StackEntries)
  BY OneState DEF TaskStates, LocalVarsCount
<1>4. /\ i >= n => global_step("FibonacciTaskCalculate", <<>>, heap) =
                     StepResult("Next", 0, NoText, ToResult, heap)
      /\ ~(i >= n) => global_step("FibonacciTaskCalculate", <<>>, heap) =
                        StepResult("Write", 0, text, ToStep, new)
  BY DEF global_step, FibonacciTaskCalculate, StepWrite, StepNext
<1>5. ts \in Word BY FibonacciFits
<1>6. CASE i >= n
  <2>1. out = Outcome("Next", 0, NoText, ToResult, heap)
    <3> HIDE DEF ToResult, n
    <3> QED BY <1>3, <1>4, <1>6, OneStateAdvances
  <2>2. i = n BY <1>1, <1>6
  <2>3. OnFibonacci(n, start, i - 1, ToResult, heap, ts)
    BY <1>1, <2>2 DEF OnFibonacci
  <2>4. OnScript(r, start, i - 1, ToResult, heap, ts)
    BY <2>3 DEF OnScript
  <2> HIDE DEF ToResult, ts
  <2> QED BY <1>5, <2>1, <2>4, GoesOnAtOnce DEF ts
<1>7. CASE ~(i >= n)
  <2>1. out = Outcome("Write", 0, text, ToStep, new)
    <3> HIDE DEF ToStep, new, n, text
    <3> QED BY <1>3, <1>4, <1>7, OneStateAdvances
  <2>2. /\ i - 1 < Len(Script(r, start))
        /\ Script(r, start)[(i - 1) + 1] = Said(ts, text)
    <3>1. i \in 1 .. n - 1 /\ (i - 1) + 1 = i /\ i - 1 < n BY <1>1, <1>7
    <3>2. /\ IsScript(Script(r, start), n)
          /\ Script(r, start)[i] = Said(ts, text)
      <4> HIDE DEF n
      <4> QED BY <1>1, <1>2, <3>1, FibonacciScriptIs
    <3> QED BY <3>1, <3>2 DEF IsScript
  <2>3. Wrap(5 * i) = 5 * i
    <3>1. i + 1 \in 1 .. n /\ (i + 1) - 1 = i BY <1>1, <1>7
    <3>2. start + 5 * Triangle(i) \in Word BY <3>1, FibonacciFits
    <3>3. Triangle(i) = Triangle(i - 1) + i /\ Triangle(i - 1) \in Nat
      <4>1. i - 1 \in Nat /\ (i - 1) + 1 = i OBVIOUS
      <4> QED BY <4>1, TriangleIs
    <3>4. 5 * i \in Nat /\ 5 * i < WORD
      BY <1>1, <3>2, <3>3, WordAssumption DEF Word
    <3> QED BY <3>4, WrapIs
  <2>4. /\ new.kind = "Fibonacci" /\ new.n = n /\ new.index = i
        /\ new.a = heap.a /\ new.b = heap.b /\ new.delay_ms = 5 * i
    <3> HIDE DEF n
    <3>1. /\ new.kind = "Fibonacci" /\ new.n = heap.n
          /\ new.index = heap.index
          /\ new.a = heap.a /\ new.b = heap.b
          /\ new.delay_ms = Wrap(5 * i)
      BY FibonacciHeap
    <3> QED BY <2>3, <3>1 DEF n
  <2> HIDE DEF new
  <2>5. OnFibonacci(n, start, (i - 1) + 1, ToStep, new, ts)
    <3>1. (i - 1) + 1 = i /\ i < n BY <1>1, <1>7
    <3> QED BY <1>1, <2>4, <3>1 DEF OnFibonacci
  <2>6. OnScript(r, start, (i - 1) + 1, ToStep, new, ts)
    BY <2>5 DEF OnScript
  <2> HIDE DEF ToStep, ts, text
  <2> QED BY <2>1, <2>2, <2>6, SaysNext DEF ts
<1> QED BY <1>6, <1>7

(* After a pause the next number is computed from the last two.            *)
LEMMA FibonacciStepFollows ==
  ASSUME NEW r \in Requests(Word, Word), r.route = "fibonacci", r.n > 1,
         NEW start \in Word, ScriptFits(r, start),
         NEW heap \in Heaps, heap.kind = "Fibonacci", heap.n = r.n,
         NEW i \in 1 .. r.n, i < r.n, heap.index = i,
         heap.a = fib[i - 1], heap.b = fib[i], heap.delay_ms = 5 * i
  PROVE  Follows(r, start, i, start + 5 * Triangle(i - 1),
                 Advance(<<State("FibonacciTaskStep")>>, heap))
<1> DEFINE n    == r.n
           ts   == start + 5 * Triangle(i - 1)
           out  == Advance(<<State("FibonacciTaskStep")>>, heap)
           new  == [heap EXCEPT !.index = Wrap(i + 1), !.a = heap.b,
                                !.b = Wrap(heap.a + heap.b)]
           ToCalculate == <<State("FibonacciTaskCalculate")>>
<1>1. n \in Nat /\ start \in Nat /\ n > 1 /\ n \in Word
  BY Literals DEF Requests
<1>2. /\ "FibonacciTaskStep" \in TaskStates
      /\ LocalVarsCount["FibonacciTaskStep"] = 0
      /\ ToCalculate \in Seq(StackEntries)
  BY OneState DEF TaskStates, LocalVarsCount
<1>3. global_step("FibonacciTaskStep", <<>>, heap) =
        StepResult("Sleep", 5 * i, NoText, ToCalculate, new)
  BY DEF global_step, FibonacciTaskStep, StepSleep
<1>4. out = Outcome("Sleep", 5 * i, NoText, ToCalculate, new)
  <2> HIDE DEF ToCalculate, new
  <2> QED BY <1>2, <1>3, OneStateAdvances
<1>5. i + 1 \in 1 .. n /\ (i + 1) - 1 = i BY <1>1
<1>6. start + 5 * Triangle(i) \in Word /\ fib[i + 1] \in Word
  BY <1>5, FibonacciFits
<1>7. Wrap(i + 1) = i + 1
  <2>1. i + 1 \in Nat /\ i + 1 < WORD
    BY <1>1, <1>5, WordAssumption DEF Word
  <2> QED BY <2>1, WrapIs
<1>8. Wrap(heap.a + heap.b) = fib[i + 1]
  <2>1. /\ fib[i - 1] \in Nat
        /\ fib[(i - 1) + 2] = fib[(i - 1) + 1] + fib[i - 1]
    <3>1. i - 1 \in Nat OBVIOUS
    <3> QED BY <3>1, FibonacciIs
  <2>2. (i - 1) + 2 = i + 1 /\ (i - 1) + 1 = i /\ i \in Nat OBVIOUS
  <2>3. fib[i] \in Nat BY <2>2, FibonacciIs
  <2>4. heap.a + heap.b = fib[i + 1] BY <2>1, <2>2, <2>3
  <2>5. fib[i + 1] \in Nat /\ fib[i + 1] < WORD
    BY <1>6, WordAssumption DEF Word
  <2> QED BY <2>4, <2>5, WrapIs
<1>9. /\ new.kind = "Fibonacci" /\ new.n = n /\ new.index = i + 1
      /\ new.a = fib[i] /\ new.b = fib[i + 1]
  <2>1. /\ new.kind = "Fibonacci" /\ new.n = heap.n
        /\ new.index = Wrap(i + 1) /\ new.a = heap.b
        /\ new.b = Wrap(heap.a + heap.b)
    BY FibonacciHeap
  <2> HIDE DEF new
  <2> QED BY <1>7, <1>8, <2>1
<1> HIDE DEF new
<1>10. ts + 5 * i = start + 5 * Triangle(i)
  <2>1. i - 1 \in Nat /\ (i - 1) + 1 = i OBVIOUS
  <2>2. Triangle(i) = Triangle(i - 1) + i /\ Triangle(i - 1) \in Nat
    BY <2>1, TriangleIs
  <2> QED BY <1>1, <2>2
<1>11. ts + 5 * i < WORD BY <1>6, <1>10, WordAssumption DEF Word
<1> HIDE DEF ts
<1>12. OnFibonacci(n, start, i, ToCalculate, new, ts + 5 * i)
  <2>1. new.index \in 1 .. n /\ new.index - 1 = i BY <1>5, <1>9
  <2> QED BY <1>1, <1>9, <1>10, <2>1 DEF OnFibonacci
<1>13. OnScript(r, start, i, ToCalculate, new, ts + 5 * i)
  BY <1>12 DEF OnScript
<1> HIDE DEF ToCalculate
<1> QED BY <1>4, <1>11, <1>13, GoesOn DEF ts

LEMMA FibonacciResultFollows ==
  ASSUME NEW r \in Requests(Word, Word), r.route = "fibonacci", r.n > 1,
         NEW start \in Word, ScriptFits(r, start),
         NEW heap \in Heaps, heap.kind = "Fibonacci", heap.n = r.n,
         heap.b = fib[r.n]
  PROVE  Follows(r, start, r.n - 1, start + 5 * Triangle(r.n - 1),
                 Advance(<<State("FibonacciTaskResult")>>, heap))
<1> DEFINE n    == r.n
           ts   == start + 5 * Triangle(n - 1)
           text == FibonacciResult(n, fib[n])
           ToCompleted == <<State("Completed")>>
<1>1. n \in Nat /\ start \in Nat /\ n > 1 BY Literals DEF Requests
<1>2. Script(r, start) = FibonacciScript(n, start) BY DEF Script
<1>3. /\ "FibonacciTaskResult" \in TaskStates
      /\ LocalVarsCount["FibonacciTaskResult"] = 0
      /\ ToCompleted \in Seq(StackEntries)
  BY OneState DEF TaskStates, LocalVarsCount
<1>4. global_step("FibonacciTaskResult", <<>>, heap) =
        StepResult("Write", 0, text, ToCompleted, heap)
  BY DEF global_step, FibonacciTaskResult, StepWrite
<1>5. Advance(<<State("FibonacciTaskResult")>>, heap) =
        Outcome("Write", 0, text, ToCompleted, heap)
  <2> HIDE DEF ToCompleted, text
  <2> QED BY <1>3, <1>4, OneStateAdvances
<1>6. /\ n - 1 \in Nat /\ IsScript(Script(r, start), (n - 1) + 1)
      /\ Script(r, start)[(n - 1) + 1] = Said(ts, text)
  <2>1. n - 1 \in Nat /\ (n - 1) + 1 = n BY <1>1
  <2> HIDE DEF n
  <2> QED BY <1>1, <1>2, <2>1, FibonacciScriptIs
<1> HIDE DEF ts, text
<1> QED BY <1>5, <1>6, SaysLast DEF ts

LEMMA FibonacciFollows ==
  ASSUME NEW r \in Requests(Word, Word), r.route = "fibonacci",
         NEW start \in Word, ScriptFits(r, start),
         NEW k \in Nat,
         NEW stack \in Seq(StackEntries), NEW heap \in Heaps,
         NEW ts \in Word, OnFibonacci(r.n, start, k, stack, heap, ts)
  PROVE  Follows(r, start, k, ts, Advance(stack, heap))
<1>1. heap.kind = "Fibonacci" /\ heap.n = r.n BY DEF OnFibonacci
<1>2. CASE stack = <<State("FibonacciTaskBegin")>> /\ k = 0 /\ ts = start
  BY <1>1, <1>2, FibonacciBeginFollows
<1>3. CASE /\ heap.index \in 1 .. r.n /\ r.n > 1
           /\ ts = start + 5 * Triangle(heap.index - 1)
           /\ heap.a = fib[heap.index - 1] /\ heap.b = fib[heap.index]
  <2>1. CASE /\ stack = <<State("FibonacciTaskCalculate")>>
             /\ k = heap.index - 1
    BY <1>1, <1>3, <2>1, FibonacciCalculateFollows
  <2>2. CASE /\ stack = <<State("FibonacciTaskStep")>>
             /\ k = heap.index /\ heap.index < r.n
             /\ heap.delay_ms = 5 * heap.index
    BY <1>1, <1>3, <2>2, FibonacciStepFollows
  <2>3. CASE /\ stack = <<State("FibonacciTaskResult")>>
             /\ heap.index = r.n /\ k = r.n - 1
    BY <1>1, <1>3, <2>3, FibonacciResultFollows
  <2> QED BY <1>2, <2>1, <2>2, <2>3 DEF OnFibonacci
<1> QED BY <1>2, <1>3 DEF OnFibonacci

-----------------------------------------------------------------------------
(* One step on the script of the factorial.                                *)

(* When level v of the recursion calls.                                    *)
CalledAt(n, start, v) == start + 50 * (Triangle(n) - Triangle(v))

(* What a script of the factorial holds, when it fits.                     *)
LEMMA FactorialFits ==
  ASSUME NEW r \in Requests(Word, Word), r.route = "factorial",
         NEW start \in Word, ScriptFits(r, start)
  PROVE  LET n == r.n
         IN /\ n \in Nat /\ start \in Nat
            /\ Levels(n) \in Nat \ {0}
            /\ IsScript(Script(r, start), Levels(n) + 1)
            /\ \A j \in 1 .. Levels(n) :
                 /\ Script(r, start)[j] =
                      Said(CalledAt(n, start, n + 1 - j),
                           FactorialCall(n + 1 - j))
                 /\ CalledAt(n, start, n + 1 - j) \in Word
            /\ Script(r, start)[Levels(n) + 1] =
                 Said(CalledAt(n, start, 0), FactorialResult(n, factorial[n]))
            /\ CalledAt(n, start, 0) \in Word /\ factorial[n] \in Word
<1> DEFINE n == r.n
           At(v) == CalledAt(n, start, v)
           script == Script(r, start)
<1>1. n \in Nat /\ start \in Nat BY Literals DEF Requests
<1>2. script = FactorialScript(n, start) BY DEF Script
<1> HIDE DEF n, script
<1>3. /\ Levels(n) \in Nat \ {0}
      /\ IsScript(script, Levels(n) + 1)
      /\ \A j \in 1 .. Levels(n) :
           script[j] = Said(At(n + 1 - j), FactorialCall(n + 1 - j))
      /\ script[Levels(n) + 1] =
           Said(At(0), FactorialResult(n, factorial[n]))
  BY <1>1, <1>2, FactorialScriptIs DEF CalledAt
<1> HIDE DEF At
<1>4. ASSUME NEW j \in 1 .. Levels(n) PROVE At(n + 1 - j) \in Word
  <2>1. j \in 1 .. Levels(n) + 1 BY <1>3
  <2> DEFINE at == At(n + 1 - j)
             text == FactorialCall(n + 1 - j)
  <2>2. script[j] = Said(at, text) BY <1>3
  <2> HIDE DEF at, text
  <2>3. at \in Word BY <1>3, <2>1, <2>2, Fits DEF script
  <2> QED BY <2>3 DEF at
<1>5. At(0) \in Word /\ FactorialResult(n, factorial[n]) \in Texts
  <2>1. Levels(n) + 1 \in 1 .. Levels(n) + 1 BY <1>3
  <2> QED BY <1>3, <2>1, Fits DEF script
<1>6. factorial[n] \in Word BY <1>5, TextWords
<1> QED BY <1>1, <1>3, <1>4, <1>5, <1>6 DEF n, script, At

(* The next level calls 50 ms times the argument later; after the last     *)
(* one there is no other.                                                  *)
LEMMA NextCall ==
  ASSUME NEW n \in Nat, NEW start \in Nat, NEW m \in 2 .. Levels(n) + 1
  PROVE  LET v    == n + 2 - m
             next == CalledAt(n, start, v) + 50 * v
         IN /\ v \in 0 .. n /\ Levels(n) \in Nat
            /\ v > 1 => m \in 2 .. Levels(n) /\ m <= n /\ Levels(n) = n
                        /\ next = CalledAt(n, start, n + 1 - m)
            /\ ~(v > 1) => m = Levels(n) + 1
                           /\ next = CalledAt(n, start, 0)
            /\ CalledAt(n, start, v) \in Nat
<1> DEFINE v == n + 2 - m
           T(i) == Triangle(i)
<1>1. /\ Levels(n) \in Nat /\ (n = 0 => Levels(n) = 1)
      /\ (n # 0 => Levels(n) = n)
  BY DEF Levels
<1>2. v \in 0 .. n /\ v \in Nat BY <1>1
<1>3. v > 1 => m <= n /\ Levels(n) = n /\ m \in 2 .. Levels(n)
  BY <1>1
<1>4. ~(v > 1) => m = Levels(n) + 1 BY <1>1
<1>5. /\ T(n) \in Nat /\ T(v) \in Nat /\ T(0) = 0
      /\ v >= 1 => T(v) = T(v - 1) + v /\ T(v - 1) \in Nat
  <2>1. v >= 1 => v - 1 \in Nat /\ (v - 1) + 1 = v BY <1>2
  <2> HIDE DEF v
  <2> QED BY <1>2, <2>1, TriangleIs
<1>6. T(v) <= T(n)
  <2> DEFINE f == [i \in Nat |-> Triangle(i)]
  <2>1. \A i \in Nat : f[i] \in Nat /\ f[i] <= f[i + 1]
    <3>1. ASSUME NEW i \in Nat
          PROVE  f[i] \in Nat /\ f[i] <= f[i + 1]
      <4>1. f[i] = Triangle(i) /\ f[i + 1] = Triangle(i + 1) OBVIOUS
      <4>2. Triangle(i) \in Nat /\ Triangle(i + 1) = Triangle(i) + (i + 1)
        BY TriangleIs
      <4> QED BY <4>1, <4>2
    <3> QED BY <3>1
  <2>2. f[v] = T(v) /\ f[n] = T(n) BY <1>2
  <2> HIDE DEF f, T, v
  <2>3. f[v] <= f[n] BY <1>2, <2>1, Grows
  <2> QED BY <2>2, <2>3
<1>7. v > 1 => CalledAt(n, start, v) + 50 * v = CalledAt(n, start, v - 1)
  <2> HIDE DEF v
  <2> QED BY <1>2, <1>5 DEF CalledAt
<1>8. v > 1 => v - 1 = n + 1 - m OBVIOUS
<1>9. ~(v > 1) => CalledAt(n, start, v) + 50 * v = CalledAt(n, start, 0)
  <2> HIDE DEF v
  <2>1. CASE v = 0 BY <1>5, <2>1 DEF CalledAt
  <2>2. CASE v = 1
    <3>1. v - 1 = 0 BY <2>2
    <3>2. T(1) = 1 BY <1>5, <2>2, <3>1
    <3> HIDE DEF T
    <3>3. T(v) = 1 BY <2>2, <3>2
    <3>4. start + 50 * (T(n) - T(v)) + 50 * v = start + 50 * (T(n) - T(0))
      BY <1>5, <2>2, <3>3
    <3> QED BY <3>4 DEF CalledAt, T
  <2> QED BY <1>2, <2>1, <2>2
<1>10. CalledAt(n, start, v) \in Nat
  <2> HIDE DEF v, T
  <2>1. start + 50 * (T(n) - T(v)) \in Nat BY <1>5, <1>6
  <2> QED BY <2>1 DEF CalledAt, T
<1> HIDE DEF v
<1>11. v > 1 => CalledAt(n, start, v) + 50 * v = CalledAt(n, start, n + 1 - m)
  BY <1>7, <1>8
<1> QED BY <1>1, <1>2, <1>3, <1>4, <1>9, <1>10, <1>11 DEF v

(* A level in one of its first three states: where it is on the script.    *)
OnCall(n, start, k, stack, m, ts) ==
  LET Top(s) == stack[Len(stack)] = State(s)
      v      == n + 2 - m
  IN /\ m \in 2 .. Levels(n) + 1
     /\ CallShape(stack, m) /\ Arguments(stack, n, m)
     /\ \/ /\ Top("FactorialRecursiveCall")
           /\ k = m - 2 /\ ts = CalledAt(n, start, v)
        \/ /\ Top("FactorialRecursionPostWrite")
           /\ k = m - 1 /\ ts = CalledAt(n, start, v)
        \/ /\ Top("FactorialRecursionPostSleep")
           /\ k = m - 1 /\ ts = CalledAt(n, start, v) + 50 * v

OnReturn(n, start, k, stack, m, ts) ==
  /\ m \in 2 .. n
  /\ ReturnShape(stack, m) /\ Arguments(stack, n, m)
  /\ stack[2 * m].value = factorial[n + 1 - m]
  /\ k = Levels(n) /\ ts = CalledAt(n, start, 0)

OnDone(n, start, k, stack, ts) ==
  /\ DoneShape(stack) /\ stack[1].value = n
  /\ stack[2].value = factorial[n]
  /\ k = Levels(n) /\ ts = CalledAt(n, start, 0)

LEMMA OnFactorialIs ==
  ASSUME NEW n, NEW start, NEW k, NEW stack, NEW ts
  PROVE  OnFactorial(n, start, k, stack, ts) <=>
           \/ EntryShape(stack) /\ stack[1].value = n /\ k = 0 /\ ts = start
           \/ OnDone(n, start, k, stack, ts)
           \/ \E m : OnCall(n, start, k, stack, m, ts)
           \/ \E m : OnReturn(n, start, k, stack, m, ts)
BY DEF OnFactorial, OnDone, OnCall, OnReturn, CalledAt

LEMMA FactorialOnScript ==
  ASSUME NEW r, r.route = "factorial", NEW start, NEW k, NEW stack, NEW heap,
         NEW ts,
         \/ OnDone(r.n, start, k, stack, ts)
         \/ \E m : OnCall(r.n, start, k, stack, m, ts)
         \/ \E m : OnReturn(r.n, start, k, stack, m, ts)
  PROVE  OnScript(r, start, k, stack, heap, ts)
BY OnFactorialIs DEF OnScript

(* The arguments stay when what is on top of them changes.                 *)
LEMMA SameArguments ==
  ASSUME NEW stack, NEW new, NEW n, NEW m \in Nat, m >= 1,
         Arguments(stack, n, m),
         \A i \in 1 .. 2 * m - 1 : new[i] = stack[i]
  PROVE  Arguments(new, n, m)
<1>1. \A j \in 2 .. m : 2 * j - 1 \in 1 .. 2 * m - 1 OBVIOUS
<1>2. 1 \in 1 .. 2 * m - 1 OBVIOUS
<1> QED BY <1>1, <1>2 DEF Arguments

LEMMA EntryFollows ==
  ASSUME NEW r \in Requests(Word, Word), r.route = "factorial",
         NEW start \in Word, ScriptFits(r, start),
         NEW stack \in Seq(StackEntries), NEW heap \in Heaps,
         EntryShape(stack), stack[1].value = r.n
  PROVE  Follows(r, start, 0, start, Advance(stack, heap))
<1> DEFINE n   == r.n
           new == EntryCalls(stack)
<1>1. /\ n \in Nat /\ start \in Nat /\ Levels(n) \in Nat \ {0}
  BY FactorialFits
<1>2. /\ Advance(stack, heap) = Outcome("Next", 0, NoText, new, heap)
      /\ Len(new) = 4 /\ CallShape(new, 2)
  BY EntryAdvances
<1>3. /\ new[1] = stack[1] /\ new[3].value = n
      /\ new[4] = State("FactorialRecursiveCall")
  BY DEF EntryCalls, Value
<1> HIDE DEF new
<1>4. Arguments(new, n, 2)
  <2>1. \A j \in 2 .. 2 : 2 * j - 1 = 3 /\ n + 2 - j = n BY <1>1
  <2> QED BY <1>3, <2>1 DEF Arguments
<1>5. CalledAt(n, start, n + 2 - 2) = start
  <2>1. n + 2 - 2 = n BY <1>1
  <2>2. Triangle(n) \in Nat BY <1>1, TriangleIs
  <2>3. start + 50 * (Triangle(n) - Triangle(n)) = start BY <1>1, <2>2
  <2> QED BY <2>1, <2>3 DEF CalledAt
<1>6. 2 \in 2 .. Levels(n) + 1 /\ 0 = 2 - 2 BY <1>1
<1>7. OnCall(n, start, 0, new, 2, start)
  BY <1>2, <1>3, <1>4, <1>5, <1>6 DEF OnCall
<1>8. OnScript(r, start, 0, new, heap, start) BY <1>7, FactorialOnScript
<1> QED BY <1>2, <1>8, GoesOnAtOnce

LEMMA DoneFollows ==
  ASSUME NEW r \in Requests(Word, Word), r.route = "factorial",
         NEW start \in Word, ScriptFits(r, start),
         NEW k, NEW stack \in Seq(StackEntries), NEW heap \in Heaps,
         NEW ts, OnDone(r.n, start, k, stack, ts)
  PROVE  Follows(r, start, k, ts, Advance(stack, heap))
<1> DEFINE n == r.n
           text == FactorialResult(n, factorial[n])
<1>1. /\ Levels(n) \in Nat \ {0}
      /\ IsScript(Script(r, start), Levels(n) + 1)
      /\ Script(r, start)[Levels(n) + 1] = Said(CalledAt(n, start, 0), text)
  BY FactorialFits
<1>2. Advance(stack, heap) =
        Outcome("Write", 0, text, <<State("Completed")>>, heap)
  BY DoneAdvances DEF OnDone
<1>3. k = Levels(n) /\ k \in Nat /\ ts = CalledAt(n, start, 0)
  BY <1>1 DEF OnDone
<1> HIDE DEF text
<1>4. Script(r, start)[k + 1] = Said(ts, text) BY <1>1, <1>3
<1>5. IsScript(Script(r, start), k + 1) BY <1>1, <1>3
<1> QED BY <1>2, <1>3, <1>4, <1>5, SaysLast

(* The value v! is returned to the caller of level v.                      *)
LEMMA ReturnFollows ==
  ASSUME NEW r \in Requests(Word, Word), r.route = "factorial",
         NEW start \in Word, ScriptFits(r, start), NEW heap,
         NEW stack, NEW m \in 2 .. Levels(r.n) + 1,
         Arguments(stack, r.n, m), NEW new,
         ReturnsTo(stack, m - 1,
                   Value("FactorialReturnValue", factorial[r.n + 2 - m]), new)
  PROVE  Follows(r, start, Levels(r.n), CalledAt(r.n, start, 0),
                 Outcome("Next", 0, NoText, new, heap))
<1> DEFINE n  == r.n
           ts == CalledAt(n, start, 0)
           L  == Levels(n)
           k  == m - 1
           v  == Value("FactorialReturnValue", factorial[n + 2 - m])
<1>1. n \in Nat /\ L \in Nat \ {0} /\ ts \in Word BY FactorialFits
<1>2. v.value = factorial[n + 2 - m] BY DEF Value
<1>3. m \in Nat /\ k \in Nat \ {0} BY <1>1
<1>4. new[1] = stack[1] /\ new[2 * k] = v
  <2>1. 1 \in 1 .. 2 * k - 1 BY <1>3
  <2> HIDE DEF k, v
  <2> QED BY <2>1 DEF ReturnsTo, k, v
<1>5. CASE k = 1
  <2>1. DoneShape(new) BY <1>5 DEF ReturnsTo
  <2>2. n + 2 - m = n /\ 2 * k = 2 BY <1>1, <1>5
  <2>3. new[2].value = factorial[n]
    <3> HIDE DEF k, v
    <3> QED BY <1>2, <1>4, <2>2
  <2>4. OnDone(n, start, L, new, ts)
    BY <1>4, <2>1, <2>3 DEF OnDone, Arguments
  <2>5. OnScript(r, start, L, new, heap, ts) BY <2>4, FactorialOnScript
  <2> HIDE DEF ts
  <2> QED BY <1>1, <2>5, GoesOnAtOnce DEF ts
<1>6. CASE k >= 2
  <2>1. ReturnShape(new, k) BY <1>6 DEF ReturnsTo
  <2>2. k \in 2 .. n /\ n + 1 - k = n + 2 - m
    <3>1. n >= 2 => L = n BY DEF Levels
    <3>2. n <= 1 => L = 1 BY <1>1 DEF Levels
    <3> QED BY <1>1, <1>6, <3>1, <3>2
  <2>3. Arguments(stack, n, k) BY <1>1 DEF Arguments
  <2>4. \A i \in 1 .. 2 * k - 1 : new[i] = stack[i] BY DEF ReturnsTo
  <2> HIDE DEF k, v
  <2>5. Arguments(new, n, k)
    <3>1. k \in Nat /\ k >= 1 BY <1>3
    <3> QED BY <2>3, <2>4, <3>1, SameArguments
  <2>6. new[2 * k].value = factorial[n + 1 - k] BY <1>2, <1>4, <2>2
  <2>7. OnReturn(n, start, L, new, k, ts)
    BY <2>1, <2>2, <2>5, <2>6 DEF OnReturn
  <2>8. OnScript(r, start, L, new, heap, ts) BY <2>7, FactorialOnScript
  <2> HIDE DEF ts
  <2> QED BY <1>1, <2>8, GoesOnAtOnce DEF ts
<1> QED BY <1>3, <1>5, <1>6

LEMMA MultiplyFollows ==
  ASSUME NEW r \in Requests(Word, Word), r.route = "factorial",
         NEW start \in Word, ScriptFits(r, start),
         NEW k, NEW stack \in Seq(StackEntries), NEW heap \in Heaps,
         NEW ts, NEW m, OnReturn(r.n, start, k, stack, m, ts)
  PROVE  Follows(r, start, k, ts, Advance(stack, heap))
<1> DEFINE n == r.n
           x == stack[2 * m].value
           y == stack[2 * m - 1].value
           v == Value("FactorialReturnValue", Wrap(x * y))
<1>1. n \in Nat /\ Levels(n) \in Nat \ {0} /\ factorial[n] \in Word
  BY FactorialFits
<1>2. /\ m \in 2 .. n /\ m \in Nat /\ m >= 2
      /\ ReturnShape(stack, m) /\ Arguments(stack, n, m)
      /\ x = factorial[n + 1 - m]
      /\ k = Levels(n) /\ ts = CalledAt(n, start, 0)
  BY <1>1 DEF OnReturn
<1>3. y = n + 2 - m
  <2>1. m \in 2 .. m BY <1>2
  <2> QED BY <1>2, <2>1 DEF Arguments
<1> HIDE DEF x, y
<1>4. \E new : /\ Advance(stack, heap) = Outcome("Next", 0, NoText, new, heap)
               /\ ReturnsTo(stack, m - 1, v, new)
  BY <1>2, MultiplyAdvances DEF x, y
<1>5. Wrap(x * y) = factorial[n + 2 - m]
  <2> DEFINE j == n + 1 - m
  <2>1. j \in Nat /\ j + 1 = n + 2 - m /\ j + 1 \in 0 .. n BY <1>1, <1>2
  <2> HIDE DEF j
  <2>2. factorial[j] \in Nat /\ factorial[j + 1] = (j + 1) * factorial[j]
    BY <2>1, FactorialIs
  <2>3. x = factorial[j] /\ y = j + 1 BY <1>2, <1>3, <2>1 DEF j
  <2>4. x * y = factorial[j + 1] BY <2>1, <2>2, <2>3
  <2>5. factorial[j + 1] \in Nat /\ factorial[j + 1] <= factorial[n]
    <3>1. j + 1 \in Nat BY <2>1
    <3>2. factorial[j + 1] \in Nat BY <3>1, FactorialIs
    <3> QED BY <1>1, <2>1, <3>2, FactorialGrows
  <2>6. factorial[j + 1] < WORD
    BY <1>1, <2>5, WordAssumption DEF Word
  <2>7. Wrap(factorial[j + 1]) = factorial[j + 1] BY <2>5, <2>6, WrapIs
  <2> QED BY <2>1, <2>4, <2>7
<1>6. PICK new :
        /\ Advance(stack, heap) = Outcome("Next", 0, NoText, new, heap)
        /\ ReturnsTo(stack, m - 1,
                     Value("FactorialReturnValue", factorial[n + 2 - m]), new)
  BY <1>4, <1>5
<1>7. m \in 2 .. Levels(n) + 1
  <2>1. Levels(n) = n BY <1>2 DEF Levels
  <2> QED BY <1>1, <1>2, <2>1
<1>8. Follows(r, start, Levels(n), CalledAt(n, start, 0),
              Outcome("Next", 0, NoText, new, heap))
  BY <1>2, <1>6, <1>7, ReturnFollows
<1> QED BY <1>2, <1>6, <1>8

LEMMA CallFollows ==
  ASSUME NEW r \in Requests(Word, Word), r.route = "factorial",
         NEW start \in Word, ScriptFits(r, start),
         NEW k \in Nat, NEW stack \in Seq(StackEntries), NEW heap \in Heaps,
         NEW ts \in Word, NEW m, OnCall(r.n, start, k, stack, m, ts)
  PROVE  Follows(r, start, k, ts, Advance(stack, heap))
<1> DEFINE n == r.n
           L == Levels(n)
           v == n + 2 - m
           At(i) == CalledAt(n, start, i)
           script == Script(r, start)
           out == Advance(stack, heap)
           arg == stack[2 * m - 1].value
           state == stack[2 * m].state
           Top(s) == stack[2 * m] = State(s)
<1>1. /\ n \in Nat /\ start \in Nat /\ L \in Nat \ {0}
      /\ IsScript(script, L + 1)
      /\ \A j \in 1 .. L :
           /\ script[j] = Said(At(n + 1 - j), FactorialCall(n + 1 - j))
           /\ At(n + 1 - j) \in Word
      /\ At(0) \in Word
  BY FactorialFits
<1>2. /\ m \in 2 .. L + 1 /\ m \in Nat /\ m >= 2
      /\ CallShape(stack, m) /\ Arguments(stack, n, m)
      /\ Len(stack) = 2 * m
  BY <1>1 DEF OnCall, CallShape
<1>3. /\ \/ /\ Top("FactorialRecursiveCall")
            /\ k = m - 2 /\ ts = At(v)
         \/ /\ Top("FactorialRecursionPostWrite")
            /\ k = m - 1 /\ ts = At(v)
         \/ /\ Top("FactorialRecursionPostSleep")
            /\ k = m - 1 /\ ts = At(v) + 50 * v
  BY <1>2 DEF OnCall
<1>4. /\ v \in 0 .. n
      /\ v > 1 => m \in 2 .. L /\ m <= n /\ L = n
                  /\ At(v) + 50 * v = At(n + 1 - m)
      /\ ~(v > 1) => m = L + 1 /\ At(v) + 50 * v = At(0)
      /\ At(v) \in Nat
  <2> HIDE DEF n
  <2> QED BY <1>1, <1>2, NextCall
<1>5. arg = v
  <2>1. m \in 2 .. m BY <1>2
  <2> QED BY <1>2, <2>1 DEF Arguments
<1>6. PICK new : CallAdvancesTo(stack, heap, m, state, arg, out, new)
  BY <1>2, CallAdvances
<1>7. \A s : Top(s) => state = s BY DEF State
<1>8. ASSUME NEW s, NEW k1, NEW ts1, SameLevel(stack, m, s, new),
             \/ /\ s = "FactorialRecursionPostWrite"
                /\ k1 = m - 1 /\ ts1 = At(v)
             \/ /\ s = "FactorialRecursionPostSleep"
                /\ k1 = m - 1 /\ ts1 = At(v) + 50 * v
      PROVE  OnScript(r, start, k1, new, heap, ts1)
  <2>1. /\ CallShape(new, m) /\ new[2 * m] = State(s)
        /\ Len(new) = 2 * m
    BY <1>8 DEF SameLevel, CallShape
  <2>2. Arguments(new, n, m)
    <3>1. m \in Nat /\ m >= 1 BY <1>2
    <3>2. \A i \in 1 .. 2 * m - 1 : new[i] = stack[i]
      BY <1>8 DEF SameLevel
    <3> QED BY <1>2, <3>1, <3>2, SameArguments
  <2>3. OnCall(n, start, k1, new, m, ts1)
    BY <1>2, <1>8, <2>1, <2>2 DEF OnCall
  <2> QED BY <2>3, FactorialOnScript
<1>9. At(v) + 50 * v \in Word
  <2>1. CASE v > 1
    <3>1. m \in 1 .. L BY <1>2, <1>4, <2>1
    <3> QED BY <1>1, <1>4, <2>1, <3>1
  <2>2. CASE ~(v > 1) BY <1>1, <1>4, <2>2
  <2> QED BY <2>1, <2>2
<1> HIDE DEF arg, state, out, v, L, At, script
<1>10. CASE Top("FactorialRecursiveCall")
  <2>1. k = m - 2 /\ ts = At(v) BY <1>3, <1>10 DEF State
  <2>2. /\ out = Outcome("Write", 0, FactorialCall(v), new, heap)
        /\ SameLevel(stack, m, "FactorialRecursionPostWrite", new)
    BY <1>5, <1>6, <1>7, <1>10 DEF CallAdvancesTo
  <2>3. k + 1 = m - 1 /\ k + 1 \in 1 .. L /\ n + 1 - (k + 1) = v
    BY <1>1, <1>2, <2>1 DEF v
  <2>4. script[k + 1] = Said(ts, FactorialCall(v))
    <3> DEFINE j == k + 1
    <3>1. script[j] = Said(At(n + 1 - j), FactorialCall(n + 1 - j))
      BY <1>1, <2>3
    <3>2. n + 1 - j = v BY <2>3
    <3> HIDE DEF j
    <3> QED BY <2>1, <3>1, <3>2 DEF j
  <2>5. k < Len(script)
    <3>1. Len(script) = L + 1 BY <1>1 DEF IsScript
    <3> QED BY <1>1, <2>3, <3>1
  <2>6. OnScript(r, start, k + 1, new, heap, ts)
    BY <1>8, <2>1, <2>2, <2>3
  <2>7. Follows(r, start, k, ts, out)
    BY <2>2, <2>4, <2>5, <2>6, SaysNext DEF script
  <2> QED BY <2>7 DEF out
<1>11. CASE Top("FactorialRecursionPostWrite")
  <2>1. k = m - 1 /\ ts = At(v) BY <1>3, <1>11 DEF State
  <2>2. /\ out = Outcome("Sleep", Wrap(v * 50), NoText, new, heap)
        /\ SameLevel(stack, m, "FactorialRecursionPostSleep", new)
    BY <1>5, <1>6, <1>7, <1>11 DEF CallAdvancesTo
  <2>3. v \in Nat BY <1>1, <1>4
  <2>4. Wrap(v * 50) = 50 * v /\ ts + 50 * v < WORD
    <3>1. 50 * v = v * 50 /\ v * 50 \in Nat BY <2>3
    <3>2. At(v) + 50 * v < WORD BY <1>9, WordAssumption DEF Word
    <3>3. 50 * v < WORD BY <1>4, <2>3, <3>2, WordAssumption
    <3> QED BY <2>1, <3>1, <3>2, <3>3, WrapIs
  <2>5. OnScript(r, start, k, new, heap, ts + 50 * v)
    BY <1>8, <2>1, <2>2
  <2>6. out = Outcome("Sleep", 50 * v, NoText, new, heap)
    BY <2>2, <2>4
  <2>7. Follows(r, start, k, ts, out) BY <2>4, <2>5, <2>6, GoesOn
  <2> QED BY <2>7 DEF out
<1>12. CASE Top("FactorialRecursionPostSleep") /\ v > 1
  <2>1. k = m - 1 /\ ts = At(v) + 50 * v BY <1>3, <1>12 DEF State
  <2>2. /\ out = Outcome("Next", 0, NoText, new, heap)
        /\ NextLevel(stack, m, new)
    BY <1>5, <1>6, <1>7, <1>12 DEF CallAdvancesTo
  <2>3. /\ m + 1 \in 2 .. L + 1 /\ n + 2 - (m + 1) = v - 1
        /\ n + 1 - m = v - 1 /\ (m + 1) - 2 = m - 1
        /\ 2 * (m + 1) = 2 * m + 2 /\ 2 * (m + 1) - 1 = 2 * m + 1
    BY <1>1, <1>2, <1>4, <1>12 DEF v
  <2>4. /\ CallShape(new, m + 1) /\ Len(new) = 2 * m + 2
        /\ new[2 * m + 2] = State("FactorialRecursiveCall")
        /\ new[2 * m + 1].value = v - 1
    <3>1. stack[2 * m - 1].value = v BY <1>5 DEF arg
    <3> QED BY <2>2, <2>3, <3>1 DEF NextLevel, CallShape, Value
  <2>5. Arguments(new, n, m + 1)
    <3>1. m \in Nat /\ m >= 1 BY <1>2
    <3>2. \A i \in 1 .. 2 * m - 1 : new[i] = stack[i]
      BY <2>2 DEF NextLevel
    <3>3. Arguments(new, n, m) BY <1>2, <3>1, <3>2, SameArguments
    <3>4. ASSUME NEW j \in 2 .. m + 1
          PROVE  new[2 * j - 1].value = n + 2 - j
      <4>1. CASE j = m + 1 BY <2>3, <2>4, <4>1
      <4>2. CASE j # m + 1
        <5>1. j \in 2 .. m BY <1>2, <4>2
        <5> QED BY <3>3, <5>1 DEF Arguments
      <4> QED BY <4>1, <4>2
    <3> QED BY <3>3, <3>4 DEF Arguments
  <2>6. ts = At(v - 1) BY <1>4, <1>12, <2>1, <2>3
  <2>7. OnCall(n, start, k, new, m + 1, ts)
    BY <2>1, <2>3, <2>4, <2>5, <2>6 DEF OnCall, At, L
  <2>8. OnScript(r, start, k, new, heap, ts) BY <2>7, FactorialOnScript
  <2>9. Follows(r, start, k, ts, out) BY <2>2, <2>8, GoesOnAtOnce
  <2> QED BY <2>9 DEF out
<1>13. CASE Top("FactorialRecursionPostSleep") /\ ~(v > 1)
  <2>1. k = m - 1 /\ ts = At(v) + 50 * v BY <1>3, <1>13 DEF State
  <2>2. /\ out = Outcome("Next", 0, NoText, new, heap)
        /\ ReturnsTo(stack, m - 1, Value("FactorialReturnValue", 1), new)
    BY <1>5, <1>6, <1>7, <1>13 DEF CallAdvancesTo
  <2>3. factorial[n + 2 - m] = 1
    <3>1. v \in {0, 1} BY <1>1, <1>4, <1>13
    <3>2. factorial[0] = 1 /\ factorial[0 + 1] = (0 + 1) * factorial[0]
      <4>1. 0 \in Nat OBVIOUS
      <4> QED BY <4>1, FactorialIs
    <3>3. factorial[0] = 1 /\ factorial[1] = 1 BY <3>2
    <3> QED BY <3>1, <3>3 DEF v
  <2>4. k = L /\ ts = At(0) BY <1>1, <1>4, <1>13, <2>1
  <2>5. ReturnsTo(stack, m - 1,
                  Value("FactorialReturnValue", factorial[n + 2 - m]), new)
    BY <2>2, <2>3
  <2>6. Follows(r, start, k, ts, out)
    BY <1>2, <2>2, <2>4, <2>5, ReturnFollows DEF L, At
  <2> QED BY <2>6 DEF out
<1> QED BY <1>3, <1>10, <1>11, <1>12, <1>13

LEMMA FactorialFollows ==
  ASSUME NEW r \in Requests(Word, Word), r.route = "factorial",
         NEW start \in Word, ScriptFits(r, start),
         NEW k \in Nat,
         NEW stack \in Seq(StackEntries), NEW heap \in Heaps,
         NEW ts \in Word, OnFactorial(r.n, start, k, stack, ts)
  PROVE  Follows(r, start, k, ts, Advance(stack, heap))
<1>1. \/ EntryShape(stack) /\ stack[1].value = r.n /\ k = 0 /\ ts = start
      \/ OnDone(r.n, start, k, stack, ts)
      \/ \E m : OnCall(r.n, start, k, stack, m, ts)
      \/ \E m : OnReturn(r.n, start, k, stack, m, ts)
  BY OnFactorialIs
<1> QED
  BY <1>1, EntryFollows, DoneFollows, CallFollows, MultiplyFollows

(* A task on its script stays on it: stepping it goes on without saying    *)
(* anything, says the next text when it is due, or ends with the script.   *)
THEOREM StepOnScript ==
  ASSUME NEW r \in Requests(Word, Word), NEW start \in Word,
         ScriptFits(r, start), NEW k \in Nat,
         NEW stack \in Seq(StackEntries), NEW heap \in Heaps,
         NEW ts \in Word, OnScript(r, start, k, stack, heap, ts)
  PROVE  Follows(r, start, k, ts, Advance(stack, heap))
<1>1. CASE stack = <<State("Completed")>> /\ k = Len(Script(r, start))
  <2>1. /\ "Completed" \in TaskStates
        /\ LocalVarsCount["Completed"] = 0
        /\ <<>> \in Seq(StackEntries)
    BY DEF TaskStates, LocalVarsCount
  <2>2. global_step("Completed", <<>>, heap) =
          StepResult("Done", 0, NoText, <<>>, heap)
    BY DEF global_step, StepDone
  <2>3. Advance(stack, heap) = Outcome("Done", 0, NoText, <<>>, heap)
    <3> DEFINE nothing == <<>>
    <3>1. /\ nothing \in Seq(StackEntries)
          /\ global_step("Completed", <<>>, heap) =
               StepResult("Done", 0, NoText, nothing, heap)
      BY <2>1, <2>2
    <3>2. <<>> = nothing OBVIOUS
    <3> HIDE DEF nothing
    <3>3. Advance(stack, heap) = Outcome("Done", 0, NoText, nothing, heap)
      BY <1>1, <2>1, <3>1, OneStateAdvances
    <3> QED BY <3>2, <3>3
  <2> QED BY <1>1, <2>3 DEF Follows, Outcome
<1>2. CASE r.route = "delay" /\ OnDelay(r, start, k, stack, ts)
  BY <1>2, DelayFollows
<1>3. CASE r.route = "divisors" /\ OnDivisors(r.n, start, k, stack, heap, ts)
  BY <1>3, DivisorsFollows
<1>4. CASE r.route = "fibonacci"
           /\ OnFibonacci(r.n, start, k, stack, heap, ts)
  BY <1>4, FibonacciFollows
<1>5. CASE r.route = "factorial" /\ OnFactorial(r.n, start, k, stack, ts)
  BY <1>5, FactorialFollows
<1> QED BY <1>1, <1>2, <1>3, <1>4, <1>5 DEF OnScript

(* A task starts at the beginning of its script.                           *)
LEMMA InitialOnScript ==
  ASSUME NEW r \in Requests(Word, Word), NEW start \in Word
  PROVE  OnScript(r, start, 0, InitialStack(r), InitialHeap(r), start)
<1>1. CASE r.route = "delay"
  <2>1. OnDelay(r, start, 0, InitialStack(r), start)
    BY <1>1 DEF OnDelay, InitialStack
  <2> QED BY <1>1, <2>1 DEF OnScript
<1>2. CASE r.route = "divisors"
  <2>1. /\ InitialStack(r) = <<State("DivisorsTaskBegin")>>
        /\ InitialHeap(r).kind = "Divisors" /\ InitialHeap(r).n = r.n
    BY <1>2 DEF InitialStack, InitialHeap
  <2>2. OnDivisors(r.n, start, 0, InitialStack(r), InitialHeap(r), start)
    BY <2>1 DEF OnDivisors
  <2> QED BY <1>2, <2>2 DEF OnScript
<1>3. CASE r.route = "fibonacci"
  <2>1. /\ InitialStack(r) = <<State("FibonacciTaskBegin")>>
        /\ InitialHeap(r).kind = "Fibonacci" /\ InitialHeap(r).n = r.n
    BY <1>3 DEF InitialStack, InitialHeap
  <2>2. OnFibonacci(r.n, start, 0, InitialStack(r), InitialHeap(r), start)
    BY <2>1 DEF OnFibonacci
  <2> QED BY <1>3, <2>2 DEF OnScript
<1>4. CASE r.route = "factorial"
  <2>1. InitialStack(r) =
          << Value("FactorialInput", r.n), State("FactorialEntry") >>
    BY <1>4 DEF InitialStack
  <2>2. EntryShape(InitialStack(r)) /\ InitialStack(r)[1].value = r.n
    BY <2>1 DEF EntryShape, IsValue, Value
  <2>3. OnFactorial(r.n, start, 0, InitialStack(r), start)
    BY <2>2 DEF OnFactorial
  <2> QED BY <1>4, <2>3 DEF OnScript
<1> QED BY <1>1, <1>2, <1>3, <1>4 DEF Requests

-----------------------------------------------------------------------------
(* The texts that announce a delay.                                       *)

IsDelayText(text) == text[1] = "Delayed by"

LEMMA DelayTexts ==
  /\ \A t, s : /\ IsDelayText(DelayedMessage(t, s))
               /\ DelayedMessage(t, s)[2] = t
  /\ \A n, d : ~IsDelayText(DivisorFound(n, d))
  /\ \A n : ~IsDelayText(DivisorsDone(n))
  /\ \A n, k, a : ~IsDelayText(FibonacciStep(n, k, a))
  /\ \A n, a : ~IsDelayText(FibonacciResult(n, a))
  /\ \A n : ~IsDelayText(FactorialCall(n))
  /\ \A n, a : ~IsDelayText(FactorialResult(n, a))
BY DEF IsDelayText, DelayedMessage, DivisorFound, DivisorsDone, FibonacciStep,
       FibonacciResult, FactorialCall, FactorialResult

(* None of the texts of the other scripts is the text of a delay.          *)
LEMMA OtherTexts ==
  ASSUME NEW n \in Nat, NEW start \in Nat,
         NEW script \in {DivisorsScript(n, start), FibonacciScript(n, start),
                         FactorialScript(n, start)},
         NEW j \in 1 .. Len(script)
  PROVE  ~IsDelayText(script[j].text)
<1>1. \A at, text : Said(at, text).text = text
  BY DEF Said
<1>2. CASE script = DivisorsScript(n, start)
  <2> DEFINE count == Cardinality(DivisorsOf(n))
             due == DivisorsDue(n, start)
             all == DivisorsScript(n, start)
  <2>1. /\ count \in Nat
        /\ IsScript(all, count + 1)
        /\ \A k \in 1 .. count :
             all[k] = Said(due[k], DivisorFound(n, NthDivisor(n, k)))
        /\ all[count + 1] = Said(due[count], DivisorsDone(n))
    BY DivisorsScriptIs
  <2> HIDE DEF count, due
  <2>2. j = count + 1 \/ j \in 1 .. count BY <1>2, <2>1 DEF IsScript
  <2> QED BY <1>1, <1>2, <2>1, <2>2, DelayTexts
<1>3. CASE script = FibonacciScript(n, start)
  <2> DEFINE all == FibonacciScript(n, start)
  <2>1. /\ n <= 1 => /\ IsScript(all, 1)
                     /\ all[1] = Said(start, FibonacciResult(n, n))
        /\ n > 1 =>
             /\ IsScript(all, n)
             /\ \A k \in 1 .. n - 1 :
                  all[k] = Said(start + 5 * Triangle(k - 1),
                                FibonacciStep(n, k, fib[k]))
             /\ all[n] = Said(start + 5 * Triangle(n - 1),
                              FibonacciResult(n, fib[n]))
    BY FibonacciScriptIs
  <2> HIDE DEF all
  <2>2. script = all BY <1>3 DEF all
  <2>3. CASE n <= 1
    <3>1. Len(script) = 1 BY <2>1, <2>2, <2>3 DEF IsScript
    <3>2. j = 1 BY <3>1
    <3> QED BY <1>1, <2>1, <2>2, <2>3, <3>2, DelayTexts
  <2>4. CASE n > 1
    <3>1. j = n \/ j \in 1 .. n - 1 BY <2>1, <2>2, <2>4 DEF IsScript
    <3> QED BY <1>1, <2>1, <2>2, <2>4, <3>1, DelayTexts
  <2> QED BY <2>3, <2>4
<1>4. CASE script = FactorialScript(n, start)
  <2> DEFINE m == Levels(n)
             all == FactorialScript(n, start)
  <2>1. /\ m \in Nat \ {0}
        /\ IsScript(all, m + 1)
        /\ \A k \in 1 .. m :
             all[k] = Said(start + 50 * (Triangle(n) - Triangle(n + 1 - k)),
                           FactorialCall(n + 1 - k))
        /\ all[m + 1] = Said(start + 50 * (Triangle(n) - Triangle(0)),
                             FactorialResult(n, factorial[n]))
    BY FactorialScriptIs
  <2> HIDE DEF m, all
  <2>2. script = all BY <1>4 DEF all
  <2>3. j = m + 1 \/ j \in 1 .. m BY <2>1, <2>2 DEF IsScript
  <2> QED BY <1>1, <2>1, <2>2, <2>3, DelayTexts
<1> QED BY <1>2, <1>3, <1>4

(* Only the script of a delay has the text "Delayed by", and it is due     *)
(* when it says.                                                           *)
LEMMA DelayedTextIsDue ==
  ASSUME NEW r \in Requests(Word, Word), NEW start \in Word,
         NEW j \in 1 .. Len(Script(r, start)),
         IsDelayText(Script(r, start)[j].text)
  PROVE  Script(r, start)[j].at = start + Script(r, start)[j].text[2]
<1>1. \A at, text : Said(at, text).text = text /\ Said(at, text).at = at
  BY DEF Said
<1>2. CASE r.route = "delay"
  <2>1. Script(r, start) = DelayScript(r.t, r.s, start) BY <1>2 DEF Script
  <2> DEFINE t == r.t
             s == r.s
             script == DelayScript(t, s, start)
  <2> HIDE DEF t, s
  <2>2. /\ IsScript(script, 1)
        /\ script[1] = Said(start + t, DelayedMessage(t, s))
    BY DelayScriptIs
  <2>3. Script(r, start) = script BY <2>1 DEF t, s
  <2> HIDE DEF script
  <2>4. j = 1 BY <2>2, <2>3 DEF IsScript
  <2> QED BY <1>1, <2>2, <2>3, <2>4, DelayTexts
<1>3. CASE r.route # "delay"
  <2>1. /\ r.n \in Word
        /\ Script(r, start) \in
             {DivisorsScript(r.n, start), FibonacciScript(r.n, start),
              FactorialScript(r.n, start)}
    BY <1>3 DEF Script, Requests
  <2>2. r.n \in Nat /\ start \in Nat BY <2>1, Literals
  <2> DEFINE n == r.n
             script == Script(r, start)
  <2> HIDE DEF n, script
  <2>3. ~IsDelayText(script[j].text)
    BY <2>1, <2>2, OtherTexts DEF n, script
  <2> QED BY <2>3 DEF script
<1> QED BY <1>2, <1>3
=============================================================================
