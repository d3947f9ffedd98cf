------------------------------ MODULE MCMaroon ------------------------------
(***************************************************************************)
(* Small instances of the Maroon server for TLC.                           *)
(***************************************************************************)
EXTENDS MaroonImplementsService, TLC
CONSTANTS c1, c2, o1, o2, hello
Delay(t)     == [route |-> "delay", t |-> t, s |-> hello]
Divisors(n)  == [route |-> "divisors", n |-> n]
Fibonacci(n) == [route |-> "fibonacci", n |-> n]
Factorial(n) == [route |-> "factorial", n |-> n]

-----------------------------------------------------------------------------
(* maroon_pair: two tasks whose timestamps meet, and cross when the        *)
(* handler that read the timer first gets the Mutex last.                  *)
PairOffered == (c1 :> {Divisors(1)}) @@ (c2 :> {Delay(10), Factorial(0)})
PairInstants == {0, 10}

(* maroon_solo: one task at a time, of every kind and of growing sizes.    *)
SoloOffered ==
  c1 :> {Delay(0), Delay(7)}
          \cup {Divisors(n) : n \in {0, 1, 2, 6, 7, 12}}
          \cup {Fibonacci(n) : n \in {0, 1, 2, 3, 6}}
          \cup {Factorial(n) : n \in {0, 1, 2, 4, 5}}
SoloInstants == {0, 225, 1000}

(* maroon_state: a task whose texts just fit the channel of a client that  *)
(* does not read, or are one too many, and two requests of /state.         *)
StateOffered == c1 :> {Divisors(1), Divisors(2)}

(* maroon_wrap: the longest delay that a `u64` can ask for.                *)
WrapOffered == c1 :> {Delay(WORD - 1)}

(* maroon_stalled: c1 never reads; its texts fit its channel, or they do   *)
(* not.                                                                    *)
StalledOffered ==
  (c1 :> {Factorial(0), Divisors(2)}) @@ (c2 :> {Delay(30)})
StalledInstants == {0, 30}

(* Nothing wraps around in the other instances, which is what the theorems *)
(* about scripts suppose.                                                  *)
ASSUME InstancesFit == ScriptsFit \/ Offered = WrapOffered
=============================================================================
