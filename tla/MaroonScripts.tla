--------------------------- MODULE MaroonScripts ---------------------------
(***************************************************************************)
(* What a client of step11_ws_state_machine is told in answer to each      *)
(* request: a script of texts, each due at its own time.                   *)
(*                                                                         *)
(* The scripts are written with sums, products and Fibonacci numbers over  *)
(* the whole numbers: they do not use the stacks, the heaps or the steps   *)
(* that MaroonTask translates from the program.                            *)
(***************************************************************************)
EXTENDS MaroonTask, FiniteSets

Said(at, text) == [at |-> at, text |-> text]

(* 0 + 1 + ... + k.                                                        *)
Triangle(k) == (k * (k + 1)) \div 2

fib[k \in Nat] == IF k <= 1 THEN k ELSE fib[k - 1] + fib[k - 2]

factorial[k \in Nat] == IF k = 0 THEN 1 ELSE k * factorial[k - 1]

(* The divisors of n, and the k-th of them from the largest on.            *)
DivisorsOf(n) == {d \in 1 .. n : n % d = 0}

NthDivisor(n, k) ==
  CHOOSE d \in DivisorsOf(n) :
    Cardinality({e \in DivisorsOf(n) : e >= d}) = k

(* When the k-th divisor is due: 10 ms times its value after the one       *)
(* before.                                                                 *)
DivisorsDue(n, start) ==
  LET Due[k \in 0 .. Cardinality(DivisorsOf(n))] ==
        IF k = 0 THEN start ELSE Due[k - 1] + 10 * NthDivisor(n, k)
  IN Due

-----------------------------------------------------------------------------
(* The message, once t has passed.                                         *)
DelayScript(t, s, start) == << Said(start + t, DelayedMessage(t, s)) >>

(* The divisors from the largest on; "done" right after the last.          *)
DivisorsScript(n, start) ==
  LET count == Cardinality(DivisorsOf(n))
      due   == DivisorsDue(n, start)
  IN [k \in 1 .. count |-> Said(due[k], DivisorFound(n, NthDivisor(n, k)))]
       \o << Said(due[count], DivisorsDone(n)) >>

(* fib(1), ..., fib(n-1), the k-th followed by a pause of 5k ms; fib(n).   *)
FibonacciScript(n, start) ==
  IF n <= 1 THEN << Said(start, FibonacciResult(n, n)) >>
  ELSE [k \in 1 .. n - 1 |->
          Said(start + 5 * Triangle(k - 1), FibonacciStep(n, k, fib[k]))]
         \o << Said(start + 5 * Triangle(n - 1), FibonacciResult(n, fib[n])) >>

(* The calls of the recursion: it is entered once for n = 0.               *)
Levels(n) == IF n = 0 THEN 1 ELSE n

(* f(n), ..., f(1), each f(k) followed by a pause of 50k ms; n!.           *)
FactorialScript(n, start) ==
  LET Level(j) == n + 1 - j
      After(k) == start + 50 * (Triangle(n) - Triangle(k))
  IN [j \in 1 .. Levels(n) |-> Said(After(Level(j)), FactorialCall(Level(j)))]
       \o << Said(After(0), FactorialResult(n, factorial[n])) >>

Script(r, start) ==
  CASE r.route = "delay"     -> DelayScript(r.t, r.s, start)
    [] r.route = "divisors"  -> DivisorsScript(r.n, start)
    [] r.route = "fibonacci" -> FibonacciScript(r.n, start)
    [] r.route = "factorial" -> FactorialScript(r.n, start)

-----------------------------------------------------------------------------
(* Every time and every number of the script of r is a `u64`, so that      *)
(* nothing wraps around while the program computes it.                     *)
ScriptFits(r, start) ==
  \A k \in DOMAIN Script(r, start) :
    Script(r, start)[k] \in [at : Word, text : Texts]
=============================================================================
