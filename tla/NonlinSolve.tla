---------------------------- MODULE NonlinSolve ----------------------------
(***************************************************************************)
(* smls_nonlinsolve: random guesses, then gradient steps, and the best     *)
(* point met is the answer. A point is a number and its residual a member  *)
(* of Residuals: where a guess or a step ends, and what the caller's       *)
(* system answers there, is the environment's choice. smaller, larger and  *)
(* infinite residuals and one that is not a number behave as floats do.    *)
(***************************************************************************)
EXTENDS Integers, Sequences

CONSTANTS Residuals,         \* finite residuals, natural numbers
          Infinite, NotANumber,
          RandomIterations,  \* random_iterations, of both loops
          TimesUntilBreak,   \* times_until_break
          GradientsLen       \* maximum_gradients_index

ASSUME NonlinAssumption ==
  /\ Residuals \subseteq Nat /\ Infinite \notin Nat /\ NotANumber \notin Nat
  /\ Infinite # NotANumber
  /\ {RandomIterations, TimesUntilBreak, GradientsLen} \subseteq Nat \ {0}

VARIABLES
  phase,            \* "guess", "descend" or "done"
  iteration,        \* i of the loop of this phase
  point,            \* x: the number of the point, in the order they were met; 0 is not initialised
  best_x, best_sqrt_sum_dx, past_sqrt_sum_dx,
  break_count,
  gradient_index,   \* of past_gradients
  met               \* ghost: the residual of every point met, by its number

solverVars == <<phase, iteration, point, best_x, best_sqrt_sum_dx, past_sqrt_sum_dx, break_count, gradient_index, met>>

Residual == Residuals \cup {Infinite, NotANumber}

FltMax == Infinite   \* FLT_MAX: larger than every finite residual, and nothing else is

\* best > residual, as floats compare.
Improves(best, residual) == residual \in Residuals /\ (best = FltMax \/ residual < best)

\* fabsf(a - b) <= FLT_EPSILON || a == b
StandsStill(a, b) == a = b /\ a # NotANumber

SolverInit ==
  /\ phase \in {"guess", "descend"}   \* random_guess_active or not
  /\ iteration = 0 /\ break_count = 0 /\ gradient_index = 0
  /\ point = IF phase = "guess" THEN 0 ELSE 1
  /\ best_x = 0 /\ best_sqrt_sum_dx = FltMax
  /\ past_sqrt_sum_dx = 0
  /\ met = <<>>

\* Faulty variant: the best residual is remembered, its point only when descending.
CheckSolutionLate(number, residual) ==
  /\ best_sqrt_sum_dx' = IF Improves(best_sqrt_sum_dx, residual) THEN residual ELSE best_sqrt_sum_dx
  /\ best_x' = IF Improves(best_sqrt_sum_dx, residual) /\ phase = "descend" THEN number ELSE best_x

\* check_solution
CheckSolution(number, residual) ==
  /\ best_sqrt_sum_dx' = IF Improves(best_sqrt_sum_dx, residual) THEN residual ELSE best_sqrt_sum_dx
  /\ best_x' = IF Improves(best_sqrt_sum_dx, residual) THEN number ELSE best_x

\* The point the iteration evaluates: one met before keeps its residual.
Evaluated(number, residual) ==
  IF number \in DOMAIN met
  THEN met[number] = residual /\ met' = met
  ELSE met' = Append(met, residual)

\* One random guess; after the last one x is the best of them, or what best_x
\* held when it was declared.
Guess ==
  /\ phase = "guess"
  /\ \E residual \in Residual :
       LET number == Len(met) + 1
       IN  /\ Evaluated(number, residual)
           /\ CheckSolution(number, residual)
  /\ IF iteration + 1 = RandomIterations
     THEN phase' = "descend" /\ iteration' = 0 /\ point' = best_x'
     ELSE phase' = phase /\ iteration' = iteration + 1 /\ point' = Len(met) + 1
  /\ UNCHANGED <<past_sqrt_sum_dx, break_count, gradient_index>>

\* memcpy(x, best_x) behind the second loop
Finish == phase' = "done" /\ point' = best_x'

\* One gradient step. break_count counts every iteration that stood still, also
\* when others lie between them.
Descend ==
  /\ phase = "descend"
  /\ \E residual \in Residual :
       LET number == IF point = 0 THEN Len(met) + 1 ELSE point
           still == StandsStill(past_sqrt_sum_dx, residual)
       IN  /\ Evaluated(number, residual)
           /\ CheckSolution(number, residual)
           /\ break_count' = IF still THEN break_count + 1 ELSE break_count
           /\ IF still /\ break_count' >= TimesUntilBreak
              THEN Finish /\ UNCHANGED <<iteration, past_sqrt_sum_dx, gradient_index>>
              ELSE /\ past_sqrt_sum_dx' = residual
                   /\ gradient_index' = (gradient_index + 1) % GradientsLen
                   /\ iteration' = iteration + 1
                   /\ IF iteration + 1 = RandomIterations
                      THEN Finish
                      ELSE phase' = phase /\ point' = Len(met') + 1

SolverNext == Guess \/ Descend

SolverSpec == SolverInit /\ [][SolverNext]_solverVars

\* When the solver returns, x is the first of the points with the smallest
\* residual of all those it evaluated, in the guesses and in the descent, and it
\* is uninitialised memory only if no residual was below FLT_MAX.
ReturnsBestPointMet ==
  phase = "done" =>
    LET finite == {i \in DOMAIN met : met[i] \in Residuals}
    IN  IF finite = {} THEN point = 0
        ELSE /\ point \in finite
             /\ \A i \in finite : met[point] < met[i] \/ (met[point] = met[i] /\ point <= i)

=============================================================================
