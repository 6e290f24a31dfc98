-------------------------------- MODULE CAS --------------------------------
(***************************************************************************)
(* The CAS oracle as operators: which task is extracted from a text, what  *)
(* the solver answers about it, and which claims the answer confirms.      *)
(* SymPy's algebra is abstracted to what it finds: nothing (no parse, no   *)
(* closed form, no solution, wrong shape, a number that is not real), or   *)
(* values, several of them only for an equation.  A value is a class of    *)
(* expressions equal to SymPy, and of numbers within verify_claim's        *)
(* tolerance.                                                              *)
(***************************************************************************)
EXTENDS Integers, Sequences

CONSTANTS Values, Numbers  \* Numbers: the values float() can take

ASSUME NumbersAreValues == Numbers \subseteq Values

Operations == {"differentiate", "integrate", "solve", "simplify", "evaluate",
               "determinant", "matrix_multiply", "piecewise_evaluate"}

\* at: the point, or the lower bound; upper: the upper bound.
MathTask == [operation : Operations, at : BOOLEAN, upper : BOOLEAN]

NoTask == [operation |-> "none"]

Finding == [found : BOOLEAN, values : (SUBSET Values) \ {{}}]

\* form is how result_exact is printed: a value, a value and "+ C",
\* "x = value" for every root, or the rows of a matrix.
CASResult ==
  [status : {"ok", "unverifiable"}, values : SUBSET Values,
   decimal : BOOLEAN, form : {"value", "plus_c", "roots", "rows"}]

Claim == [parses : BOOLEAN, value : Values, constant : BOOLEAN]

-----------------------------------------------------------------------------
Task(operation) == [operation |-> operation, at |-> FALSE, upper |-> FALSE]
At(task) == [task EXCEPT !.at = TRUE]
Between(task) == [task EXCEPT !.at = TRUE, !.upper = TRUE]

\* _EXTRACTORS: the patterns in the order they are tried, and their tasks.
Extractors ==
  <<[pattern |-> "solve", task |-> Task("solve")],
    [pattern |-> "evaluate_at", task |-> At(Task("evaluate"))],
    [pattern |-> "determinant_of", task |-> Task("determinant")],
    [pattern |-> "integrate_from_to", task |-> Between(Task("integrate"))],
    [pattern |-> "differentiate", task |-> Task("differentiate")],
    [pattern |-> "integrate", task |-> Task("integrate")],
    [pattern |-> "simplify", task |-> Task("simplify")]>>

Patterns == {Extractors[k].pattern : k \in DOMAIN Extractors}

\* extract_math_task, of a text in which these patterns are found.
ExtractMathTask(patterns) ==
  LET hits == {k \in DOMAIN Extractors : Extractors[k].pattern \in patterns}
  IN IF hits = {} THEN NoTask
     ELSE Extractors[CHOOSE k \in hits : \A j \in hits : k <= j].task

-----------------------------------------------------------------------------
Unverifiable == [status |-> "unverifiable", values |-> {},
                 decimal |-> FALSE, form |-> "value"]

Ok(values, decimal, form) ==
  [status |-> "ok", values |-> values, decimal |-> decimal, form |-> form]

SingleNumber(values) == values \subseteq Numbers /\ \A v, w \in values : v = w

Differentiate(values) == Ok(values, FALSE, "value")

\* Either bound alone is no bound.
Integrate(task, values) ==
  IF task.at /\ task.upper THEN Ok(values, SingleNumber(values), "value")
  ELSE Ok(values, FALSE, "plus_c")

SolveEquation(values) == Ok(values, SingleNumber(values), "roots")

SimplifyExpr(values) == Ok(values, SingleNumber(values), "value")

\* float() of anything but a number fails.
Evaluate(values) ==
  IF SingleNumber(values) THEN Ok(values, TRUE, "value") ELSE Unverifiable

Determinant(values) == Ok(values, SingleNumber(values), "value")

MatrixMultiply(values) == Ok(values, FALSE, "rows")

EvaluatePiecewise(task, values) ==
  IF task.at /\ SingleNumber(values) THEN Ok(values, TRUE, "value")
  ELSE Unverifiable

\* run_cas_operation: the handler of the operation, every exception of which
\* is an unverifiable result.
RunCasOperation(task, finding) ==
  LET values == finding.values
      op == task.operation
  IN IF ~finding.found THEN Unverifiable
     ELSE
     CASE op = "differentiate" -> Differentiate(values)
       [] op = "integrate" -> Integrate(task, values)
       [] op = "solve" -> SolveEquation(values)
       [] op = "simplify" -> SimplifyExpr(values)
       [] op = "evaluate" -> Evaluate(values)
       [] op = "determinant" -> Determinant(values)
       [] op = "matrix_multiply" -> MatrixMultiply(values)
       [] op = "piecewise_evaluate" -> EvaluatePiecewise(task, values)

\* Mutant: a constant of integration is neither here nor there.
VerifyUpToConstant(result, claim) ==
  /\ result.status = "ok"
  /\ claim.parses
  /\ claim.value \in result.values
  /\ result.decimal \/ result.form \in {"value", "plus_c"}

\* verify_claim: numbers are compared as numbers; otherwise result_exact has
\* to read back as one expression.
VerifyClaim(result, claim) ==
  /\ result.status = "ok"
  /\ claim.parses
  /\ claim.value \in result.values
  /\ result.decimal \/ result.form \in {"value", "plus_c"}
  /\ claim.constant <=> result.form = "plus_c"
=============================================================================
