---------------------------- MODULE MCCoroutine ----------------------------
(* Model-checking instance of the coroutine library: a table that doubles  *)
(* once, stacks of one or two frames, two values for the locals.           *)
EXTENDS Coroutine
=============================================================================
