----------------------------- MODULE MCExecutor -----------------------------
(* Executor over small pipelines of command jobs.                            *)
EXTENDS Executor

CONSTANTS a, b, c, d

mcNames == {a, b, c, d}

CommandJob(n, ds) ==
  [name |-> n, kind |-> "command", module |-> NoModule, deps |-> ds, inputs |-> <<>>,
   output |-> NoArtifact, consumes |-> <<>>, produces |-> <<>>, allow |-> FALSE]

\* Three jobs with every dependency relation, cycles and self-loops included.
triples == {<<CommandJob(a, SetToSeq(x)), CommandJob(b, SetToSeq(y)), CommandJob(c, SetToSeq(z))>> :
              x, y, z \in SUBSET {a, b, c}}

\* Four jobs, each depending on any of the jobs listed before it.
quads == {<<CommandJob(a, <<>>), CommandJob(b, SetToSeq(x)),
            CommandJob(c, SetToSeq(y)), CommandJob(d, SetToSeq(z))>> :
              x \in SUBSET {a}, y \in SUBSET {a, b}, z \in SUBSET {a, b, c}}

\* Two jobs with lists that name a job twice, or one that is not there; and a
\* name used twice.
lists == UNION {[1..k -> {a, b, d}] : k \in 0..2}
odd == {<<CommandJob(a, x), CommandJob(b, y)>> : x, y \in lists}
twins == {<<CommandJob(a, x), CommandJob(a, x)>> : x \in lists}

mcIRs == triples \cup quads \cup odd \cup twins
=============================================================================
