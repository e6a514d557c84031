--------------------------- MODULE MCSessionRuns ---------------------------
(***************************************************************************)
(* TLC instance of SessionRuns: a run and its retry over one session with  *)
(* one signal, the users who change scores twice, and attempts that fail.  *)
(* The metrics that score a session are checked beside it, on values of    *)
(* their own: three levels of a signal, and outputs that are alike in      *)
(* words, in meaning, in both or in neither.                               *)
(***************************************************************************)
EXTENDS SessionScores, TLC

MCWords == ("list files" :> {"list", "files"}) @@ ("files list" :> {"list", "files"})
           @@ ("list users" :> {"list", "users"}) @@ ("7" :> {})

MCOutputs == DOMAIN MCWords

MCCosine ==
    [p \in MCOutputs \X MCOutputs |->
        IF p[1] = p[2] THEN Scale ELSE IF "7" \in {p[1], p[2]} THEN 0 ELSE 1]

MCWeightings ==
    {<<>>, "confidence" :> 0, ("tool_correctness" :> 20) @@ ("coherence" :> 5) @@ ("loop_detection" :> 0)}

MCContexts ==
    LET fine == Perfect
        bad == "confidence" :> 0
    IN  {<<>>, <<fine>>, <<bad>>, <<"coherence" :> 1>>, <<fine, bad, <<>> >>,
         [i \in 1..6 |-> fine], [i \in 1..7 |-> IF i < 3 THEN bad ELSE fine]}

=============================================================================
