----------------------------- MODULE MCAnalyze -----------------------------
(* Matrices of up to two configurations, no rendering or two. *)
EXTENDS Analyze

MCMatrices == 0 .. 2
MCFormats == {"text", "sarif"}
MCRenderings == {<<>>, <<"text", "sarif">>}
=============================================================================
