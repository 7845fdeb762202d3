------------------------------- MODULE MCSession -------------------------------
(***************************************************************************)
(* Session on small instances: a program executes two or three of the four *)
(* queries, all of the kinds that differ or two of the same.               *)
(***************************************************************************)
EXTENDS Session, TLC

CONSTANTS q1, q2, drop, nothing

VARIABLE program

MCQueries == {q1, q2, drop, nothing}
MCDroppers == {drop}
MCEmpties == {nothing}

Programs == {{q1, q2, drop}, {q1, q2, nothing}, {drop, nothing}}

MCInit == Init /\ program \in Programs

MCNext ==
    /\ \/ \E k \in program, flag \in Flags :
             Execute(k, flag) \/ PrepareFails(k, flag) \/ PipelineExecute(k, flag)
       \/ PipelineEnter \/ PipelineSync \/ PipelineExit
       \/ ClientStep
       \/ Serve
    /\ UNCHANGED program

MCSpec == MCInit /\ [][MCNext]_<<vars, program>>

Symmetry == Permutations({q1, q2})
=============================================================================
