---------------------------- MODULE MCPlanRequest ----------------------------
(***************************************************************************)
(* Up to three targets, all different files: below the directory the       *)
(* runner is in, spelled with "./", outside of it, and by a way that       *)
(* leaves it and comes back.  A bare base branch, one qualified by another *)
(* remote, and one that is only under the remote, in repositories that     *)
(* have some of them.                                                      *)
(*                                                                         *)
(* The metadata and the targets of a request read nothing of each other's  *)
(* state: one varies while the other is at a simple value.                 *)
(***************************************************************************)
EXTENDS PlanRequest

MCPath(dot, parts) == [dot |-> dot, parts |-> parts]

a == MCPath(FALSE, <<"spec", "a">>)
b == MCPath(TRUE,  <<"spec", "b">>)
c == MCPath(FALSE, <<"..", "c">>)
d == MCPath(FALSE, <<"..", "app", "d">>)

MCNames   == {"spec", "app", "x", "a", "b", "c", "d"}
MCTargets == {<<>>, <<a>>, <<b, a>>, <<a, c, b>>, <<d>>}
\* None, "./", "app", "./app/x", "../app" and "..".
MCPrefixes == {NoPrefix, DotPrefix, MCPath(FALSE, <<"app">>), MCPath(TRUE, <<"app", "x">>),
               MCPath(FALSE, <<"..", "app">>), MCPath(FALSE, <<"..">>)}

Main     == <<"origin", "main">>
Master   == <<"origin", "master">>
Upstream == <<"upstream", "main">>
Release  == <<"origin", "release">>

MCRefSets == SUBSET {Main, Master, Upstream, Release}
MCCandidates == {<<>>, <<"release">>, <<"main">>, Upstream}

SimpleRepository ==
  refs = {Main} /\ remote = "origin" /\ remoteHead = Main /\ prBase = <<>> /\ user = <<>> /\ isNil

SimpleTargets ==
  prefix = NoPrefix /\ Len(targets) = 1 /\ ~features.splitByExample /\ ~cfg.tagFilters /\ ~cfg.splitByExample

MCInit == PlanInit /\ (SimpleRepository \/ SimpleTargets)

MCSpec == MCInit /\ [][PlanNext]_<<vars, gitVars, planVars>>

=============================================================================
