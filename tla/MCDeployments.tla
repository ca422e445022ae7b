---------------------------- MODULE MCDeployments ---------------------------
(* Instances of NodeDeployment, GitHubPipeline and GitHubLink for TLC: the *)
(* deployment queue, the pipeline that fills it from a branch, and the     *)
(* link that connects the branch.  The three share no variable: a          *)
(* behaviour is one of one of them.                                        *)
EXTENDS NodeDeployment, GitHubPipeline, GitHubLink

CONSTANTS r1, r2, w1, w2, a, b

VARIABLE part

mcVars == <<vars, pipelineVars, linkVars, part>>

MCInit ==
  /\ part \in {"deployment", "pipeline", "link"}
  /\ Init /\ PipelineInit /\ LinkInit
  /\ kind = "node" \/ part = "pipeline"

MCNext ==
  /\ UNCHANGED part
  /\ \/ part = "deployment" /\ Next /\ UNCHANGED <<pipelineVars, linkVars>>
     \/ part = "pipeline" /\ PipelineNext /\ UNCHANGED <<vars, linkVars>>
     \/ part = "link" /\ LinkNext /\ UNCHANGED <<vars, pipelineVars>>

\* Nothing that is fair of the parts that were not chosen is enabled at their
\* initial states.
MCSpec == MCInit /\ [][MCNext]_mcVars /\ Fairness /\ PipelineFairness
=============================================================================
