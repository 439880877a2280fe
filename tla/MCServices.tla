----------------------------- MODULE MCServices -----------------------------
(***************************************************************************)
(* Five services in one run: proposals, the MCP pool, teams, file changes  *)
(* and the collection of blobs.  A behaviour is one of Parts; the others   *)
(* stay at their initial states.                                           *)
(***************************************************************************)
EXTENDS ProposalFlow, McpPool, TeamRun, FileMutation, BlobCollector, TLC

CONSTANTS Parts, t1, t2, t3

VARIABLE part \* the one that runs

servicesVars == <<part, proposalVars, poolVars, teamVars, mutationVars, blobVars>>

\* Two tasks of a team whose output a third one takes.
Synthesis == t1 :> {} @@ t2 :> {} @@ t3 :> {t1, t2}

\* Only one part moves, so that the actors of several share their names.
Interchangeable == Permutations(Calls) \cup Permutations(Files)

ServicesInit ==
  /\ part \in Parts
  /\ ProposalInit /\ PoolInit /\ TeamInit /\ MutationInit /\ BlobInit
  /\ part = "proposal" \/ proposal = "approved"
  /\ part = "mutation" \/ disk = Absent

ProposalPart ==
  /\ part = "proposal" /\ ProposalNext
  /\ UNCHANGED <<part, poolVars, teamVars, mutationVars, blobVars>>

PoolPart ==
  /\ part = "pool" /\ PoolNext
  /\ UNCHANGED <<part, proposalVars, teamVars, mutationVars, blobVars>>

TeamPart ==
  /\ part = "team" /\ TeamNext
  /\ UNCHANGED <<part, proposalVars, poolVars, mutationVars, blobVars>>

MutationPart ==
  /\ part = "mutation" /\ MutationNext
  /\ UNCHANGED <<part, proposalVars, poolVars, teamVars, blobVars>>

BlobPart ==
  /\ part = "blobs" /\ BlobNext
  /\ UNCHANGED <<part, proposalVars, poolVars, teamVars, mutationVars>>

ServicesNext == ProposalPart \/ PoolPart \/ TeamPart \/ MutationPart \/ BlobPart

ServicesSpec == ServicesInit /\ [][ServicesNext]_servicesVars
=============================================================================
