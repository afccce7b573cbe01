-------------------------------- MODULE MCSdk --------------------------------
(* The parts of the SDK that keep their state in files or processes of their *)
(* own and share none of it: a behaviour runs one of them.                   *)
EXTENDS MCBrainServer, PersonalChain, ConsentManager, MCPoYNode, ArtifactApi, JobPipeline, MCRivl, SharedMemory

VARIABLE part

sdkVars == <<part, vars, chainVars, consentVars, nodeVars, apiVars, pipeVars, rivlVars, memoryVars>>

\* The fields of the yield tab: a full pass, and a failing run.
MCScoreInputs ==
  {[count |-> 4, passed |-> 12, total |-> 12, lint |-> TRUE, flags |-> 0],
   [count |-> 1, passed |-> 0, total |-> 12, lint |-> FALSE, flags |-> 0]}

SdkInit ==
  /\ part \in {"brain", "chain", "consent", "node", "api", "pipeline", "rivl", "memory"}
  /\ Init /\ ChainInit /\ ConsentInit /\ NodeInit
  /\ ApiInit /\ PipeInit /\ RivlInit /\ MemoryInit

BrainPart ==
  /\ part = "brain" /\ Next
  /\ UNCHANGED <<part, chainVars, consentVars, nodeVars, apiVars, pipeVars, rivlVars, memoryVars>>
ChainPart ==
  /\ part = "chain" /\ ChainNext
  /\ UNCHANGED <<part, vars, consentVars, nodeVars, apiVars, pipeVars, rivlVars, memoryVars>>
ConsentPart ==
  /\ part = "consent" /\ ConsentNext
  /\ UNCHANGED <<part, vars, chainVars, nodeVars, apiVars, pipeVars, rivlVars, memoryVars>>
NodePart ==
  /\ part = "node" /\ NodeNext
  /\ UNCHANGED <<part, vars, chainVars, consentVars, apiVars, pipeVars, rivlVars, memoryVars>>
ApiPart ==
  /\ part = "api" /\ ApiNext
  /\ UNCHANGED <<part, vars, chainVars, consentVars, nodeVars, pipeVars, rivlVars, memoryVars>>
PipelinePart ==
  /\ part = "pipeline" /\ PipeNext
  /\ UNCHANGED <<part, vars, chainVars, consentVars, nodeVars, apiVars, rivlVars, memoryVars>>
RivlPart ==
  /\ part = "rivl" /\ RivlNext
  /\ UNCHANGED <<part, vars, chainVars, consentVars, nodeVars, apiVars, pipeVars, memoryVars>>
MemoryPart ==
  /\ part = "memory" /\ MemoryNext
  /\ UNCHANGED <<part, vars, chainVars, consentVars, nodeVars, apiVars, pipeVars, rivlVars>>

SdkSpec ==
  SdkInit /\ [][BrainPart \/ ChainPart \/ ConsentPart \/ NodePart
                 \/ ApiPart \/ PipelinePart \/ RivlPart \/ MemoryPart]_sdkVars

\* The type invariants of the parts.
SdkTypeOK ==
  /\ TypeOK /\ ChainTypeOK /\ ConsentTypeOK /\ NodeTypeOK
  /\ ApiTypeOK /\ PipeTypeOK /\ RivlTypeOK /\ MemoryTypeOK
=============================================================================
