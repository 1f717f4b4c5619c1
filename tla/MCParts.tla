------------------------------- MODULE MCParts -------------------------------
(* The parts that share no state, each explored on its own small instance:  *)
(* `part` is the one a behaviour is about, the others keep their initial    *)
(* state.                                                                   *)
EXTENDS SramStore, RewindHistory, Processor, ControlFlow, Arithmetic,
        WaveAudio, WindowsKeys

VARIABLE part

Body == {56, 194, 251}
Statuses == {1, 16, 32}
Terms == {0, 1, 25, 128, 153}
Words == {-1, 105, 226, 208, 76, 32, 96, 154, 244, 72}
WidthMask == {32}

partsVars == <<vars, ring, cpuVars, flowVars, aluVars, waveVars, keyVars, part>>

\* All of the parts but p stay as they are.
Only(p) ==
  /\ part = p
  /\ p # "sram" => UNCHANGED vars
  /\ p # "ring" => UNCHANGED ring
  /\ p # "processor" => UNCHANGED cpuVars
  /\ p # "analysis" => UNCHANGED flowVars
  /\ p # "arithmetic" => UNCHANGED aluVars
  /\ p # "wave" => UNCHANGED waveVars
  /\ p # "keys" => UNCHANGED keyVars

\* The initial choices of the parts that are not explored are made alike.
Chosen ==
  /\ part # "sram" => data = CHOOSE v \in Image : TRUE
  /\ part # "analysis" => options.follow /\ point.state = ResetEntry /\ point.depth = 0
                          /\ \A l \in Limits : options.limit <= l
  /\ part # "wave" => device
Blank == CHOOSE s \in Snapshot : TRUE

PartsInit ==
  /\ part \in {"sram", "ring", "processor", "analysis", "arithmetic", "wave", "keys"}
  /\ Init /\ CpuInit /\ FlowInit /\ AluInit /\ WaveInit /\ KeysInit /\ Chosen
  /\ IF part = "ring" THEN TRUE ELSE storage = [c \in Cells |-> Blank] /\ restored = Blank
  /\ RingInit

PartsNext ==
  /\ UNCHANGED part
  /\ \/ Only("sram") /\ Next
     \/ Only("ring") /\ RingNext
     \/ Only("processor") /\ CpuNext
     \/ Only("analysis") /\ FlowNext
     \/ Only("arithmetic") /\ AluNext
     \/ Only("wave") /\ WaveNext
     \/ Only("keys") /\ KeysNext

\* Every analysis ends: each of its loops decodes only finitely many points.
AnalysisEnds == part = "analysis" ~> stage = "done"

PartsSpec ==
  /\ PartsInit /\ [][PartsNext]_partsVars
  /\ WF_partsVars(Only("analysis") /\ UNCHANGED part /\ FlowNext)
  /\ WF_partsVars(Only("wave") /\ UNCHANGED part /\ BlockDone)
  /\ WF_partsVars(Only("wave") /\ UNCHANGED part /\ LoopOn)
=============================================================================
