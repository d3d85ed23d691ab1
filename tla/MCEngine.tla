------------------------------ MODULE MCEngine ------------------------------
(***************************************************************************)
(* Instances of Engine for TLC: two slots, so that one session can overlap *)
(* the next, and a few configurations that differ in one respect each.     *)
(***************************************************************************)
EXTENDS Engine, TLC

\* A filter definition, a processor definition, and a configuration that uses
\* one of each.
Def(t, p) == [type |-> t, params |-> p]
Conf(dev, layout, filterParams, procType) ==
  [devices    |-> dev,
   pipeline   |-> [layout |-> layout, filters |-> {"f"}, mixers |-> {},
                   processors |-> {"p"}],
   filters    |-> [n \in {"f"} |-> Def("Gain", filterParams)],
   mixers     |-> <<>>,
   processors |-> [n \in {"p"} |-> Def(procType, 0)]]

Base         == Conf("devA", "serial", 0, "Compressor")
OtherGain    == Conf("devA", "serial", 1, "Compressor")
OtherDevices == Conf("devB", "serial", 0, "Compressor")
OtherType    == Conf("devA", "serial", 0, "NoiseGate")

\* A Filter step that names no filter, in a file without a filters section.
EmptyStep == [Base EXCEPT !.pipeline = [layout |-> "emptyStep", filters |-> {},
                                        mixers |-> {}, processors |-> {"p"}],
                          !.filters = <<>>]

MCLayouts      == {"emptyStep"}
OneConfig      == {Base}
GainConfigs    == {Base, OtherGain}
ThreeConfigs   == {Base, OtherGain, OtherDevices}
PanicConfigs   == {Base, OtherType, EmptyStep}
SlotSymmetry   == Permutations(Slots)
NoFaults       == {}
ReadFaults     == {"cap_read"}
RegularFile    == {"Complete", "EndOfFile"}
Pipe           == {"Complete", "Timeout"}
CaptureFaulty  == {"cap_open", "cap_read", "rate_change"}
FaultsThatJoin == AllFaults \ {"cap_read", "rate_change"}
AllButRead     == AllFaults \ {"cap_read"}
=============================================================================
