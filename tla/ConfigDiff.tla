----------------------------- MODULE ConfigDiff -----------------------------
(***************************************************************************)
(* How two configurations are compared when a new one is loaded            *)
(* (config/utils.rs, config_diff), and what the processing thread does     *)
(* with the answer (pipeline.rs, Pipeline::from_config and                 *)
(* Pipeline::update_parameters).                                           *)
(*                                                                         *)
(* A configuration is a record with the five fields the comparison reads:  *)
(*   devices     the devices section, an opaque value                      *)
(*   pipeline    [layout, mixers, filters, processors]: the names the      *)
(*               steps that are not bypassed use, one set per section; the *)
(*               order, channels and bypassed steps are the opaque layout  *)
(*   mixers, filters, processors                                           *)
(*               the definitions, functions from names to [type, params];  *)
(*               a section the file leaves out has the empty domain        *)
(* A layout in LayoutsWithEmptyFilterStep holds a Filter step whose list   *)
(* of names is empty, which validation accepts.                            *)
(***************************************************************************)
EXTENDS Naturals

CONSTANT LayoutsWithEmptyFilterStep

\* The names of the definitions present in both and not equal.
ChangedNames(old, new) ==
  {n \in DOMAIN old \cap DOMAIN new : new[n] # old[n]}

\* A filter present in both configurations is of another variant.
FilterChangedType(current, new) ==
  \E f \in DOMAIN current.filters \cap DOMAIN new.filters :
    new.filters[f].type # current.filters[f].type

DiffKind(current, new) ==
  IF current = new THEN "None"
  ELSE IF current.devices # new.devices THEN "Devices"
  ELSE IF current.pipeline # new.pipeline THEN "Pipeline"
  ELSE IF current.mixers # new.mixers THEN "MixerParameters"
  ELSE IF FilterChangedType(current, new) THEN "Pipeline"
  ELSE "FilterParameters"

\* The value config_diff returns.  The lists of names are only read when the
\* kind is FilterParameters.
config_diff(current, new) ==
  [kind       |-> DiffKind(current, new),
   filters    |-> ChangedNames(current.filters, new.filters),
   mixers     |-> ChangedNames(current.mixers, new.mixers),
   processors |-> ChangedNames(current.processors, new.processors)]

-----------------------------------------------------------------------------
\* The definitions f gives to the names in S.
Only(f, S) == [n \in S |-> f[n]]

\* What a pipeline built from scratch consists of: the definition of every
\* name a step uses.
from_config(conf) ==
  [filters    |-> Only(conf.filters, conf.pipeline.filters),
   mixers     |-> Only(conf.mixers, conf.pipeline.mixers),
   processors |-> Only(conf.processors, conf.pipeline.processors)]

\* The definitions of a running pipeline after those named in changed were
\* taken over from new.
Updated(steps, new, changed) ==
  [n \in DOMAIN steps |-> IF n \in changed THEN new[n] ELSE steps[n]]

\* Mutant: the filters are forgotten.
update_without_filters(pipe, conf, change) ==
  [pipe EXCEPT !.mixers     = Updated(@, conf.mixers, change.mixers),
               !.processors = Updated(@, conf.processors, change.processors)]

\* The steps take over the definitions the change names.
update_parameters(pipe, conf, change) ==
  [filters    |-> Updated(pipe.filters, conf.filters, change.filters),
   mixers     |-> Updated(pipe.mixers, conf.mixers, change.mixers),
   processors |-> Updated(pipe.processors, conf.processors, change.processors)]

\* A processor that is handed the parameters of another type panics
\* ("Invalid config change!").  The filters have the same check.
UpdatePanics(pipe, conf, change) ==
  \/ \E p \in change.processors \cap DOMAIN pipe.processors :
       conf.processors[p].type # pipe.processors[p].type
  \/ \E f \in change.filters \cap DOMAIN pipe.filters :
       conf.filters[f].type # pipe.filters[f].type

\* Every Filter step unwraps the filters section, when it is built and when it
\* is updated, also if the step names no filter.
FiltersUnwrapPanics(conf) ==
  /\ conf.pipeline.layout \in LayoutsWithEmptyFilterStep
  /\ DOMAIN conf.filters = {}

\* What the processing thread does with one message of the config channel.
Panics(pipe, msg) ==
  \/ FiltersUnwrapPanics(msg.conf)
  \/ /\ msg.change.kind = "FilterParameters"
     /\ UpdatePanics(pipe, msg.conf, msg.change)

ApplyChange(pipe, msg) ==
  IF msg.change.kind = "FilterParameters"
  THEN update_parameters(pipe, msg.conf, msg.change)
  ELSE from_config(msg.conf)

-----------------------------------------------------------------------------
\* What validate_config guarantees of a configuration: every name a step uses
\* is defined.
ValidConfig(conf) ==
  /\ conf.pipeline.filters    \subseteq DOMAIN conf.filters
  /\ conf.pipeline.mixers     \subseteq DOMAIN conf.mixers
  /\ conf.pipeline.processors \subseteq DOMAIN conf.processors
=============================================================================
