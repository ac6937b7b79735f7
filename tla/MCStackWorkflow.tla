--------------------------- MODULE MCStackWorkflow ---------------------------
(* An instance of StackWorkflow for TLC: three branches, one of them of two   *)
(* stacks, to which reporting may be added.                                   *)
EXTENDS StackWorkflow

WithRedshift == {Always \cup {"DataProcessing", "DataModelingRedshift"}}
OneEdit == {{}, {"DataModelingRedshift"}}
AnyKey == {PipelineStacks, Registry}
=============================================================================
