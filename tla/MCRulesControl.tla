---------------------------- MODULE MCRulesControl ----------------------------
(* The control plane with two policies: A in two texts that differ by a    *)
(* comment, B, a version of A with every app disabled and a broken file.   *)
EXTENDS RulesControl

SourceA == [text |-> "a", wellFormed |-> TRUE, policy |-> "A"]
SourceA2 == [text |-> "a with a comment", wellFormed |-> TRUE, policy |-> "A"]
SourceB == [text |-> "b", wellFormed |-> TRUE, policy |-> "B"]
Disabled == [text |-> "a disabled", wellFormed |-> TRUE, policy |-> "empty"]
Broken == [text |-> "broken", wellFormed |-> FALSE, policy |-> "empty"]

TwoPolicies == {"A", "B"}
AllSources == {SourceA, SourceA2, SourceB, Disabled, Broken}
TwoSources == {SourceA, SourceB}
ThreeSources == {SourceA, SourceB, Disabled}
CompilingSources == {SourceA, SourceA2, SourceB}
DisablingSources == {SourceA, Disabled}

NoFaults == {}
PublishFaults == {"candidate", "file_sync", "preserve", "rename", "dir_sync", "cleanup"}
AllControlFaults == ControlFaultPoints
StatusFault == {"status_write"}
LoopFaults == {"watch", "status_write"}
SyncFault == {"source_sync"}
=============================================================================
