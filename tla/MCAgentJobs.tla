----------------------------- MODULE MCAgentJobs -----------------------------
(* AgentJobs on one session.  Tool jobs: sure calls a Write tool above the *)
(* threshold, again does the same under the same key, unsure is below the  *)
(* threshold, look calls a Read tool.  Artifact jobs: two reports, a       *)
(* table, a sheet that does not render, one whose data is malformed, one   *)
(* of an unsupported type.  The batches put together those that may        *)
(* interfere.                                                              *)
EXTENDS AgentJobs

CONSTANTS sure, again, unsure, look, report, report2, table, sheet, odd, garbled,
          session, refund, price, k1, k2, k3

MCSession == [j \in Jobs |-> session]
MCTool    == [j \in ToolJobs |-> IF j = look THEN price ELSE refund]
MCKind    == [t \in Tools |-> IF t = price THEN Read ELSE Write]
MCKey     == [j \in ToolJobs |-> CASE j \in {sure, again} -> k1
                                   [] j = unsure -> k2 [] OTHER -> k3]
MCType    == [j \in ArtifactJobs |-> CASE j \in {table, sheet} -> "excel"
                                       [] j = odd -> "other" [] OTHER -> "pdf"]
=============================================================================
