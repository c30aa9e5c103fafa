---------------------------- MODULE MCToolCalls ----------------------------
(***************************************************************************)
(* Instances of ToolCalls for TLC.  edit asks for one action, note is a    *)
(* side effect without a gate, read is read-only, fetch is a gated read;   *)
(* check is a tool that asks again after a first effect (electron_run).    *)
(***************************************************************************)
EXTENDS ToolCalls

OneGate == [o \in Ops |-> CASE o = "edit"  -> <<"file_edit">>
                            [] o = "fetch" -> <<"web_fetch">>
                            [] o = "check" -> <<"electron_run", "electron_interact">>
                            [] OTHER       -> <<>>]
============================================================================
