----------------------------- MODULE MCRelease -----------------------------
(* Release for TLC: an upload, a notice nobody is obliged to send and a     *)
(* tidy-up that is safe to repeat, under a chain of three gates defined in  *)
(* the order in which the cascade takes the most passes.                    *)
EXTENDS Release

MCPlan == <<"upload", "notice", "tidy">>
MCAuthority == [o \in {"upload", "notice", "tidy"} |->
                  CASE o = "upload" -> "publish" [] o = "notice" -> "announce" [] OTHER -> None]
MCRegistry == <<"publication", "mix", "freeze">>
MCDependsOn == [g \in Gate |-> CASE g = "publication" -> {"mix"}
                               [] g = "mix" -> {"freeze"} [] OTHER -> {}]
MCBinds == [g \in Gate |-> CASE g = "publication" -> {"script", "render"}
                           [] g = "mix" -> {"render"} [] OTHER -> {"script"}]
MCValues == [k \in Key |-> IF k = "script" THEN {"h1", "h2"} ELSE {"h1"}]
MCVerdicts == [g \in Gate |-> IF g = "freeze" THEN {"approved", "waived"} ELSE {"approved"}]
MCGrants == [g \in Gate |-> IF g = "publication" THEN {"publish", "announce"} ELSE {}]
=============================================================================
