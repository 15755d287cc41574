---------------------------- MODULE MCPipeline -----------------------------
(* An instance of Pipeline for TLC: a cosigner, which filters in addition   *)
(* to all a data provider does.  A plain instruction names a machine twice  *)
(* before another one; an FDC one names one id at two urls; one log has an  *)
(* invalid op, one does not parse, and one names another cosigner.  The FDC *)
(* one, which may hang in its processor or at a machine, comes first.       *)
EXTENDS PipelineRefinement

Machine(t, u) == [teeId |-> t, url |-> u]
Op(t, c) == [type |-> t, command |-> c]

MCLogs == {"plain", "fdc", "bad", "odd", "theirs"}
MCOpOf == [l \in MCLogs |->
             CASE l = "fdc" -> Op("FDC2", "Prove")
               [] l = "bad" -> Op("Reg", "Unknown")
               [] l = "theirs" -> Op("Wallet", "KeyDirectRestore")
               [] OTHER -> Op("Reg", "Attest")]
MCValidOps == {Op("Reg", "Attest"), Op("FDC2", "Prove"), Op("Wallet", "KeyDirectRestore")}
MCTeeMachines == [l \in MCLogs |->
             CASE l = "plain" -> <<Machine("t1", "u1"), Machine("t1", "u1"),
                                   Machine("t2", "u2")>>
               [] l = "fdc"   -> <<Machine("t3", "u3"), Machine("t3", "u4")>>
               [] OTHER       -> <<Machine("t1", "u1")>>]
MCCosigners == [l \in MCLogs |-> CASE l = "theirs" -> {"you"}
                                   [] l = "plain" -> {"me", "you"}
                                   [] OTHER -> {"me"}]
MCBatches == <<<<"fdc", "bad">>, <<"theirs", "odd", "plain">>>>
=============================================================================
