------------------------------ MODULE MCStartup ------------------------------
(* Small instances of Startup for TLC.                                      *)
EXTENDS Startup

(* One tensor of the backbone, one of the fast-AR, and the output head. *)
MCTensors == <<"wo", "w2", "output">>
MCFastAr == {"w2", "output"}
MCOutput == {"output"}

Env(mode, int4, mse, all) == [mode |-> mode, int4 |-> int4, mse |-> mse, all |-> all]
Int8 == Env("int8", "unset", "unset", "unset")
MCEnvs == {Env("bf16", "unset", "unset", "unset"), Int8, Env("int8", "1", "1", "0"),
           Env("int8", "1", "1", "1"), Env("int8", "1", "0", "1")}
MCFaults == FaultKinds \ {"swap"}
=============================================================================
