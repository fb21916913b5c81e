------------------------------- MODULE MCRpc -------------------------------
(* Instances of Rpc: what the clients ask. *)
EXTENDS Rpc
MCCommands == {[service |-> "apc", op |-> "AP_API", auth |-> "uninitialized"],
               [service |-> "apc", op |-> "GET_APC_INFO", auth |-> "uninitialized"],
               [service |-> "wd_user", op |-> "OTHER", auth |-> "uninitialized"]}
MCApi == {[service |-> "apc", op |-> "AP_API", auth |-> "uninitialized"]}
MCBoth == {[service |-> "apc", op |-> "AP_API", auth |-> "uninitialized"],
           [service |-> "apc", op |-> "GET_APC_INFO", auth |-> "uninitialized"],
           [service |-> "logger", op |-> "SET_LOG_LEVEL", auth |-> "NONE"],
           [service |-> "logger", op |-> "SET_LOG_LEVEL", auth |-> "VIEWER"],
           [service |-> "wd_user", op |-> "OTHER", auth |-> "uninitialized"]}
=============================================================================
