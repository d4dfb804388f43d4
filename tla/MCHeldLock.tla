------------------------------ MODULE MCHeldLock ------------------------------
(***************************************************************************)
(* All the tasks of a node: tenderlink, the main loop, an RPC request and  *)
(* a block that is committed.                                              *)
(***************************************************************************)
EXTENDS CallbackLock

MCPrograms ==
    [t \in Tasks |->
        CASE t = "tenderlink" -> Tenderlink
          [] t = "main_loop" -> MainLoop
          [] t = "rpc" -> Requests
          [] t = "verifier" -> CommitBlocks]
===============================================================================
