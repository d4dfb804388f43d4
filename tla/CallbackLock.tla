----------------------------- MODULE CallbackLock -----------------------------
(***************************************************************************)
(* The two ways in which the TFL service and the state service wait for    *)
(* each other.  Every task of the service takes the mutex of               *)
(* TFLServiceInternal and calls the state, and every such call goes        *)
(* through the one worker of the state's buffer (zebrad's start.rs); but   *)
(* that worker, when it commits a block, calls back into the service with  *)
(* the fat pointers of the block, and blocks until it has the mutex        *)
(* (call_from_state_to_crosslink_to_ask_about_fat_pointers).               *)
(*                                                                         *)
(* A task is a sequence of state calls and of sections under the mutex,    *)
(* with the calls that a section makes while it holds it.  What the        *)
(* sections and the calls do is in TFLService and BlockQueue.              *)
(***************************************************************************)
EXTENDS Naturals, Sequences, SequencesExt

CONSTANTS
    Tasks,        \* the tasks that run
    Programs,     \* the programs of each, one of which it runs at a time
    Slots,        \* state_buffer_bound
    Worker,       \* the worker of the state's buffer
    None          \* nobody

Call == [kind |-> "call", inside |-> 0]
Commit == [kind |-> "commit", inside |-> 0]
Section(n) == [kind |-> "lock", inside |-> n]

-------------------------------------------------------------------------------
(* The programs, with their early returns.  First the closures that        *)
(* tenderlink awaits, and the main loop.                                   *)
ProposeNewBftBlock ==
    {<<Call>>, <<Call, Section(0)>>,
     <<Call, Section(0), Call, Call, Section(0)>>}
ValidateBftBlock == {<<Section(0)>>, <<Section(0), Call>>}
HandleNewDecidedBftBlock ==
    {<<Section(0), Call, Call, Section(0), Call, Section(0)>>}
UpdatePeers == {<<Section(0)>>}
Tenderlink ==
    ProposeNewBftBlock \cup ValidateBftBlock \cup HandleNewDecidedBftBlock
    \cup UpdatePeers
MainLoop == {<<Call, Section(0)>>}

(* The requests that RPC methods make. *)
ReadInternal == {<<Section(0)>>}
FinalBlockHeightHash == {<<Section(0)>>, <<Section(1)>>, <<Section(2)>>}
SetFinalBlockHash == {<<Section(0)>>, <<Section(1)>>}
BlockFinalityStatus ==
    FinalBlockHeightHash \cup {Append(p, Call) : p \in FinalBlockHeightHash}
TxFinalityStatus == {<<Call>>} \cup {<<Call>> \o p : p \in FinalBlockHeightHash}
Requests ==
    ReadInternal \cup FinalBlockHeightHash \cup SetFinalBlockHash
    \cup BlockFinalityStatus \cup TxFinalityStatus

(* The block verifier. *)
CommitBlocks == {<<Commit>>}

-------------------------------------------------------------------------------
VARIABLES
    rest,         \* what is left of the program of each task
    left,         \* the calls that it still makes under the mutex
    holder,       \* who holds the mutex
    waiting,      \* who waits for it, in order: the mutex is fair
    buffer,       \* the tasks whose calls are in the buffer
    worker        \* the task whose block the worker checks, if any

vars == <<rest, left, holder, waiting, buffer, worker>>

Acquire(p) ==
    IF holder = None THEN holder' = p /\ UNCHANGED waiting
    ELSE waiting' = Append(waiting, p) /\ UNCHANGED holder
Release ==
    IF waiting = <<>> THEN holder' = None /\ UNCHANGED waiting
    ELSE holder' = Head(waiting) /\ waiting' = Tail(waiting)
Done(t) == rest' = [rest EXCEPT ![t] = Tail(rest[t])]

At(t, kind) == rest[t] # <<>> /\ Head(rest[t]).kind = kind
Calls(t) ==
    IF At(t, "lock") THEN holder = t /\ left[t] > 0
    ELSE rest[t] # <<>>

Begin(t) ==
    /\ rest[t] = <<>>
    /\ \E p \in Programs[t] : rest' = [rest EXCEPT ![t] = p]
    /\ UNCHANGED <<left, holder, waiting, buffer, worker>>

Lock(t) ==
    /\ At(t, "lock") /\ holder # t /\ ~Contains(waiting, t)
    /\ Acquire(t)
    /\ left' = [left EXCEPT ![t] = Head(rest[t]).inside]
    /\ UNCHANGED <<rest, buffer, worker>>

Unlock(t) ==
    /\ At(t, "lock") /\ holder = t /\ left[t] = 0
    /\ Release /\ Done(t)
    /\ UNCHANGED <<left, buffer, worker>>

(* ready() waits for a place in the buffer. *)
Ask(t) ==
    /\ Calls(t) /\ ~Contains(buffer, t) /\ worker # t
    /\ Len(buffer) < Slots
    /\ buffer' = Append(buffer, t)
    /\ UNCHANGED <<rest, left, holder, waiting, worker>>

Answer(t) ==
    IF At(t, "lock")
    THEN left' = [left EXCEPT ![t] = left[t] - 1] /\ UNCHANGED rest
    ELSE Done(t) /\ UNCHANGED left

Serve ==
    /\ worker = None /\ buffer # <<>>
    /\ Answer(Head(buffer))
    /\ buffer' = Tail(buffer)
    /\ UNCHANGED <<holder, waiting, worker>>

(* A block whose parent is ready to be built on has its fat pointer        *)
(* checked, in blocking_lock on the worker.                                *)
ServeCheck ==
    /\ worker = None /\ buffer # <<>> /\ At(Head(buffer), "commit")
    /\ worker' = Head(buffer)
    /\ Acquire(Worker)
    /\ buffer' = Tail(buffer)
    /\ UNCHANGED <<rest, left>>

Checked ==
    /\ worker # None /\ holder = Worker
    /\ Release /\ Done(worker)
    /\ worker' = None
    /\ UNCHANGED <<left, buffer>>

Init ==
    /\ rest = [t \in Tasks |-> <<>>] /\ left = [t \in Tasks |-> 0]
    /\ holder = None /\ waiting = <<>> /\ buffer = <<>> /\ worker = None

Next ==
    \/ \E t \in Tasks : Begin(t) \/ Lock(t) \/ Unlock(t) \/ Ask(t)
    \/ Serve \/ ServeCheck \/ Checked

Spec == Init /\ [][Next]_vars

-------------------------------------------------------------------------------
(* "It is very important that we drop the lock because zebra_state may     *)
(* call us back" (handle_new_decided_bft_block): whenever the worker waits *)
(* for the mutex, whoever holds it can go on and release it without the    *)
(* worker.                                                                 *)
WorkerIsNotWaitedFor ==
    worker # None /\ holder # Worker =>
        /\ Contains(waiting, Worker)
        /\ holder \in Tasks /\ At(holder, "lock") /\ left[holder] = 0
===============================================================================
