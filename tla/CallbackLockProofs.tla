-------------------------- MODULE CallbackLockProofs --------------------------
(***************************************************************************)
(* Proof that the worker of the state's buffer always gets the mutex of    *)
(* TFLServiceInternal as long as nobody calls the state while holding it,  *)
(* and that tenderlink's closures, the main loop and the plain requests    *)
(* keep to that, whatever the number of tasks.                             *)
(***************************************************************************)
EXTENDS CallbackLock, SequenceTheorems, TLAPS

(* The steps that make no call under the mutex, and the discipline. *)
Free == {Call, Commit, Section(0)}
Disciplined ==
    /\ \A t \in Tasks : Programs[t] \subseteq Seq(Free)
    /\ Worker \notin Tasks /\ None \notin Tasks /\ Worker # None

NoRepeats(s) == \A i, j \in 1 .. Len(s) : s[i] = s[j] => i = j

(* Tasks only: what each has left, and which of them call the state.       *)
TaskInvariant ==
    /\ rest \in [Tasks -> Seq(Free)]
    /\ left = [t \in Tasks |-> 0]
    /\ buffer \in Seq(Tasks) /\ NoRepeats(buffer)
    /\ \A i \in 1 .. Len(buffer) : rest[buffer[i]] # <<>> /\ ~At(buffer[i], "lock")
    /\ worker # None =>
          /\ worker \in Tasks /\ rest[worker] # <<>> /\ ~At(worker, "lock")
          /\ \A i \in 1 .. Len(buffer) : buffer[i] # worker

(* The mutex: its holder and those who wait for it are all different, it   *)
(* is not left free while somebody waits, and the worker holds it or waits *)
(* for it exactly while it checks a block.                                 *)
LockInvariant ==
    /\ waiting \in Seq(Tasks \cup {Worker}) /\ NoRepeats(waiting)
    /\ holder \in Tasks \cup {Worker, None}
    /\ holder = None => waiting = <<>>
    /\ holder \in Tasks => At(holder, "lock")
    /\ \A i \in 1 .. Len(waiting) :
          /\ waiting[i] # holder
          /\ waiting[i] \in Tasks => At(waiting[i], "lock")
    /\ worker # None <=>
          holder = Worker \/ \E i \in 1 .. Len(waiting) : waiting[i] = Worker

Invariant == TaskInvariant /\ LockInvariant

-------------------------------------------------------------------------------
(* Sequences without repetitions *)

LEMMA TailFacts ==
    ASSUME NEW S, NEW s \in Seq(S), s # <<>>
    PROVE  /\ Tail(s) \in Seq(S) /\ Len(Tail(s)) = Len(s) - 1 /\ Len(s) \in Nat \ {0}
           /\ \A i \in 1 .. Len(s) - 1 : Tail(s)[i] = s[i + 1]
           /\ Head(s) = s[1] /\ Head(s) \in S
  OBVIOUS

LEMMA TailNoRepeats ==
    ASSUME NEW S, NEW s \in Seq(S), s # <<>>, NoRepeats(s)
    PROVE  /\ NoRepeats(Tail(s))
           /\ \A i \in 1 .. Len(Tail(s)) : Tail(s)[i] # Head(s)
  <1>1. /\ Len(Tail(s)) = Len(s) - 1 /\ Len(s) \in Nat \ {0} /\ Head(s) = s[1]
        /\ \A i \in 1 .. Len(s) - 1 : Tail(s)[i] = s[i + 1]
    BY TailFacts
  <1> QED BY <1>1 DEF NoRepeats

LEMMA AppendNoRepeats ==
    ASSUME NEW S, NEW s \in Seq(S), NEW e \in S, NoRepeats(s),
           \A i \in 1 .. Len(s) : s[i] # e
    PROVE  /\ NoRepeats(Append(s, e)) /\ Append(s, e) \in Seq(S)
           /\ Len(Append(s, e)) = Len(s) + 1
           /\ \A i \in 1 .. Len(s) : Append(s, e)[i] = s[i]
           /\ Append(s, e)[Len(s) + 1] = e
  <1>1. /\ Append(s, e) \in Seq(S) /\ Len(Append(s, e)) = Len(s) + 1 /\ Len(s) \in Nat
        /\ \A i \in 1 .. Len(s) : Append(s, e)[i] = s[i]
        /\ Append(s, e)[Len(s) + 1] = e
    BY AppendProperties
  <1> QED BY <1>1 DEF NoRepeats

-------------------------------------------------------------------------------
(* The mutex *)

LEMMA ReleaseKeeps ==
    ASSUME LockInvariant, Release, holder # None,
           Worker \notin Tasks, None \notin Tasks, Worker # None
    PROVE  /\ waiting' \in Seq(Tasks \cup {Worker}) /\ NoRepeats(waiting')
           /\ holder' \in Tasks \cup {Worker, None}
           /\ holder' = None => waiting' = <<>>
           /\ holder' # holder
           /\ holder' \in Tasks => At(holder', "lock")
           /\ \A i \in 1 .. Len(waiting') :
                 /\ waiting'[i] # holder' /\ waiting'[i] # holder
                 /\ waiting'[i] \in Tasks => At(waiting'[i], "lock")
           /\ (holder' = Worker \/ \E i \in 1 .. Len(waiting') : waiting'[i] = Worker)
                 <=> \E i \in 1 .. Len(waiting) : waiting[i] = Worker
  <1>1. CASE waiting = <<>>
    BY <1>1 DEF LockInvariant, Release
  <1>2. CASE waiting # <<>>
    <2>1. /\ holder' = Head(waiting) /\ waiting' = Tail(waiting)
          /\ waiting \in Seq(Tasks \cup {Worker}) /\ NoRepeats(waiting)
      BY <1>2 DEF LockInvariant, Release
    <2>2. /\ waiting' \in Seq(Tasks \cup {Worker}) /\ Len(waiting') = Len(waiting) - 1
          /\ Len(waiting) \in Nat \ {0}
          /\ \A i \in 1 .. Len(waiting) - 1 : waiting'[i] = waiting[i + 1]
          /\ holder' = waiting[1] /\ holder' \in Tasks \cup {Worker}
      BY <1>2, <2>1, TailFacts, Zenon
    <2>3. NoRepeats(waiting') /\ \A i \in 1 .. Len(waiting') : waiting'[i] # holder'
      BY <1>2, <2>1, TailNoRepeats, Zenon
    <2>4. \A i \in 1 .. Len(waiting) :
             waiting[i] # holder /\ (waiting[i] \in Tasks => At(waiting[i], "lock"))
      BY DEF LockInvariant
    <2>5. (holder' = Worker \/ \E i \in 1 .. Len(waiting') : waiting'[i] = Worker)
             <=> \E i \in 1 .. Len(waiting) : waiting[i] = Worker
      <3>1. ASSUME NEW i \in 1 .. Len(waiting), waiting[i] = Worker, holder' # Worker
            PROVE  \E j \in 1 .. Len(waiting') : waiting'[j] = Worker
        <4>1. i - 1 \in 1 .. Len(waiting') /\ waiting'[i - 1] = waiting[i]
          BY <2>2, <3>1
        <4> QED BY <3>1, <4>1
      <3>2. ASSUME NEW j \in 1 .. Len(waiting'), waiting'[j] = Worker
            PROVE  \E i \in 1 .. Len(waiting) : waiting[i] = Worker
        <4>1. j + 1 \in 1 .. Len(waiting) /\ waiting[j + 1] = waiting'[j]
          BY <2>2
        <4> QED BY <3>2, <4>1
      <3> QED BY <2>2, <3>1, <3>2
    <2> QED
      BY <2>2, <2>3, <2>4, <2>5
  <1> QED BY <1>1, <1>2

LEMMA AcquireKeeps ==
    ASSUME LockInvariant, NEW p \in Tasks \cup {Worker}, Acquire(p), holder # p,
           \A i \in 1 .. Len(waiting) : waiting[i] # p,
           p \in Tasks => At(p, "lock"),
           Worker \notin Tasks, None \notin Tasks, Worker # None
    PROVE  /\ waiting' \in Seq(Tasks \cup {Worker}) /\ NoRepeats(waiting')
           /\ holder' \in Tasks \cup {Worker, None}
           /\ holder' = None => waiting' = <<>>
           /\ holder' \in Tasks => At(holder', "lock")
           /\ \A i \in 1 .. Len(waiting') :
                 /\ waiting'[i] # holder'
                 /\ waiting'[i] \in Tasks => At(waiting'[i], "lock")
           /\ (holder' = Worker \/ \E i \in 1 .. Len(waiting') : waiting'[i] = Worker)
                 <=> p = Worker \/ holder = Worker
                     \/ \E i \in 1 .. Len(waiting) : waiting[i] = Worker
  <1>1. CASE holder = None
    BY <1>1, Zenon DEF LockInvariant, Acquire, NoRepeats
  <1>2. CASE holder # None
    <2>1. /\ waiting' = Append(waiting, p) /\ holder' = holder
          /\ waiting \in Seq(Tasks \cup {Worker}) /\ NoRepeats(waiting)
          /\ Len(waiting) \in Nat
      BY <1>2 DEF LockInvariant, Acquire
    <2>2. /\ NoRepeats(waiting') /\ waiting' \in Seq(Tasks \cup {Worker})
          /\ Len(waiting') = Len(waiting) + 1
          /\ \A i \in 1 .. Len(waiting) : waiting'[i] = waiting[i]
          /\ waiting'[Len(waiting) + 1] = p
      BY <2>1, AppendNoRepeats
    <2>3. (\E i \in 1 .. Len(waiting') : waiting'[i] = Worker)
             <=> p = Worker \/ \E i \in 1 .. Len(waiting) : waiting[i] = Worker
      BY <2>1, <2>2
    <2>4. \A i \in 1 .. Len(waiting') :
                 /\ waiting'[i] # holder'
                 /\ waiting'[i] \in Tasks => At(waiting'[i], "lock")
      BY <2>1, <2>2 DEF LockInvariant
    <2> QED
      BY <1>2, <2>1, <2>2, <2>3, <2>4, Zenon DEF LockInvariant
  <1> QED BY <1>1, <1>2, Zenon

-------------------------------------------------------------------------------
(* Steps *)

(* One task goes on, which neither is in the buffer nor has to do with the *)
(* mutex any more.                                                         *)
LEMMA OneGoesOn ==
    ASSUME Invariant, NEW t \in Tasks, NEW r \in Seq(Free),
           rest' = [rest EXCEPT ![t] = r]
    PROVE  /\ rest' \in [Tasks -> Seq(Free)] /\ rest'[t] = r
           /\ \A u \in Tasks : u # t => rest'[u] = rest[u] /\ At(u, "lock")' = At(u, "lock")
  BY DEF Invariant, TaskInvariant, At

LEMMA BeginKeeps ==
    ASSUME Invariant, Disciplined, NEW t \in Tasks, Begin(t)
    PROVE  Invariant'
  <1>1. PICK p \in Seq(Free) : rest' = [rest EXCEPT ![t] = p]
    BY Zenon DEF Begin, Disciplined
  <1>2. /\ rest' \in [Tasks -> Seq(Free)]
        /\ \A u \in Tasks : u # t => rest'[u] = rest[u] /\ At(u, "lock")' = At(u, "lock")
        /\ rest[t] = <<>> /\ UNCHANGED <<left, holder, waiting, buffer, worker>>
        /\ ~At(t, "lock")
    BY <1>1, OneGoesOn, Zenon DEF Begin, At
  <1>3. TaskInvariant'
    <2>1. \A i \in 1 .. Len(buffer) : buffer[i] \in Tasks /\ buffer[i] # t
      BY <1>2 DEF Invariant, TaskInvariant
    <2>2. worker # t
      BY <1>2, Zenon DEF Invariant, TaskInvariant, Disciplined
    <2> QED BY <1>2, <2>1, <2>2, Zenon DEF Invariant, TaskInvariant
  <1>4. LockInvariant'
    <2>1. holder # t /\ \A i \in 1 .. Len(waiting) : waiting[i] # t
      BY <1>2 DEF Invariant, LockInvariant
    <2> QED BY <1>2, <2>1, Zenon DEF Invariant, LockInvariant
  <1> QED BY <1>3, <1>4, Zenon DEF Invariant

LEMMA LockKeeps ==
    ASSUME Invariant, Disciplined, NEW t \in Tasks, Lock(t)
    PROVE  Invariant'
  <1>1. /\ At(t, "lock") /\ holder # t /\ Acquire(t)
        /\ \A i \in 1 .. Len(waiting) : waiting[i] # t
        /\ UNCHANGED <<rest, buffer, worker>>
        /\ left' = [left EXCEPT ![t] = Head(rest[t]).inside]
    BY DEF Lock, Contains
  <1>2. Head(rest[t]) \in Free
    <2>1. rest[t] \in Seq(Free) /\ rest[t] # <<>>
      BY <1>1 DEF Invariant, TaskInvariant, At
    <2> QED BY <2>1, TailFacts, Zenon
  <1>3. Head(rest[t]).inside = 0
    BY <1>2 DEF Free, Call, Commit, Section
  <1>4. left' = left
    BY <1>1, <1>3, Zenon DEF Invariant, TaskInvariant
  <1>5. \A u \in Tasks : At(u, "lock")' = At(u, "lock")
    BY <1>1, Zenon DEF At
  <1>6. TaskInvariant'
    BY <1>1, <1>4, <1>5, Zenon DEF Invariant, TaskInvariant, At
  <1>7. LockInvariant'
    <2>1. /\ waiting' \in Seq(Tasks \cup {Worker}) /\ NoRepeats(waiting')
          /\ holder' \in Tasks \cup {Worker, None}
          /\ holder' = None => waiting' = <<>>
          /\ holder' \in Tasks => At(holder', "lock")
          /\ \A i \in 1 .. Len(waiting') :
                /\ waiting'[i] # holder'
                /\ waiting'[i] \in Tasks => At(waiting'[i], "lock")
          /\ (holder' = Worker \/ \E i \in 1 .. Len(waiting') : waiting'[i] = Worker)
                <=> holder = Worker \/ \E i \in 1 .. Len(waiting) : waiting[i] = Worker
      BY <1>1, AcquireKeeps DEF Disciplined, Invariant
    <2> QED BY <1>1, <1>5, <2>1 DEF Invariant, LockInvariant
  <1> QED BY <1>6, <1>7, Zenon DEF Invariant

LEMMA UnlockKeeps ==
    ASSUME Invariant, Disciplined, NEW t \in Tasks, Unlock(t)
    PROVE  Invariant'
  <1>1. /\ At(t, "lock") /\ holder = t /\ Release /\ Done(t)
        /\ UNCHANGED <<left, buffer, worker>>
    BY DEF Unlock
  <1>2. Tail(rest[t]) \in Seq(Free)
    BY <1>1, TailFacts, Zenon DEF Invariant, TaskInvariant, At
  <1>3. /\ rest' \in [Tasks -> Seq(Free)]
        /\ \A u \in Tasks : u # t => rest'[u] = rest[u] /\ At(u, "lock")' = At(u, "lock")
    BY <1>1, <1>2, OneGoesOn, Zenon DEF Done
  <1>4. TaskInvariant'
    <2>1. \A i \in 1 .. Len(buffer) : buffer[i] \in Tasks /\ buffer[i] # t
      BY <1>1 DEF Invariant, TaskInvariant
    <2>2. worker # None => worker \in Tasks /\ worker # t
      BY <1>1, Zenon DEF Invariant, TaskInvariant
    <2> QED BY <1>1, <1>3, <2>1, <2>2 DEF Invariant, TaskInvariant
  <1>5. LockInvariant'
    <2>1. /\ waiting' \in Seq(Tasks \cup {Worker}) /\ NoRepeats(waiting')
          /\ holder' \in Tasks \cup {Worker, None}
          /\ holder' = None => waiting' = <<>>
          /\ holder' # t
          /\ holder' \in Tasks => At(holder', "lock")
          /\ \A i \in 1 .. Len(waiting') :
                /\ waiting'[i] # holder' /\ waiting'[i] # t
                /\ waiting'[i] \in Tasks => At(waiting'[i], "lock")
          /\ (holder' = Worker \/ \E i \in 1 .. Len(waiting') : waiting'[i] = Worker)
                <=> \E i \in 1 .. Len(waiting) : waiting[i] = Worker
      BY <1>1, ReleaseKeeps, Zenon DEF Disciplined, Invariant
    <2>2. holder # Worker
      BY <1>1, Zenon DEF Disciplined
    <2> QED BY <1>1, <1>3, <2>1, <2>2, Zenon DEF Invariant, LockInvariant
  <1> QED BY <1>4, <1>5 DEF Invariant

LEMMA AskKeeps ==
    ASSUME Invariant, Disciplined, NEW t \in Tasks, Ask(t)
    PROVE  Invariant'
  <1>1. /\ buffer' = Append(buffer, t) /\ UNCHANGED <<rest, left, holder, waiting, worker>>
        /\ \A i \in 1 .. Len(buffer) : buffer[i] # t
        /\ worker # t
    BY DEF Ask, Contains
  <1>2. rest[t] # <<>> /\ ~At(t, "lock")
    BY DEF Ask, Calls, Invariant, TaskInvariant
  <1>3. /\ NoRepeats(buffer') /\ buffer' \in Seq(Tasks) /\ Len(buffer') = Len(buffer) + 1
        /\ \A i \in 1 .. Len(buffer) : buffer'[i] = buffer[i]
        /\ buffer'[Len(buffer) + 1] = t /\ Len(buffer) \in Nat
    BY <1>1, AppendNoRepeats DEF Invariant, TaskInvariant
  <1>4. \A u \in Tasks : At(u, "lock")' = At(u, "lock")
    BY <1>1 DEF At
  <1>5. \A i \in 1 .. Len(buffer') :
           /\ buffer'[i] \in Tasks /\ rest[buffer'[i]] # <<>>
           /\ ~At(buffer'[i], "lock") /\ buffer'[i] # worker
    BY <1>1, <1>2, <1>3 DEF Invariant, TaskInvariant, Disciplined
  <1>6. TaskInvariant'
    BY <1>1, <1>3, <1>4, <1>5, Zenon DEF Invariant, TaskInvariant
  <1>7. LockInvariant'
    BY <1>1, <1>4, Zenon DEF Invariant, LockInvariant
  <1> QED BY <1>6, <1>7 DEF Invariant

(* The call at the head of the buffer is taken out of it. *)
LEMMA TakeFacts ==
    ASSUME Invariant, buffer # <<>>, buffer' = Tail(buffer)
    PROVE  /\ Head(buffer) \in Tasks /\ rest[Head(buffer)] # <<>>
           /\ ~At(Head(buffer), "lock")
           /\ buffer' \in Seq(Tasks) /\ NoRepeats(buffer')
           /\ \A i \in 1 .. Len(buffer') :
                 /\ buffer'[i] \in Tasks /\ rest[buffer'[i]] # <<>>
                 /\ ~At(buffer'[i], "lock") /\ buffer'[i] # Head(buffer)
                 /\ worker # None => buffer'[i] # worker
  <1>1. /\ buffer \in Seq(Tasks) /\ NoRepeats(buffer)
        /\ \A i \in 1 .. Len(buffer) :
              /\ rest[buffer[i]] # <<>> /\ ~At(buffer[i], "lock")
              /\ worker # None => buffer[i] # worker
    BY DEF Invariant, TaskInvariant
  <1>2. /\ buffer' \in Seq(Tasks) /\ Len(buffer') = Len(buffer) - 1
        /\ Len(buffer) \in Nat \ {0}
        /\ \A i \in 1 .. Len(buffer) - 1 : buffer'[i] = buffer[i + 1]
        /\ Head(buffer) = buffer[1] /\ Head(buffer) \in Tasks
    BY <1>1, TailFacts, Zenon
  <1>3. /\ NoRepeats(buffer')
        /\ \A i \in 1 .. Len(buffer') : buffer'[i] # Head(buffer)
    BY <1>1, TailNoRepeats, Zenon
  <1>4. \A i \in 1 .. Len(buffer') :
                 /\ buffer'[i] \in Tasks /\ rest[buffer'[i]] # <<>>
                 /\ ~At(buffer'[i], "lock")
                 /\ worker # None => buffer'[i] # worker
    BY <1>1, <1>2
  <1> QED BY <1>1, <1>2, <1>3, <1>4

LEMMA ServeKeeps ==
    ASSUME Invariant, Disciplined, Serve
    PROVE  Invariant'
  <1> DEFINE t == Head(buffer)
  <1>1. /\ worker = None /\ buffer # <<>> /\ Answer(t) /\ buffer' = Tail(buffer)
        /\ UNCHANGED <<holder, waiting, worker>>
    BY DEF Serve
  <1>2. /\ t \in Tasks /\ rest[t] # <<>> /\ ~At(t, "lock")
        /\ buffer' \in Seq(Tasks) /\ NoRepeats(buffer')
        /\ \A i \in 1 .. Len(buffer') :
                 /\ buffer'[i] \in Tasks /\ rest[buffer'[i]] # <<>>
                 /\ ~At(buffer'[i], "lock") /\ buffer'[i] # t
    BY <1>1, TakeFacts, Zenon
  <1> HIDE DEF t
  <1>3. rest' = [rest EXCEPT ![t] = Tail(rest[t])] /\ UNCHANGED left
    BY <1>1, <1>2, Zenon DEF Answer, Done
  <1>4. Tail(rest[t]) \in Seq(Free)
    BY <1>2, TailFacts, Zenon DEF Invariant, TaskInvariant
  <1>5. /\ rest' \in [Tasks -> Seq(Free)]
        /\ \A u \in Tasks : u # t => rest'[u] = rest[u] /\ At(u, "lock")' = At(u, "lock")
    BY <1>2, <1>3, <1>4, OneGoesOn, Zenon
  <1>6. TaskInvariant'
    BY <1>1, <1>2, <1>3, <1>5 DEF Invariant, TaskInvariant
  <1>7. LockInvariant'
    <2>1. holder # t /\ \A i \in 1 .. Len(waiting) : waiting[i] # t
      BY <1>2, Zenon DEF Invariant, LockInvariant
    <2> QED BY <1>1, <1>5, <2>1, Zenon DEF Invariant, LockInvariant
  <1> QED BY <1>6, <1>7, Zenon DEF Invariant

LEMMA ServeCheckKeeps ==
    ASSUME Invariant, Disciplined, ServeCheck
    PROVE  Invariant'
  <1>1. /\ worker = None /\ buffer # <<>> /\ worker' = Head(buffer)
        /\ Acquire(Worker) /\ buffer' = Tail(buffer) /\ UNCHANGED <<rest, left>>
    BY DEF ServeCheck
  <1>2. /\ worker' \in Tasks /\ rest[worker'] # <<>> /\ ~At(worker', "lock")
        /\ buffer' \in Seq(Tasks) /\ NoRepeats(buffer')
        /\ \A i \in 1 .. Len(buffer') :
                 /\ buffer'[i] \in Tasks /\ rest[buffer'[i]] # <<>>
                 /\ ~At(buffer'[i], "lock") /\ buffer'[i] # worker'
    BY <1>1, TakeFacts, Zenon
  <1>3. \A u \in Tasks : At(u, "lock")' = At(u, "lock")
    BY <1>1, Zenon DEF At
  <1>4. TaskInvariant'
    BY <1>1, <1>2, <1>3, Zenon DEF Invariant, TaskInvariant
  <1>5. LockInvariant'
    <2>1. holder # Worker /\ \A i \in 1 .. Len(waiting) : waiting[i] # Worker
      BY <1>1, Zenon DEF Invariant, LockInvariant
    <2>2. /\ waiting' \in Seq(Tasks \cup {Worker}) /\ NoRepeats(waiting')
          /\ holder' \in Tasks \cup {Worker, None}
          /\ holder' = None => waiting' = <<>>
          /\ holder' \in Tasks => At(holder', "lock")
          /\ \A i \in 1 .. Len(waiting') :
                /\ waiting'[i] # holder'
                /\ waiting'[i] \in Tasks => At(waiting'[i], "lock")
          /\ holder' = Worker \/ \E i \in 1 .. Len(waiting') : waiting'[i] = Worker
      BY <1>1, <2>1, AcquireKeeps, Zenon DEF Disciplined, Invariant
    <2>3. worker' # None
      BY <1>2, Zenon DEF Disciplined
    <2> QED BY <1>3, <2>2, <2>3, Zenon DEF LockInvariant
  <1> QED BY <1>4, <1>5 DEF Invariant

LEMMA CheckedKeeps ==
    ASSUME Invariant, Disciplined, Checked
    PROVE  Invariant'
  <1>1. /\ worker # None /\ holder = Worker /\ Release /\ Done(worker)
        /\ worker' = None /\ UNCHANGED <<left, buffer>>
    BY DEF Checked
  <1>2. /\ worker \in Tasks /\ rest[worker] # <<>> /\ ~At(worker, "lock")
        /\ \A i \in 1 .. Len(buffer) : buffer[i] # worker
    BY <1>1, Zenon DEF Invariant, TaskInvariant
  <1>3. Tail(rest[worker]) \in Seq(Free)
    BY <1>2, TailFacts, Zenon DEF Invariant, TaskInvariant
  <1>4. /\ rest' \in [Tasks -> Seq(Free)]
        /\ \A u \in Tasks : u # worker => rest'[u] = rest[u] /\ At(u, "lock")' = At(u, "lock")
    BY <1>1, <1>2, <1>3, OneGoesOn, Zenon DEF Done
  <1>5. TaskInvariant'
    <2>1. \A i \in 1 .. Len(buffer) : buffer[i] \in Tasks
      BY DEF Invariant, TaskInvariant
    <2> QED BY <1>1, <1>2, <1>4, <2>1, Zenon DEF Invariant, TaskInvariant
  <1>6. LockInvariant'
    <2>1. /\ waiting' \in Seq(Tasks \cup {Worker}) /\ NoRepeats(waiting')
          /\ holder' \in Tasks \cup {Worker, None}
          /\ holder' = None => waiting' = <<>>
          /\ holder' \in Tasks => At(holder', "lock")
          /\ \A i \in 1 .. Len(waiting') :
                /\ waiting'[i] # holder'
                /\ waiting'[i] \in Tasks => At(waiting'[i], "lock")
          /\ (holder' = Worker \/ \E i \in 1 .. Len(waiting') : waiting'[i] = Worker)
                <=> \E i \in 1 .. Len(waiting) : waiting[i] = Worker
      BY <1>1, ReleaseKeeps DEF Disciplined, Invariant
    <2>2. ~ \E i \in 1 .. Len(waiting) : waiting[i] = Worker
      BY <1>1 DEF Invariant, LockInvariant
    <2> QED BY <1>1, <1>2, <1>4, <2>1, <2>2, Zenon DEF LockInvariant
  <1> QED BY <1>5, <1>6 DEF Invariant

-------------------------------------------------------------------------------
(* The theorems *)

(* Whenever the worker of the state's buffer waits for the mutex           *)
(* (blocking_lock), its holder is in a section that ends without the       *)
(* worker: for any number of tasks that make no state call while they hold *)
(* the mutex, with any number of blocks, calls and places in the buffer.   *)
THEOREM DisciplineSuffices ==
    ASSUME Disciplined
    PROVE  Spec => []WorkerIsNotWaitedFor
  <1>1. Init => Invariant
    BY DEF Disciplined, Init, Invariant, TaskInvariant, LockInvariant, NoRepeats
  <1>2. Invariant /\ [Next]_vars => Invariant'
    <2> SUFFICES ASSUME Invariant, [Next]_vars PROVE Invariant'
      BY Zenon
    <2>1. CASE UNCHANGED vars
      BY <2>1, Zenon DEF vars, Invariant, TaskInvariant, LockInvariant, At
    <2> QED
      BY <2>1, BeginKeeps, LockKeeps, UnlockKeeps, AskKeeps, ServeKeeps,
         ServeCheckKeeps, CheckedKeeps, Zenon DEF Next
  <1>3. Invariant => WorkerIsNotWaitedFor
    BY DEF Disciplined, Invariant, TaskInvariant, LockInvariant,
           WorkerIsNotWaitedFor, Contains
  <1> QED BY <1>1, <1>2, <1>3, PTL DEF Spec

(* Which programs keep to the discipline: the closures that tenderlink     *)
(* awaits, handle_new_decided_bft_block among them, the main loop, the     *)
(* requests that only read TFLServiceInternal, and the block verifier.     *)
DisciplinedPrograms == Tenderlink \cup MainLoop \cup ReadInternal \cup CommitBlocks

LEMMA ProgramsAreFree == DisciplinedPrograms \subseteq Seq(Free)
  <1>1. Call \in Free /\ Commit \in Free /\ Section(0) \in Free
    BY DEF Free
  <1>2. \A a, b, c, d, e, f \in Free :
           /\ <<a>> \in Seq(Free) /\ <<a, b>> \in Seq(Free)
           /\ <<a, b, c, d, e>> \in Seq(Free)
           /\ <<a, b, c, d, e, f>> \in Seq(Free)
    OBVIOUS
  <1> QED
    BY <1>1, <1>2 DEF DisciplinedPrograms, Tenderlink, ProposeNewBftBlock, ValidateBftBlock,
       HandleNewDecidedBftBlock, UpdatePeers, MainLoop, ReadInternal, CommitBlocks

(* The requests for the finality of a block are the only cause of the      *)
(* deadlock that heldlock shows: a node on which any number of tasks runs  *)
(* the other programs, in any interleaving and with a buffer of any size,  *)
(* never reaches a state in which the worker of the state's buffer waits   *)
(* for the mutex and its holder for the worker.                            *)
THEOREM OnlyFinalityRequestsBlock ==
    ASSUME \A t \in Tasks : Programs[t] \subseteq DisciplinedPrograms,
           Worker \notin Tasks, None \notin Tasks, Worker # None
    PROVE  Spec => []WorkerIsNotWaitedFor
  <1>1. Disciplined
    BY ProgramsAreFree, Zenon DEF Disciplined
  <1> QED BY <1>1, DisciplineSuffices

===============================================================================
