------------------------- MODULE DownloadPoolProofs -------------------------
(* Proofs about DownloadPool, for every finite set of entries and every    *)
(* value of the -p flag.                                                   *)
EXTENDS DownloadPool, FiniteSetTheorems, TLAPS

Left == {w \in Workers : worker[w] = "left"}

LEMMA WorkersFinite == IsFiniteSet(Workers) /\ Cardinality(Workers) \in Nat
  <1>1. PICK n \in Int : Workers = 1 .. n
    BY ParallelAssumption DEF Workers
  <1>2. IsFiniteSet(Workers)
    BY <1>1, FS_Interval
  <1> QED
    BY <1>2, FS_CardinalityType

LEMMA LeftFinite == IsFiniteSet(Left) /\ Cardinality(Left) \in 0 .. Cardinality(Workers)
  <1>1. Left \subseteq Workers
    BY DEF Left
  <1> QED
    BY <1>1, WorkersFinite, FS_Subset, FS_CardinalityType

LEMMA InitEstablishes == Init => PoolInv
  <1> SUFFICES ASSUME Init PROVE PoolInv
    OBVIOUS
  <1> USE DEF Init
  <1>1. TypeOK
    BY WorkersFinite DEF TypeOK, WorkerStates, Contents
  <1>2. \A f \in Files : InHand(f) = {}
    BY DEF InHand, Busy
  <1>3. EntriesAccountedFor
    BY <1>2 DEF EntriesAccountedFor
  <1>4. Left = {}
    BY DEF Left
  <1>5. joined = Cardinality(Left)
    BY <1>4, FS_EmptySet
  <1>6. \A w \in Workers : worker[w] \in Busy => job[w] \in Files
    BY DEF Busy
  <1> QED
    BY <1>1, <1>3, <1>5, <1>6 DEF PoolInv, Left

(* A worker that is at an entry is the only one, and the entry is not in   *)
(* the queue.                                                              *)
LEMMA OnlyWorker ==
    ASSUME PoolInv, NEW w \in Workers, worker[w] \in Busy
    PROVE  job[w] \in Files /\ InHand(job[w]) = {w} /\ job[w] \notin unsent
  <1>1. job[w] \in Files /\ w \in InHand(job[w])
    BY DEF PoolInv, InHand
  <1> QED
    BY <1>1 DEF PoolInv, EntriesAccountedFor

(* The entries: which one moves from where to where.                       *)
LEMMA AccountingPreserved ==
    ASSUME PoolInv, NEW w \in Workers, Work(w)
    PROVE  EntriesAccountedFor'
  <1> USE DEF PoolInv
  <1> SUFFICES ASSUME NEW g \in Files
               PROVE  (\/ g \in unsent /\ InHand(g) = {}
                       \/ g \notin unsent /\ \E v \in Workers : InHand(g) = {v}
                       \/ g \notin unsent /\ InHand(g) = {} /\ (disk[g] = "good" \/ g \in errs))'
    BY DEF EntriesAccountedFor
  <1>0. TypeOK /\ EntriesAccountedFor
    OBVIOUS
  <1>1. CASE \E f \in Files : Take(w, f)
    <2>1. PICK f \in Files : Take(w, f)
      BY <1>1
    <2>2. InHand(f) = {}
      BY <2>1 DEF Take, EntriesAccountedFor
    <2>3. CASE g = f
      <3>1. InHand(g)' = {w}
        BY <2>1, <2>2, <2>3 DEF InHand, Take, WorkerStep, TypeOK, Busy
      <3> QED
        BY <3>1, <2>1, <2>3 DEF Take
    <2>4. CASE g # f
      <3>1. InHand(g)' = InHand(g)
        BY <2>1, <2>4 DEF InHand, Take, WorkerStep, TypeOK, Busy
      <3> QED
        BY <3>1, <2>1, <2>4, <1>0 DEF Take, EntriesAccountedFor
    <2> QED
      BY <2>3, <2>4
  <1>2. CASE NoMore(w) \/ Join(w)
    <2>1. InHand(g)' = InHand(g)
      BY <1>2 DEF InHand, NoMore, Join, WorkerStep, TypeOK, Busy
    <2> QED
      BY <2>1, <1>2, <1>0 DEF NoMore, Join, EntriesAccountedFor
  <1>3. CASE Mkdir(w) \/ Request(w) \/ Create(w)
    <2>1. worker[w] \in Busy
      BY <1>3 DEF Mkdir, Request, Create, WorkerStep, Busy
    <2>2. InHand(g)' = InHand(g)
      BY <1>3 DEF InHand, Mkdir, Request, Create, WorkerStep, TypeOK, Busy
    <2>3. CASE g = job[w]
      BY <2>1, <2>2, <2>3, <1>3, OnlyWorker DEF Mkdir, Request, Create
    <2>4. CASE g # job[w]
      <3>1. disk'[g] = disk[g] /\ UNCHANGED <<unsent, errs>>
        BY <2>1, <2>4, <1>3, OnlyWorker DEF Mkdir, Request, Create, TypeOK
      <3> QED
        BY <2>2, <3>1, <1>0 DEF EntriesAccountedFor
    <2> QED
      BY <2>3, <2>4
  <1>4. CASE MkdirFails(w) \/ RequestFails(w) \/ CreateFails(w) \/ Copy(w)
    <2>1. worker[w] \in Busy
      BY <1>4 DEF MkdirFails, RequestFails, CreateFails, Copy, WorkerStep, Busy
    <2>2. UNCHANGED <<unsent, job>> /\ worker'[w] \notin Busy
          /\ \A v \in Workers : v # w => worker'[v] = worker[v]
      BY <1>4 DEF MkdirFails, RequestFails, CreateFails, Copy, WorkerStep, Busy, TypeOK
    <2>3. CASE g = job[w]
      <3>1. InHand(g)' = {}
        <4>1. InHand(g) = {w}
          BY <2>1, <2>3, OnlyWorker
        <4> QED
          BY <4>1, <2>2, <2>3 DEF InHand
      <3>2. disk'[g] = "good" \/ g \in errs'
        BY <1>4, <2>3 DEF MkdirFails, RequestFails, CreateFails, Copy, Complain, TypeOK
      <3> QED
        BY <3>1, <3>2, <2>1, <2>2, <2>3, OnlyWorker
    <2>4. CASE g # job[w]
      <3>1. InHand(g)' = InHand(g)
        BY <2>2, <2>4 DEF InHand
      <3>2. disk'[g] = disk[g] /\ (g \in errs => g \in errs')
        BY <1>4, <2>4 DEF MkdirFails, RequestFails, CreateFails, Copy, Complain, TypeOK
      <3> QED
        BY <3>1, <3>2, <2>2, <1>0 DEF EntriesAccountedFor
    <2> QED
      BY <2>3, <2>4
  <1> QED
    BY <1>1, <1>2, <1>3, <1>4 DEF Work

LEMMA WorkPreserves ==
    ASSUME PoolInv, NEW w \in Workers, Work(w)
    PROVE  PoolInv'
  <1> USE DEF PoolInv
  <1>1. EntriesAccountedFor'
    BY AccountingPreserved
  <1>2. main' = main
    BY DEF Work, Take, NoMore, Mkdir, MkdirFails, Request, RequestFails, Create,
           CreateFails, Copy, Join
  <1>3. joined' = Cardinality(Left') /\ joined' \in 0 .. Cardinality(Workers)
    <2>1. CASE Join(w)
      <3>1. Left' = Left \cup {w} /\ w \notin Left
        BY <2>1 DEF Join, WorkerStep, Left, TypeOK
      <3>2. Cardinality(Left') = Cardinality(Left) + 1
        BY <3>1, LeftFinite, FS_AddElement
      <3>3. Cardinality(Left') \in 0 .. Cardinality(Workers)
        <4>1. Left' \subseteq Workers
          BY DEF Left
        <4> QED
          BY <4>1, WorkersFinite, FS_Subset, FS_CardinalityType
      <3> QED
        BY <2>1, <3>2, <3>3 DEF Join, Left
    <2>2. CASE ~Join(w)
      <3>1. joined' = joined
        BY <2>2 DEF Work, Take, NoMore, Mkdir, MkdirFails, Request, RequestFails,
               Create, CreateFails, Copy
      <3>2. worker[w] # "left" /\ worker'[w] # "left"
            /\ \A v \in Workers : v # w => worker'[v] = worker[v]
        BY <2>2 DEF Work, Take, NoMore, Mkdir, MkdirFails, Request, RequestFails,
               Create, CreateFails, Copy, WorkerStep, TypeOK
      <3>3. Left' = Left
        BY <3>2 DEF Left
      <3> QED
        BY <3>1, <3>3, LeftFinite DEF Left
    <2> QED
      BY <2>1, <2>2
  <1>4. TypeOK'
    <2>1. CASE \E f \in Files : Take(w, f)
      BY <2>1 DEF TypeOK, Take, WorkerStep, WorkerStates
    <2>2. CASE NoMore(w) \/ Mkdir(w) \/ Request(w)
      BY <2>2 DEF TypeOK, NoMore, Mkdir, Request, WorkerStep, WorkerStates
    <2>3. CASE MkdirFails(w) \/ RequestFails(w) \/ CreateFails(w)
      <3>1. job[w] \in Files
        BY <2>3 DEF MkdirFails, RequestFails, CreateFails, WorkerStep, Busy
      <3> QED
        BY <2>3, <3>1 DEF TypeOK, MkdirFails, RequestFails, CreateFails, Complain,
               WorkerStep, WorkerStates
    <2>4. CASE Create(w)
      BY <2>4 DEF TypeOK, Create, WorkerStep, WorkerStates, Contents
    <2>5. CASE Copy(w)
      <3>1. job[w] \in Files
        BY <2>5 DEF Copy, WorkerStep, Busy
      <3> QED
        BY <2>5, <3>1 DEF TypeOK, Copy, Complain, WorkerStep, WorkerStates, Contents
    <2>6. CASE Join(w)
      BY <2>6, <1>3 DEF TypeOK, Join, WorkerStep, WorkerStates
    <2> QED
      BY <2>1, <2>2, <2>3, <2>4, <2>5, <2>6 DEF Work
  <1>5. \A v \in Workers : worker'[v] \in Busy => job'[v] \in Files
    BY DEF Work, Take, NoMore, Mkdir, MkdirFails, Request, RequestFails, Create,
           CreateFails, Copy, Join, WorkerStep, Busy, TypeOK
  <1>6. main' # "sending" => unsent' = {}
    BY <1>2 DEF Work, Take, NoMore, Mkdir, MkdirFails, Request, RequestFails, Create,
           CreateFails, Copy, Join
  <1>7. main' = "returned" => joined' = Cardinality(Workers)
    BY <1>2, <1>3 DEF Work, Take, NoMore, Mkdir, MkdirFails, Request, RequestFails,
           Create, CreateFails, Copy, Join
  <1> QED
    BY <1>1, <1>3, <1>4, <1>5, <1>6, <1>7 DEF Left

LEMMA StepPreserves == PoolInv /\ [Next]_vars => PoolInv'
  <1> SUFFICES ASSUME PoolInv, [Next]_vars PROVE PoolInv'
    OBVIOUS
  <1>1. CASE CloseQueue
    BY <1>1 DEF CloseQueue, PoolInv, TypeOK, EntriesAccountedFor, InHand
  <1>2. CASE Return
    BY <1>2 DEF Return, PoolInv, TypeOK, EntriesAccountedFor, InHand
  <1>3. CASE \E w \in Workers : Work(w)
    BY <1>3, WorkPreserves
  <1>4. CASE UNCHANGED vars
    BY <1>4 DEF vars, PoolInv, TypeOK, EntriesAccountedFor, InHand
  <1> QED
    BY <1>1, <1>2, <1>3, <1>4 DEF Next

-----------------------------------------------------------------------------
(* The pool's bookkeeping: entries, workers and dones.                     *)
THEOREM PoolInvariant == Spec => []PoolInv
  BY InitEstablishes, StepPreserves, PTL DEF Spec

(* Whatever the number of workers and whatever fails, an empty errs means  *)
(* that every file is what the patch list says.                            *)
THEOREM ErrorsComplete == Spec => []ErrorsAreComplete
  <1>1. PoolInv => ErrorsAreComplete
    <2> SUFFICES ASSUME PoolInv, main = "returned", NEW f \in Files
                 PROVE  disk[f] = "good" \/ f \in errs
      BY DEF ErrorsAreComplete
    <2>1. Left = Workers
      <3>1. Left \subseteq Workers /\ Cardinality(Left) = Cardinality(Workers)
        BY DEF Left, PoolInv
      <3> QED
        BY <3>1, WorkersFinite, FS_Subset
    <2>2. InHand(f) = {}
      BY <2>1 DEF Left, InHand, Busy
    <2> QED
      BY <2>2 DEF PoolInv, EntriesAccountedFor
  <1> QED
    BY <1>1, PoolInvariant, PTL

(* The type invariant.                                                     *)
THEOREM TypeCorrect == Spec => []TypeOK
  <1>1. PoolInv => TypeOK
    BY DEF PoolInv
  <1> QED
    BY <1>1, PoolInvariant, PTL

-----------------------------------------------------------------------------
(* DownloadChanges implements WorkPool.                                    *)
Doing == {f \in Files : InHand(f) # {}}

(* When the last done has been received no entry is in hand.               *)
LEMMA NobodyLeft ==
    ASSUME PoolInv, joined = Cardinality(Workers)
    PROVE  Doing = {}
  <1>1. Left \subseteq Workers /\ Cardinality(Left) = Cardinality(Workers)
    BY DEF Left, PoolInv
  <1>2. Left = Workers
    BY <1>1, WorkersFinite, FS_Subset
  <1> QED
    BY <1>2 DEF Left, Doing, InHand, Busy

(* A worker that stays at its entry, or has none, changes nothing.         *)
LEMMA SameHands ==
    ASSUME PoolInv, NEW w \in Workers, NEW to,
           worker' = [worker EXCEPT ![w] = to],
           worker[w] \in Busy <=> to \in Busy, UNCHANGED job
    PROVE  Doing' = Doing
  <1> SUFFICES ASSUME NEW f \in Files PROVE InHand(f)' = InHand(f)
    BY DEF Doing
  <1> QED
    BY DEF InHand, PoolInv, TypeOK

(* A worker that is done with its entry ends it.                           *)
LEMMA HandsOff ==
    ASSUME PoolInv, NEW w \in Workers, NEW to, worker[w] \in Busy, to \notin Busy,
           worker' = [worker EXCEPT ![w] = to], UNCHANGED job
    PROVE  job[w] \in Doing /\ Doing' = Doing \ {job[w]}
  <1>1. job[w] \in Files /\ InHand(job[w]) = {w}
    BY OnlyWorker
  <1>2. InHand(job[w])' = {}
    BY <1>1 DEF InHand, PoolInv, TypeOK
  <1>3. ASSUME NEW f \in Files, f # job[w] PROVE InHand(f)' = InHand(f)
    BY <1>3 DEF InHand, PoolInv, TypeOK
  <1> QED
    BY <1>1, <1>2, <1>3 DEF Doing

LEMMA WorkImplements ==
    ASSUME PoolInv, NEW w \in Workers, Work(w)
    PROVE  Pool!Next \/ UNCHANGED <<unsent, Doing, main = "returned">>
  <1> USE DEF WorkerStep
  <1>1. ASSUME NEW f \in Files, Take(w, f) PROVE Pool!Begin(f)
    <2>1. InHand(f) = {}
      BY <1>1 DEF Take, PoolInv, EntriesAccountedFor
    <2>2. InHand(f)' = {w}
      BY <1>1, <2>1 DEF Take, InHand, Busy, PoolInv, TypeOK
    <2>3. ASSUME NEW g \in Files, g # f PROVE InHand(g)' = InHand(g)
      BY <1>1, <2>3 DEF Take, InHand, Busy, PoolInv, TypeOK
    <2>4. Doing' = Doing \cup {f}
      BY <2>2, <2>3 DEF Doing
    <2> QED
      BY <1>1, <2>4 DEF Take, Pool!Begin, Doing
  <1>2. CASE NoMore(w) \/ Mkdir(w) \/ Request(w) \/ Create(w) \/ Join(w)
    <2>1. Doing' = Doing
      BY <1>2, SameHands DEF NoMore, Mkdir, Request, Create, Join, Busy
    <2> QED
      BY <1>2, <2>1 DEF NoMore, Mkdir, Request, Create, Join
  <1>3. CASE MkdirFails(w) \/ RequestFails(w) \/ CreateFails(w) \/ Copy(w)
    <2>1. job[w] \in Doing /\ Doing' = Doing \ {job[w]}
      BY <1>3, HandsOff DEF MkdirFails, RequestFails, CreateFails, Copy, Busy
    <2>2. Pool!End(job[w])
      BY <1>3, <2>1 DEF Pool!End, Doing, MkdirFails, RequestFails, CreateFails, Copy
    <2> QED
      BY <2>1, <2>2 DEF Pool!Next, Doing
  <1> QED
    BY <1>1, <1>2, <1>3 DEF Work, Pool!Next

LEMMA StepImplements ==
    PoolInv /\ [Next]_vars => [Pool!Next]_<<unsent, Doing, main = "returned">>
  <1> SUFFICES ASSUME PoolInv, [Next]_vars
               PROVE  Pool!Next \/ UNCHANGED <<unsent, Doing, main = "returned">>
    OBVIOUS
  <1>1. CASE CloseQueue
    BY <1>1 DEF CloseQueue, Doing, InHand
  <1>2. CASE Return
    <2>1. Pool!Return
      BY <1>2, NobodyLeft DEF Return, Pool!Return, Doing, InHand, PoolInv
    <2> QED
      BY <2>1 DEF Pool!Next
  <1>3. CASE \E w \in Workers : Work(w)
    BY <1>3, WorkImplements
  <1>4. CASE UNCHANGED vars
    BY <1>4 DEF vars, Doing, InHand
  <1> QED
    BY <1>1, <1>2, <1>3, <1>4 DEF Next

(* For every number of entries and workers, DownloadChanges hands each     *)
(* entry to one worker, once, and returns only when all are dealt with.    *)
THEOREM ImplementsPool == Spec => PoolImplemented
  <1>1. Init => Pool!Init
    BY DEF Init, Pool!Init, InHand, Busy
  <1>2. PoolInv /\ [Next]_vars => [Pool!Next]_<<unsent, Doing, main = "returned">>
    BY StepImplements
  <1>3. Pool!Spec <=> Pool!Init /\ [][Pool!Next]_<<unsent, Doing, main = "returned">>
    BY DEF Pool!Spec, Doing
  <1> QED
    BY <1>1, <1>2, <1>3, PoolInvariant, PTL DEF Spec, PoolImplemented
=============================================================================
