---------------------------- MODULE DownloadPool ----------------------------
(***************************************************************************)
(* DownloadChanges of download/cmd/download.go: the main goroutine hands   *)
(* the changed files to a pool of workers over an unbuffered channel,      *)
(* closes it, and then waits for one "done" of each worker.  A worker      *)
(* overwrites the file in place; what goes wrong with a file is appended   *)
(* to errs and the worker goes on with the next one, except when it cannot *)
(* make the directory: then it leaves the pool.                            *)
(*                                                                         *)
(* The caller commits the new patch list as installed when errs is empty,  *)
(* so errs must not hide a file that is not what the list says.            *)
(***************************************************************************)
EXTENDS Integers, FiniteSets

CONSTANTS Files,      \* the entries of changes, each with a path of its own
          Parallel,   \* the -p flag
          NoFile      \* the job of an idle worker

ASSUME FilesAssumption == IsFiniteSet(Files)
ASSUME ParallelAssumption == Parallel \in Int
ASSUME NoFileAssumption == NoFile \notin Files

Workers == 1 .. (IF Parallel <= 0 THEN 1 ELSE Parallel)

VARIABLES
    main,     \* pc of DownloadChanges
    unsent,   \* entries not handed over yet
    joined,   \* dones received
    worker,   \* pc of each worker
    job,      \* the entry a worker is at
    errs,     \* the entries complained about
    disk      \* what is on disk under an entry's path

vars == <<main, unsent, joined, worker, job, errs, disk>>

WorkerStates == {"idle", "mkdir", "request", "create", "copy", "leaving", "left"}
Busy == {"mkdir", "request", "create", "copy"}

\* "old": whatever was there before, or nothing.  "good": the size and the hash
\* of the entry.  "short" and "corrupt": what a failed download leaves behind.
Contents == {"old", "good", "short", "corrupt"}

\* Every variable has its type: no more dones are received than there are workers.
TypeOK ==
    /\ main \in {"sending", "joining", "returned"}
    /\ unsent \subseteq Files
    /\ joined \in 0 .. Cardinality(Workers)
    /\ worker \in [Workers -> WorkerStates]
    /\ job \in [Workers -> Files \cup {NoFile}]
    /\ errs \subseteq Files
    /\ disk \in [Files -> Contents]

Init ==
    /\ main = "sending"
    /\ unsent = Files
    /\ joined = 0
    /\ worker = [w \in Workers |-> "idle"]
    /\ job = [w \in Workers |-> NoFile]
    /\ errs = {}
    /\ disk = [f \in Files |-> "old"]

-----------------------------------------------------------------------------
(* The workers.                                                            *)

WorkerStep(w, from, to) ==
    /\ worker[w] = from
    /\ worker' = [worker EXCEPT ![w] = to]

Complain(w) == errs' = errs \cup {job[w]}

\* queue <-e and e := <-queue.
Take(w, f) ==
    /\ main = "sending" /\ f \in unsent
    /\ WorkerStep(w, "idle", "mkdir")
    /\ job' = [job EXCEPT ![w] = f]
    /\ unsent' = unsent \ {f}
    /\ UNCHANGED <<main, joined, errs, disk>>

\* The channel is closed.
NoMore(w) ==
    /\ main # "sending"
    /\ WorkerStep(w, "idle", "leaving")
    /\ UNCHANGED <<main, unsent, joined, job, errs, disk>>

Mkdir(w) ==
    /\ WorkerStep(w, "mkdir", "request")
    /\ UNCHANGED <<main, unsent, joined, job, errs, disk>>

\* MUTANT of MkdirFails: the worker returns without sending done.
MkdirFailsReturns(w) ==
    /\ WorkerStep(w, "mkdir", "left")
    /\ Complain(w)
    /\ UNCHANGED <<main, unsent, joined, job, disk>>

\* break: the worker takes no other entry.
MkdirFails(w) ==
    /\ WorkerStep(w, "mkdir", "leaving")
    /\ Complain(w)
    /\ UNCHANGED <<main, unsent, joined, job, disk>>

Request(w) ==
    /\ WorkerStep(w, "request", "create")
    /\ UNCHANGED <<main, unsent, joined, job, errs, disk>>

\* MUTANT of RequestFails: continue without a complaint.
RequestFailsSilently(w) ==
    /\ WorkerStep(w, "request", "idle")
    /\ UNCHANGED <<main, unsent, joined, job, errs, disk>>

\* A bad URL, no answer, a status other than 200 or a Content-Length that is
\* not the entry's size.
RequestFails(w) ==
    /\ WorkerStep(w, "request", "idle")
    /\ Complain(w)
    /\ UNCHANGED <<main, unsent, joined, job, disk>>

\* os.Create truncates what was there.
Create(w) ==
    /\ WorkerStep(w, "create", "copy")
    /\ disk' = [disk EXCEPT ![job[w]] = "short"]
    /\ UNCHANGED <<main, unsent, joined, job, errs>>

CreateFails(w) ==
    /\ WorkerStep(w, "create", "idle")
    /\ Complain(w)
    /\ UNCHANGED <<main, unsent, joined, job, disk>>

\* MUTANT of Copy: the hash is not compared.
CopyUnhashed(w) ==
    /\ WorkerStep(w, "copy", "idle")
    /\ \E result \in {"good", "short", "corrupt"} :
          /\ disk' = [disk EXCEPT ![job[w]] = result]
          /\ IF result = "short" THEN Complain(w) ELSE UNCHANGED errs
    /\ UNCHANGED <<main, unsent, joined, job>>

\* io.Copy to the file and to the hash, then the two comparisons.
Copy(w) ==
    /\ WorkerStep(w, "copy", "idle")
    /\ \E result \in {"good", "short", "corrupt"} :
          /\ disk' = [disk EXCEPT ![job[w]] = result]
          /\ IF result = "good" THEN UNCHANGED errs ELSE Complain(w)
    /\ UNCHANGED <<main, unsent, joined, job>>

\* done <-true and <-done.
Join(w) ==
    /\ main = "joining"
    /\ WorkerStep(w, "leaving", "left")
    /\ joined' = joined + 1
    /\ UNCHANGED <<main, unsent, job, errs, disk>>

Work(w) ==
    \/ \E f \in Files : Take(w, f)
    \/ NoMore(w)
    \/ Mkdir(w) \/ MkdirFails(w)
    \/ Request(w) \/ RequestFails(w)
    \/ Create(w) \/ CreateFails(w)
    \/ Copy(w)
    \/ Join(w)

-----------------------------------------------------------------------------
(* DownloadChanges itself.                                                 *)

CloseQueue ==
    /\ main = "sending" /\ unsent = {}
    /\ main' = "joining"
    /\ UNCHANGED <<unsent, joined, worker, job, errs, disk>>

\* Mutant of Return: the first done is taken for the last.
ReturnEarly ==
    /\ main = "joining" /\ joined > 0
    /\ main' = "returned"
    /\ UNCHANGED <<unsent, joined, worker, job, errs, disk>>

Return ==
    /\ main = "joining" /\ joined = Cardinality(Workers)
    /\ main' = "returned"
    /\ UNCHANGED <<unsent, joined, worker, job, errs, disk>>

Next == CloseQueue \/ Return \/ \E w \in Workers : Work(w)

\* Every goroutine that can go on does.  This includes that an HTTP request is
\* answered or fails: the client sets no timeout of its own.
Fairness ==
    /\ WF_vars(CloseQueue) /\ WF_vars(Return)
    /\ \A w \in Workers : WF_vars(Work(w))

Spec == Init /\ [][Next]_vars /\ Fairness

-----------------------------------------------------------------------------
(* Correctness.                                                            *)

\* The result can be trusted: once DownloadChanges has returned, every entry
\* whose file is not what the list says is in errs.  With no error at all
\* main commits the list as installed (pso2-download/download.go:186-188).
ErrorsAreComplete ==
    main = "returned" => \A f \in Files : disk[f] = "good" \/ f \in errs

\* Every worker has left after a failed MkdirAll, and somebody is still to
\* receive the next entry.
Deserted ==
    /\ main = "sending" /\ unsent # {}
    /\ \A w \in Workers : worker[w] = "leaving"

\* An entry is nobody's only when it has been dealt with: whatever the pool
\* has not finished is in the queue or with exactly one worker.
InHand(f) == {w \in Workers : worker[w] \in Busy /\ job[w] = f}
EntriesAccountedFor ==
    \A f \in Files :
        \/ f \in unsent /\ InHand(f) = {}
        \/ f \notin unsent /\ \E w \in Workers : InHand(f) = {w}
        \/ f \notin unsent /\ InHand(f) = {} /\ (disk[f] = "good" \/ f \in errs)

\* The inductive invariant behind ErrorsAreComplete: no worker can be at work
\* when the last done has been received.
PoolInv ==
    /\ TypeOK
    /\ EntriesAccountedFor
    /\ \A w \in Workers : worker[w] \in Busy => job[w] \in Files
    /\ main # "sending" => unsent = {}
    /\ joined = Cardinality({w \in Workers : worker[w] = "left"})
    /\ main = "returned" => joined = Cardinality(Workers)

\* DownloadChanges is a pool: each entry goes to one worker, once, and it returns
\* only when no worker is at work any more.
Pool == INSTANCE WorkPool
            WITH Items <- Files,
                 todo <- unsent,
                 doing <- {f \in Files : InHand(f) # {}},
                 returned <- (main = "returned")
PoolImplemented == Pool!Spec

\* DownloadChanges returns, unless every worker was lost to MkdirAll first.
ReturnsUnlessDeserted == <>(main = "returned" \/ Deserted)

\* DownloadChanges returns.
Returns == <>(main = "returned")
=============================================================================
