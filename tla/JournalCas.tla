----------------------------- MODULE JournalCas -----------------------------
(***************************************************************************)
(* The journal as it is written: JsonFileSandboxStore (src/state/store.ts),*)
(* one JSON file of all records behind a promise chain, rewritten through  *)
(* a temporary file and a rename; and the read / compare-and-swap / retry  *)
(* loops of SupervisorCore.#update and of the jail registry on top of it.  *)
(* It implements AtomicJournal.                                            *)
(***************************************************************************)
EXTENDS Naturals, Sequences

CONSTANTS Ids, Writers, Kind,
          Targets,       \* the records each call may be for
          MaxAttempts,   \* MAX_CAS_ATTEMPTS
          Faults         \* which of "write" and "crash" happen in this run

ASSUME AttemptsAssumption == MaxAttempts \in Nat \ {0}
ASSUME JournalFaultsAssumption == Faults \subseteq {"write", "crash"}

VARIABLES
    file,      \* the state file as the next #read sees it
    rev,       \* record.revision, kept beside the rest of the record
    temps,     \* calls that have a <state>.<uuid>.tmp on disk
    aged,      \* the temps older than ABANDONED_TEMP_MAX_AGE_MS
    chain,     \* #tail: the calls inside #exclusive, the first one running
    pc, tgt,   \* where each call is, and its sandbox id
    seen,      \* the revision its get() returned
    attempt,   \* the loop counter of #update
    first,     \* the revision its first get() returned (history)
    buf,       \* the state it is about to write, as <<file, rev>>
    out

vars == <<file, rev, temps, aged, chain, pc, tgt, seen, attempt, first, buf, out>>

None == "none"
Empty == <<>>

Abstract == INSTANCE AtomicJournal WITH journal <- file

ASSUME TargetsAssumption == Targets \in [Writers -> SUBSET Ids]
ASSUME JournalNone == None \notin Ids
ASSUME KindAssumption == Kind \in [Writers -> Abstract!Kinds]

Pcs == {"idle", "toRead", "read", "toSwap", "swap", "open", "rename", "return", "end"}

\* Every variable holds a value of its declared kind.
TypeOK ==
    /\ file \in [Ids -> Abstract!Record]
    /\ rev \in [Ids -> Nat]
    /\ temps \subseteq Writers /\ aged \subseteq temps
    /\ chain \in Seq(Writers)
    /\ pc \in [Writers -> Pcs]
    /\ tgt \in [Writers -> Ids \cup {None}]
    /\ \A w \in Writers : tgt[w] = None <=> pc[w] = "idle"
    /\ seen \in [Writers -> Nat]
    /\ attempt \in [Writers -> 0..MaxAttempts]
    /\ \A w \in Writers : attempt[w] = MaxAttempts => pc[w] = "end"
    /\ first \in [Writers -> Nat]
    /\ DOMAIN buf = Writers
    /\ \A w \in Writers :
          IF pc[w] \in {"open", "rename"}
          THEN buf[w] \in [Ids -> Abstract!Record] \X [Ids -> Nat]
          ELSE buf[w] = Empty
    /\ out \in [Writers -> Abstract!Outcomes]

\* rootd has just started on the file an earlier process left.
Init ==
    /\ file \in [Ids -> {Abstract!Absent, Abstract!Unbound}]
    /\ rev = [id \in Ids |-> 0]
    /\ temps = {} /\ aged = {}
    /\ chain = <<>>
    /\ pc = [w \in Writers |-> "idle"]
    /\ tgt = [w \in Writers |-> None]
    /\ seen = [w \in Writers |-> 0]
    /\ attempt = [w \in Writers |-> 0]
    /\ first = [w \in Writers |-> 0]
    /\ buf = [w \in Writers |-> Empty]
    /\ out = [w \in Writers |-> "none"]

-----------------------------------------------------------------------------
To(w, p) == pc' = [pc EXCEPT ![w] = p]

\* Mutant of Running: operations are started without waiting for their turn.
Unserialized(w) == \E i \in 1..Len(chain) : chain[i] = w

\* #exclusive: run when everything queued before has settled.
Running(w) == chain # <<>> /\ Head(chain) = w

\* Mutant of Ends: the turn is released on success only, not in a finally.
ReleasesOnSuccess(w, o) ==
    /\ chain' = IF o = "failed" THEN chain ELSE Tail(chain)
    /\ out' = [out EXCEPT ![w] = o]
    /\ To(w, "end")

\* The call settles with outcome o, and so does its turn in the chain.
Ends(w, o) ==
    /\ chain' = Tail(chain)
    /\ out' = [out EXCEPT ![w] = o]
    /\ To(w, "end")

\* A call begins; store.create goes straight to its critical section.
Begin(w, id) ==
    /\ pc[w] = "idle" /\ id \in Targets[w]
    /\ tgt' = [tgt EXCEPT ![w] = id]
    /\ To(w, IF Kind[w] = "create" THEN "toSwap" ELSE "toRead")
    /\ UNCHANGED <<file, rev, temps, aged, chain, seen, attempt, first, buf, out>>

\* get() or compareAndSwap() joins the chain.
Enter(w) ==
    /\ pc[w] \in {"toRead", "toSwap"}
    /\ chain' = Append(chain, w)
    /\ To(w, IF pc[w] = "toRead" THEN "read" ELSE "swap")
    /\ UNCHANGED <<file, rev, temps, aged, tgt, seen, attempt, first, buf, out>>

\* get(): a missing record ends the loop, otherwise the swap is next.  A
\* registry loop gives up here on a record its mutation would refuse.
Get(w) ==
    /\ pc[w] = "read" /\ Running(w)
    /\ LET r == file[tgt[w]]
       IN  IF \/ ~Abstract!Exists(r)
              \/ Kind[w] \in {"bind", "drop"} /\ ~Abstract!Allows(w, r)
           THEN Ends(w, "refused") /\ UNCHANGED <<seen, first>>
           ELSE /\ seen' = [seen EXCEPT ![w] = rev[tgt[w]]]
                /\ first' = IF attempt[w] = 0
                            THEN [first EXCEPT ![w] = rev[tgt[w]]] ELSE first
                /\ chain' = Tail(chain)
                /\ To(w, "toSwap")
                /\ UNCHANGED out
    /\ UNCHANGED <<file, rev, temps, aged, tgt, attempt, buf>>

\* compareAndSwap() finds another revision: the loop tries again, up to its
\* bound.
Conflict(w) ==
    /\ pc[w] = "swap" /\ Running(w)
    /\ Kind[w] # "create" /\ rev[tgt[w]] # seen[w]
    /\ attempt' = [attempt EXCEPT ![w] = @ + 1]
    /\ IF attempt[w] + 1 = MaxAttempts THEN Ends(w, "exhausted")
       ELSE chain' = Tail(chain) /\ To(w, "toRead") /\ UNCHANGED out
    /\ UNCHANGED <<file, rev, temps, aged, tgt, seen, first, buf>>

\* Mutant of Swap: the mutation does not assert its precondition again.
SwapBlindly(w) ==
    /\ pc[w] = "swap" /\ Running(w)
    /\ Kind[w] = "create" \/ rev[tgt[w]] = seen[w]
    /\ buf' = [buf EXCEPT ![w] =
                  <<[file EXCEPT ![tgt[w]] = Abstract!Mutated(w, @)],
                    [rev EXCEPT ![tgt[w]] = IF Kind[w] = "create" THEN 0 ELSE seen[w] + 1]>>]
    /\ To(w, "open")
    /\ UNCHANGED <<file, rev, temps, aged, chain, tgt, seen, attempt, first, out>>

\* create(), or compareAndSwap() at the revision that was read: the mutation
\* runs on the record just read from the file and refuses it or changes it.
Swap(w) ==
    /\ pc[w] = "swap" /\ Running(w)
    /\ Kind[w] = "create" \/ rev[tgt[w]] = seen[w]
    /\ LET id == tgt[w]
       IN  IF Abstract!Allows(w, file[id])
           THEN /\ buf' = [buf EXCEPT ![w] =
                      <<[file EXCEPT ![id] = Abstract!Mutated(w, @)],
                        [rev EXCEPT ![id] = IF Kind[w] = "create" THEN 0 ELSE seen[w] + 1]>>]
                /\ To(w, "open")
                /\ UNCHANGED <<chain, out>>
           ELSE Ends(w, "refused") /\ UNCHANGED buf
    /\ UNCHANGED <<file, rev, temps, aged, tgt, seen, attempt, first>>

\* #write sweeps abandoned temporaries and fills its own.
Open(w) ==
    /\ pc[w] = "open"
    /\ temps' = (temps \ aged) \cup {w}
    /\ aged' = {}
    /\ To(w, "rename")
    /\ UNCHANGED <<file, rev, chain, tgt, seen, attempt, first, buf, out>>

Rename(w) ==
    /\ pc[w] = "rename"
    /\ w \in temps
    /\ file' = buf[w][1] /\ rev' = buf[w][2]
    /\ temps' = temps \ {w} /\ aged' = aged \ {w}
    /\ buf' = [buf EXCEPT ![w] = Empty]
    /\ To(w, "return")
    /\ UNCHANGED <<chain, tgt, seen, attempt, first, out>>

\* An I/O error before the rename took place: the temporary is removed, or
\* stays when that fails too, and the error is the answer.
WriteFails(w) ==
    /\ pc[w] \in {"open", "rename"} /\ "write" \in Faults
    /\ \E left \in SUBSET ({w} \cap temps) :
          /\ temps' = (temps \ {w}) \cup left
          /\ aged' = aged \cap temps'
    /\ buf' = [buf EXCEPT ![w] = Empty]
    /\ Ends(w, "failed")
    /\ UNCHANGED <<file, rev, tgt, seen, attempt, first>>

Return(w) ==
    /\ pc[w] = "return"
    /\ Ends(w, "done")
    /\ UNCHANGED <<file, rev, temps, aged, tgt, seen, attempt, first, buf>>

\* An hour passes for a temporary file.
Age(w) ==
    /\ w \in temps \ aged
    /\ aged' = aged \cup {w}
    /\ UNCHANGED <<file, rev, temps, chain, pc, tgt, seen, attempt, first, buf, out>>

\* The process is killed between two system calls.
Crash ==
    /\ "crash" \in Faults
    /\ chain' = <<>>
    /\ pc' = [w \in Writers |-> IF pc[w] = "idle" THEN "idle" ELSE "end"]
    /\ out' = [w \in Writers |->
                  IF pc[w] \notin {"idle", "end"} THEN "lost" ELSE out[w]]
    /\ buf' = [w \in Writers |-> Empty]
    /\ UNCHANGED <<file, rev, temps, aged, tgt, seen, attempt, first>>

Step(w) == \/ Enter(w) \/ Get(w) \/ Conflict(w) \/ Swap(w) \/ Open(w) \/ Rename(w)
           \/ WriteFails(w) \/ Return(w)

Next == \/ \E w \in Writers : Step(w) \/ Age(w) \/ \E id \in Ids : Begin(w, id)
        \/ Crash

Spec == Init /\ [][Next]_vars

\* Promises settle: a call that has begun is run on.
FairSpec == Spec /\ \A w \in Writers : WF_vars(Step(w))

-----------------------------------------------------------------------------
\* Every call takes effect at one instant on the record of that instant, or
\* not at all, and answers accordingly, whatever interleaves between its read
\* and its swap and wherever the process dies: the file of all records, the
\* promise chain, the revision check and the rename together.
UpdatesAreAtomic == Abstract!Spec

\* A call that answered "done" is in the record and no later rewrite of the
\* file, of this record or of another, has dropped it; a call that answered
\* an error left nothing behind.
NoLostUpdate ==
    \A w \in Writers :
        /\ out[w] = "done" => w \in file[tgt[w]].edits
        /\ out[w] \in {"refused", "exhausted", "failed"} =>
               \A id \in Ids : w \notin file[id].edits

\* #update gives up only under real contention: the record moved on at least
\* MaxAttempts times while the loop ran, so with fewer other writers it never
\* does.
ExhaustedMeansContention ==
    \A w \in Writers :
        out[w] = "exhausted" => rev[tgt[w]] - first[w] >= MaxAttempts

\* "a concurrent in-flight writer's fresh temp is never destroyed": the sweep
\* leaves the temporary of a call that is about to rename it, however long
\* that call has taken.
OwnTempKept == \A w \in Writers : pc[w] = "rename" => w \in temps

\* Every call that has begun answers: the chain never stalls behind a call
\* that failed, conflicted or was refused.
EveryCallAnswers == \A w \in Writers : pc[w] # "idle" ~> pc[w] = "end"

\* What a writer of the journal may rely on, whoever else writes, crashes or
\* fails (SupervisorCore.#update, JsonFileSandboxStore): its answer is true, it
\* is turned away only under real contention, and nobody sweeps the temporary
\* it is about to rename.
WriterContract ==
    TypeOK /\ NoLostUpdate /\ ExhaustedMeansContention /\ OwnTempKept

=============================================================================
