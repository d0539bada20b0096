---------------------------- MODULE JournalProofs ----------------------------
(***************************************************************************)
(* Theorems about JournalCas, for any number of records, calls and         *)
(* attempts: the store and its compare-and-swap loops implement            *)
(* AtomicJournal.                                                          *)
(***************************************************************************)
EXTENDS JournalCas, TLAPS

USE AttemptsAssumption, TargetsAssumption, JournalNone, KindAssumption DEF None, Empty

\* A mutation makes a record of a record.
LEMMA MutatedRecord ==
  ASSUME NEW w \in Writers, NEW r \in Abstract!Record
  PROVE  Abstract!Mutated(w, r) \in Abstract!Record
  BY DEF Abstract!Mutated, Abstract!Record, Abstract!Kinds

\* It adds its call to the edits of the record and drops none.
LEMMA MutatedEdits ==
  ASSUME NEW w \in Writers, NEW r \in Abstract!Record
  PROVE  Abstract!Mutated(w, r).edits = r.edits \cup {w}
  BY DEF Abstract!Mutated

\* Only a create is admitted where there is no record, and only there.
LEMMA AllowedOn ==
  ASSUME NEW w \in Writers, NEW r \in Abstract!Record
  PROVE  /\ Kind[w] = "create" /\ Abstract!Allows(w, r) => ~Abstract!Exists(r)
         /\ Kind[w] # "create" /\ Abstract!Allows(w, r) => Abstract!Exists(r)
  BY DEF Abstract!Allows, Abstract!Exists, Abstract!Kinds

\* An admitted mutation leaves a record behind.
LEMMA MutatedExists ==
  ASSUME NEW w \in Writers, NEW r \in Abstract!Record, Abstract!Allows(w, r)
  PROVE  Abstract!Exists(Abstract!Mutated(w, r))
  BY AllowedOn DEF Abstract!Mutated, Abstract!Exists, Abstract!Kinds

-----------------------------------------------------------------------------
(***************************************************************************)
(* The inductive invariant.  A call that writes is at the head of the      *)
(* promise chain from its read of the file to its rename, so nobody else   *)
(* writes in between; the state it is about to write is therefore the      *)
(* file with its own mutation, and the record it mutates still admits it.  *)
(***************************************************************************)
Inside == {"read", "swap", "open", "rename", "return"}

\* #exclusive: calls wait in the chain once, and who writes is at its head.
Serial ==
    /\ \A i \in 1..Len(chain) : pc[chain[i]] \in Inside
    /\ \A i, j \in 1..Len(chain) : chain[i] = chain[j] => i = j
    /\ \A w \in Writers : pc[w] \in {"open", "rename", "return"} =>
           chain # <<>> /\ Head(chain) = w

\* A call has answered when it has ended, not before; a create reads nothing,
\* and only the others run out of attempts.
Answers ==
    \A w \in Writers :
        /\ out[w] # "none" <=> pc[w] = "end"
        /\ pc[w] \in {"toRead", "read"} => Kind[w] # "create"
        /\ out[w] = "exhausted" => Kind[w] # "create"

\* What is about to be written is the file as it is now with one mutation,
\* which the record as it is now admits, and the next revision.
Buffered ==
    \A w \in Writers : pc[w] \in {"open", "rename"} =>
        /\ Abstract!Allows(w, file[tgt[w]])
        /\ buf[w] = <<[file EXCEPT ![tgt[w]] = Abstract!Mutated(w, file[tgt[w]])],
                      [rev EXCEPT ![tgt[w]] = IF Kind[w] = "create" THEN 0
                                              ELSE rev[tgt[w]] + 1]>>

\* A call is in its own record and in no other, from its rename on, and not
\* if it answered an error.
EditsTrue ==
    \A w \in Writers :
        /\ \A id \in Ids : w \in file[id].edits =>
               /\ id = tgt[w]
               /\ pc[w] = "return" \/ out[w] \in {"done", "lost"}
        /\ pc[w] = "return" \/ out[w] = "done" => w \in file[tgt[w]].edits

\* Each conflict of a loop is a revision that somebody else wrote since the
\* loop's first read.
Contention ==
    \A w \in Writers : Kind[w] # "create" =>
        /\ pc[w] = "idle" => attempt[w] = 0
        /\ pc[w] \in {"toSwap", "swap"} =>
               /\ Abstract!Exists(file[tgt[w]])
               /\ first[w] + attempt[w] <= seen[w] /\ seen[w] <= rev[tgt[w]]
        /\ pc[w] \in {"toRead", "read"} /\ attempt[w] > 0 =>
               /\ Abstract!Exists(file[tgt[w]])
               /\ first[w] + attempt[w] <= rev[tgt[w]]
        /\ out[w] = "exhausted" =>
               /\ Abstract!Exists(file[tgt[w]])
               /\ first[w] + MaxAttempts <= rev[tgt[w]]

Guarded == Serial /\ Answers /\ Buffered /\ EditsTrue /\ Contention /\ OwnTempKept

IInv == TypeOK /\ Guarded

\* What leaving a queue does to it.
LEMMA TailFacts ==
  ASSUME NEW S, NEW c \in Seq(S), c # <<>>
  PROVE  /\ Head(c) = c[1] /\ c[1] \in S
         /\ Len(c) \in Nat /\ Len(c) >= 1
         /\ Tail(c) \in Seq(S) /\ Len(Tail(c)) = Len(c) - 1
         /\ \A i \in 1..Len(c) - 1 : Tail(c)[i] = c[i + 1]
  OBVIOUS

\* What joining a queue does to it.
LEMMA AppendFacts ==
  ASSUME NEW S, NEW c \in Seq(S), NEW x \in S
  PROVE  /\ Len(c) \in Nat
         /\ Append(c, x) \in Seq(S) /\ Len(Append(c, x)) = Len(c) + 1
         /\ \A i \in 1..Len(c) : Append(c, x)[i] = c[i] /\ c[i] \in S
         /\ Append(c, x)[Len(c) + 1] = x
  OBVIOUS

\* The first state satisfies the inductive invariant.
LEMMA InvInit == Init => IInv
  <1> SUFFICES ASSUME Init PROVE IInv
    OBVIOUS
  <1>1. /\ Abstract!Absent \in Abstract!Record /\ Abstract!Unbound \in Abstract!Record
        /\ Abstract!Absent.edits = {} /\ Abstract!Unbound.edits = {}
    BY DEF Abstract!Absent, Abstract!Unbound, Abstract!Record
  <1>2. file \in [Ids -> Abstract!Record] /\ \A id \in Ids : file[id].edits = {}
    BY <1>1 DEF Init
  <1>3. TypeOK
    BY <1>2 DEF Init, TypeOK, Pcs, Abstract!Outcomes
  <1>4. Serial /\ Answers /\ Buffered /\ OwnTempKept
    BY DEF Init, Serial, Answers, Buffered, OwnTempKept, Abstract!Outcomes
  <1>5. EditsTrue /\ Contention
    BY <1>2 DEF Init, EditsTrue, Contention
  <1> QED
    BY <1>3, <1>4, <1>5 DEF IInv, Guarded

\* The call at the head of the chain leaves it: what is left is a chain again.
LEMMA Leaving ==
  ASSUME TypeOK, Serial, NEW w \in Writers, Running(w), chain' = Tail(chain),
         NEW p \in {"toRead", "toSwap", "end"}, To(w, p)
  PROVE  Serial' /\ chain' \in Seq(Writers)
  <1> chain \in Seq(Writers) /\ chain # <<>> /\ Head(chain) = w /\ pc \in [Writers -> Pcs]
    BY DEF TypeOK, Running
  <1>1. /\ chain[1] = w /\ Len(chain) \in Nat /\ Len(chain) >= 1
        /\ chain' \in Seq(Writers) /\ Len(chain') = Len(chain) - 1
        /\ \A i \in 1..Len(chain) - 1 : chain'[i] = chain[i + 1]
    BY TailFacts
  <1>2. \A i \in 1..Len(chain') : i + 1 \in 1..Len(chain) /\ chain'[i] = chain[i + 1]
    BY <1>1
  <1>3. \A i \in 1..Len(chain') : chain[i + 1] # w /\ chain[i + 1] \in Writers
    BY <1>1, <1>2 DEF Serial
  <1>4. \A v \in Writers : pc'[v] = IF v = w THEN p ELSE pc[v]
    BY DEF To
  <1>5. \A i \in 1..Len(chain') : pc'[chain'[i]] \in Inside
    BY <1>2, <1>3, <1>4 DEF Serial
  <1>6. \A i, j \in 1..Len(chain') : chain'[i] = chain'[j] => i = j
    <2> SUFFICES ASSUME NEW i \in 1..Len(chain'), NEW j \in 1..Len(chain'),
                        chain'[i] = chain'[j]
                 PROVE  i = j
      OBVIOUS
    <2>1. chain[i + 1] = chain[j + 1] /\ i + 1 \in 1..Len(chain) /\ j + 1 \in 1..Len(chain)
      BY <1>2
    <2>2. i + 1 = j + 1
      BY <2>1 DEF Serial
    <2> QED
      BY <2>2, <1>1
  <1>7. \A v \in Writers : pc'[v] \notin {"open", "rename", "return"}
    BY <1>4 DEF Serial
  <1> QED
    BY <1>1, <1>5, <1>6, <1>7 DEF Serial

\* A call that writes is at the head of the chain.
LEMMA WriterRuns ==
  ASSUME Serial, NEW w \in Writers, pc[w] \in {"open", "rename", "return"}
  PROVE  Running(w)
  BY DEF Serial, Running

\* The call at the head moves on within its turn.
LEMMA Staying ==
  ASSUME TypeOK, Serial, NEW w \in Writers, Running(w), chain' = chain,
         NEW p \in {"open", "rename", "return"}, To(w, p)
  PROVE  Serial'
  BY TailFacts DEF TypeOK, Serial, Inside, Running, To

\* Calls join, leave or move within the chain: it stays a sequence without
\* repetition, and only the call at its head writes.
LEMMA SerialStep == TypeOK /\ Serial /\ [Next]_vars => Serial' /\ chain' \in Seq(Writers)
  <1> SUFFICES ASSUME TypeOK, Serial, [Next]_vars
               PROVE  Serial' /\ chain' \in Seq(Writers)
    OBVIOUS
  <1> DEFINE Goal == Serial' /\ chain' \in Seq(Writers)
  <1> chain \in Seq(Writers) /\ pc \in [Writers -> Pcs]
    BY DEF TypeOK
  <1>1. ASSUME NEW w \in Writers, Enter(w)
       PROVE  Goal
    <2>1. chain' = Append(chain, w) /\ pc[w] \notin Inside
      BY <1>1 DEF Enter, Inside
    <2>2. /\ Len(chain) \in Nat /\ chain' \in Seq(Writers) /\ Len(chain') = Len(chain) + 1
          /\ \A i \in 1..Len(chain) : chain'[i] = chain[i] /\ chain[i] \in Writers
          /\ chain'[Len(chain) + 1] = w
      BY <2>1, AppendFacts
    <2>3. /\ \A v \in Writers : v # w => pc'[v] = pc[v]
          /\ pc'[w] \in {"read", "swap"}
      BY <1>1 DEF Enter, To
    <2>4. \A i \in 1..Len(chain) : chain[i] # w
      BY <2>1 DEF Serial
    <2>5. \A i \in 1..Len(chain') : i \in 1..Len(chain) \/ i = Len(chain) + 1
      BY <2>2
    <2>6. \A i \in 1..Len(chain') : pc'[chain'[i]] \in Inside
      BY <2>2, <2>3, <2>4, <2>5 DEF Serial, Inside
    <2>7. \A i, j \in 1..Len(chain') : chain'[i] = chain'[j] => i = j
      BY <2>2, <2>4, <2>5 DEF Serial
    <2>8. \A v \in Writers : pc'[v] \in {"open", "rename", "return"} =>
              chain' # <<>> /\ Head(chain') = v
      <3> SUFFICES ASSUME NEW v \in Writers, pc'[v] \in {"open", "rename", "return"}
                   PROVE  chain' # <<>> /\ Head(chain') = v
        OBVIOUS
      <3>1. chain # <<>> /\ Head(chain) = v
        BY <2>3 DEF Serial
      <3>2. Len(chain) >= 1 /\ chain[1] = v
        BY <3>1, TailFacts
      <3>3. chain' # <<>>
        BY <2>2
      <3> QED
        BY <2>2, <3>2, <3>3, TailFacts
    <2> QED
      BY <2>2, <2>6, <2>7, <2>8 DEF Serial
  <1>2. ASSUME NEW w \in Writers, Get(w)
       PROVE  Goal
    <2>1. Running(w) /\ chain' = Tail(chain) /\ \E p \in {"toRead", "toSwap", "end"} : To(w, p)
      BY <1>2 DEF Get, Ends
    <2> QED
      BY <2>1, Leaving
  <1>3. ASSUME NEW w \in Writers, Conflict(w)
       PROVE  Goal
    <2>1. Running(w) /\ chain' = Tail(chain) /\ \E p \in {"toRead", "toSwap", "end"} : To(w, p)
      BY <1>3 DEF Conflict, Ends
    <2> QED
      BY <2>1, Leaving
  <1>4. ASSUME NEW w \in Writers, Swap(w)
       PROVE  Goal
    <2>1. CASE Abstract!Allows(w, file[tgt[w]])
      BY <1>4, <2>1, Staying DEF Swap
    <2>2. CASE ~Abstract!Allows(w, file[tgt[w]])
      BY <1>4, <2>2, Leaving DEF Swap, Ends
    <2> QED
      BY <2>1, <2>2
  <1>5. ASSUME NEW w \in Writers, Open(w)
       PROVE  Goal
    BY <1>5, WriterRuns, Staying DEF Open
  <1>6. ASSUME NEW w \in Writers, Rename(w)
       PROVE  Goal
    BY <1>6, WriterRuns, Staying DEF Rename
  <1>7. ASSUME NEW w \in Writers, WriteFails(w)
       PROVE  Goal
    BY <1>7, WriterRuns, Leaving DEF WriteFails, Ends
  <1>8. ASSUME NEW w \in Writers, Return(w)
       PROVE  Goal
    BY <1>8, WriterRuns, Leaving DEF Return, Ends
  <1>9. ASSUME NEW w \in Writers, Age(w)
       PROVE  Goal
    BY <1>9 DEF Age, Serial
  <1>10. ASSUME NEW w \in Writers, NEW id \in Ids, Begin(w, id)
       PROVE  Goal
    <2>1. pc[w] \notin Inside /\ chain' = chain
      BY <1>10 DEF Begin, Inside
    <2>2. \A v \in Writers : v # w => pc'[v] = pc[v]
      BY <1>10 DEF Begin, To
    <2>3. pc'[w] \in {"toSwap", "toRead"}
      BY <1>10 DEF Begin, To
    <2>4. \A i \in 1..Len(chain) : chain[i] # w /\ chain[i] \in Writers
      BY <2>1 DEF Serial
    <2> QED
      BY <2>1, <2>2, <2>3, <2>4 DEF Serial
  <1>11. CASE Crash
    <2>1. chain' = <<>> /\ Len(<<>>) = 0 /\ chain' \in Seq(Writers)
      BY <1>11 DEF Crash
    <2>2. \A w \in Writers : pc'[w] \in {"idle", "end"}
      BY <1>11 DEF Crash
    <2> QED
      BY <2>1, <2>2 DEF Serial
  <1>12. CASE UNCHANGED vars
    BY <1>12 DEF vars, Serial
  <1> QED
    BY <1>1, <1>2, <1>3, <1>4, <1>5, <1>6, <1>7, <1>8, <1>9, <1>10, <1>11, <1>12
    DEF Next, Step

\* Every step keeps the types.
LEMMA TypeStep == TypeOK /\ Serial /\ [Next]_vars => TypeOK'
  <1> SUFFICES ASSUME TypeOK, Serial, [Next]_vars
               PROVE  TypeOK'
    OBVIOUS
  <1> chain' \in Seq(Writers)
    BY SerialStep
  <1> USE DEF TypeOK, Pcs, Abstract!Outcomes
  <1>1. ASSUME NEW w \in Writers, Enter(w)
       PROVE  TypeOK'
    BY <1>1 DEF Enter, To
  <1>2. ASSUME NEW w \in Writers, Get(w)
       PROVE  TypeOK'
    <2> pc[w] = "read" /\ tgt[w] \in Ids
      BY <1>2 DEF Get
    <2>1. UNCHANGED <<file, rev, temps, aged, tgt, attempt, buf>>
      BY <1>2 DEF Get
    <2>2. \/ /\ pc' = [pc EXCEPT ![w] = "end"] /\ out' = [out EXCEPT ![w] = "refused"]
             /\ UNCHANGED <<seen, first>>
          \/ /\ pc' = [pc EXCEPT ![w] = "toSwap"] /\ UNCHANGED out
             /\ seen' = [seen EXCEPT ![w] = rev[tgt[w]]]
             /\ first' = first \/ first' = [first EXCEPT ![w] = rev[tgt[w]]]
      BY <1>2 DEF Get, Ends, To
    <2>3. CASE /\ pc' = [pc EXCEPT ![w] = "end"] /\ out' = [out EXCEPT ![w] = "refused"]
               /\ UNCHANGED <<seen, first>>
      BY <2>1, <2>3
    <2>4. CASE /\ pc' = [pc EXCEPT ![w] = "toSwap"] /\ UNCHANGED out
               /\ seen' = [seen EXCEPT ![w] = rev[tgt[w]]]
               /\ first' = first \/ first' = [first EXCEPT ![w] = rev[tgt[w]]]
      <3>1. rev[tgt[w]] \in Nat
        OBVIOUS
      <3>2. seen' \in [Writers -> Nat] /\ first' \in [Writers -> Nat]
        BY <2>4, <3>1
      <3> QED
        BY <2>1, <2>4, <3>2
    <2> QED
      BY <2>2, <2>3, <2>4
  <1>3. ASSUME NEW w \in Writers, Conflict(w)
       PROVE  TypeOK'
    <2> pc[w] = "swap" /\ attempt[w] # MaxAttempts
      BY <1>3 DEF Conflict
    <2>1. /\ attempt' = [attempt EXCEPT ![w] = attempt[w] + 1]
          /\ attempt[w] + 1 \in 0..MaxAttempts
          /\ UNCHANGED <<file, rev, temps, aged, tgt, seen, first, buf>>
      BY <1>3 DEF Conflict
    <2>2. \/ /\ attempt[w] + 1 = MaxAttempts
             /\ pc' = [pc EXCEPT ![w] = "end"] /\ out' = [out EXCEPT ![w] = "exhausted"]
          \/ /\ attempt[w] + 1 # MaxAttempts
             /\ pc' = [pc EXCEPT ![w] = "toRead"] /\ UNCHANGED out
      BY <1>3 DEF Conflict, Ends, To
    <2>3. CASE /\ attempt[w] + 1 = MaxAttempts
               /\ pc' = [pc EXCEPT ![w] = "end"] /\ out' = [out EXCEPT ![w] = "exhausted"]
      <3>1. attempt' \in [Writers -> 0..MaxAttempts]
        BY <2>1
      <3>2. \A v \in Writers : attempt'[v] = MaxAttempts => pc'[v] = "end"
        BY <2>1, <2>3
      <3>3. UNCHANGED <<file, rev, temps, aged, tgt, seen, first, buf>>
        BY <2>1
      <3> QED
        BY <2>3, <3>1, <3>2, <3>3
    <2>4. CASE /\ attempt[w] + 1 # MaxAttempts
               /\ pc' = [pc EXCEPT ![w] = "toRead"] /\ UNCHANGED out
      <3>1. attempt' \in [Writers -> 0..MaxAttempts]
        BY <2>1
      <3>2. \A v \in Writers : attempt'[v] = MaxAttempts => pc'[v] = "end"
        BY <2>1, <2>4
      <3>3. UNCHANGED <<file, rev, temps, aged, tgt, seen, first, buf>>
        BY <2>1
      <3> QED
        BY <2>4, <3>1, <3>2, <3>3
    <2> QED
      BY <2>2, <2>3, <2>4
  <1>4. ASSUME NEW w \in Writers, Swap(w)
       PROVE  TypeOK'
    <2> pc[w] = "swap" /\ tgt[w] \in Ids
      BY <1>4 DEF Swap
    <2>1. CASE Abstract!Allows(w, file[tgt[w]])
      <3> DEFINE m == Abstract!Mutated(w, file[tgt[w]])
                 f == [file EXCEPT ![tgt[w]] = m]
                 n == IF Kind[w] = "create" THEN 0 ELSE seen[w] + 1
                 r == [rev EXCEPT ![tgt[w]] = n]
      <3>1. m \in Abstract!Record
        BY MutatedRecord
      <3>2. f \in [Ids -> Abstract!Record]
        BY <3>1
      <3>3. n \in Nat
        OBVIOUS
      <3>4. r \in [Ids -> Nat]
        BY <3>3
      <3>5. buf' = [buf EXCEPT ![w] = <<f, r>>]
        BY <1>4, <2>1 DEF Swap
      <3> HIDE DEF f, r
      <3>6. <<f, r>> \in [Ids -> Abstract!Record] \X [Ids -> Nat]
        BY <3>2, <3>4
      <3>7. /\ pc' = [pc EXCEPT ![w] = "open"]
            /\ UNCHANGED <<file, rev, temps, aged, tgt, seen, attempt, first, out>>
        BY <1>4, <2>1 DEF Swap, To
      <3>8. \A v \in Writers : IF pc'[v] \in {"open", "rename"}
                                THEN buf'[v] \in [Ids -> Abstract!Record] \X [Ids -> Nat]
                                ELSE buf'[v] = <<>>
        BY <3>5, <3>6, <3>7
      <3>9. DOMAIN buf' = Writers
        BY <3>5
      <3> QED
        BY <3>7, <3>8, <3>9
    <2>2. CASE ~Abstract!Allows(w, file[tgt[w]])
      <3>1. /\ pc' = [pc EXCEPT ![w] = "end"] /\ out' = [out EXCEPT ![w] = "refused"]
            /\ UNCHANGED <<file, rev, temps, aged, tgt, seen, attempt, first, buf>>
        BY <1>4, <2>2 DEF Swap, Ends, To
      <3> QED
        BY <3>1
    <2> QED
      BY <2>1, <2>2
  <1>5. ASSUME NEW w \in Writers, Open(w)
       PROVE  TypeOK'
    BY <1>5 DEF Open, To
  <1>6. ASSUME NEW w \in Writers, Rename(w)
       PROVE  TypeOK'
    BY <1>6 DEF Rename, To
  <1>7. ASSUME NEW w \in Writers, WriteFails(w)
       PROVE  TypeOK'
    BY <1>7 DEF WriteFails, Ends, To
  <1>8. ASSUME NEW w \in Writers, Return(w)
       PROVE  TypeOK'
    BY <1>8 DEF Return, Ends, To
  <1>9. ASSUME NEW w \in Writers, Age(w)
       PROVE  TypeOK'
    BY <1>9 DEF Age
  <1>10. ASSUME NEW w \in Writers, NEW id \in Ids, Begin(w, id)
       PROVE  TypeOK'
    BY <1>10 DEF Begin, To
  <1>11. CASE Crash
    BY <1>11 DEF Crash
  <1>12. CASE UNCHANGED vars
    BY <1>12 DEF vars
  <1> QED
    BY <1>1, <1>2, <1>3, <1>4, <1>5, <1>6, <1>7, <1>8, <1>9, <1>10, <1>11, <1>12
    DEF Next, Step

\* Only the call at the head of the chain is past its swap.
LEMMA OneWriter ==
  ASSUME Serial, NEW w \in Writers, NEW v \in Writers,
         pc[w] \in {"open", "rename", "return"}, pc[v] \in {"open", "rename", "return"}
  PROVE  v = w
  BY DEF Serial

\* The rename applies the call's mutation to the record as it is at that
\* instant, which admits it, and moves its revision on.
LEMMA RenameApplies ==
  ASSUME TypeOK, Buffered, NEW w \in Writers, Rename(w)
  PROVE  /\ tgt[w] \in Ids /\ Abstract!Allows(w, file[tgt[w]])
         /\ file' = [file EXCEPT ![tgt[w]] = Abstract!Mutated(w, file[tgt[w]])]
         /\ rev' = [rev EXCEPT ![tgt[w]] =
                       IF Kind[w] = "create" THEN 0 ELSE rev[tgt[w]] + 1]
  <1>1. pc[w] = "rename" /\ file' = buf[w][1] /\ rev' = buf[w][2]
    BY DEF Rename
  <1>2. tgt[w] \in Ids
    BY <1>1 DEF TypeOK
  <1> QED
    BY <1>1, <1>2 DEF Buffered

\* Every call answers once, when it ends.
LEMMA AnswersStep == TypeOK /\ Answers /\ [Next]_vars => Answers'
  <1> SUFFICES ASSUME TypeOK, Answers, [Next]_vars
               PROVE  Answers'
    OBVIOUS
  <1> /\ pc \in [Writers -> Pcs] /\ out \in [Writers -> Abstract!Outcomes]
      /\ \A w \in Writers : attempt[w] = MaxAttempts => pc[w] = "end"
    BY DEF TypeOK
  <1> USE DEF Answers, Pcs, Abstract!Outcomes
  <1>1. ASSUME NEW w \in Writers, Enter(w)
       PROVE  Answers'
    BY <1>1 DEF Enter, To
  <1>2. ASSUME NEW w \in Writers, Get(w)
       PROVE  Answers'
    BY <1>2 DEF Get, Running, Ends, To
  <1>3. ASSUME NEW w \in Writers, Conflict(w)
       PROVE  Answers'
    BY <1>3 DEF Conflict, Running, Ends, To
  <1>4. ASSUME NEW w \in Writers, Swap(w)
       PROVE  Answers'
    BY <1>4 DEF Swap, Running, To, Ends
  <1>5. ASSUME NEW w \in Writers, Open(w)
       PROVE  Answers'
    BY <1>5 DEF Open, To
  <1>6. ASSUME NEW w \in Writers, Rename(w)
       PROVE  Answers'
    BY <1>6 DEF Rename, To
  <1>7. ASSUME NEW w \in Writers, WriteFails(w)
       PROVE  Answers'
    BY <1>7 DEF WriteFails, Ends, To
  <1>8. ASSUME NEW w \in Writers, Return(w)
       PROVE  Answers'
    BY <1>8 DEF Return, Ends, To
  <1>9. ASSUME NEW w \in Writers, Age(w)
       PROVE  Answers'
    BY <1>9 DEF Age
  <1>10. ASSUME NEW w \in Writers, NEW id \in Ids, Begin(w, id)
       PROVE  Answers'
    BY <1>10 DEF Begin, To
  <1>11. CASE Crash
    BY <1>11 DEF Crash
  <1>12. CASE UNCHANGED vars
    BY <1>12 DEF vars
  <1> QED
    BY <1>1, <1>2, <1>3, <1>4, <1>5, <1>6, <1>7, <1>8, <1>9, <1>10, <1>11, <1>12
    DEF Next, Step

\* Nobody changes the file between a swap and its rename.
LEMMA BufferedStep == TypeOK /\ Serial /\ Buffered /\ [Next]_vars => Buffered'
  <1> SUFFICES ASSUME TypeOK, Serial, Buffered, [Next]_vars
               PROVE  Buffered'
    OBVIOUS
  <1> /\ pc \in [Writers -> Pcs] /\ tgt \in [Writers -> Ids \cup {None}]
      /\ DOMAIN buf = Writers
    BY DEF TypeOK
  <1> USE DEF Buffered, Pcs
  <1>1. ASSUME NEW w \in Writers, Enter(w)
       PROVE  Buffered'
    BY <1>1 DEF Enter, To
  <1>2. ASSUME NEW w \in Writers, Get(w)
       PROVE  Buffered'
    BY <1>2 DEF Get, Running, Ends, To
  <1>3. ASSUME NEW w \in Writers, Conflict(w)
       PROVE  Buffered'
    BY <1>3 DEF Conflict, Running, Ends, To
  <1>4. ASSUME NEW w \in Writers, Swap(w)
       PROVE  Buffered'
    <2>1. CASE Abstract!Allows(w, file[tgt[w]])
      <3>1. /\ UNCHANGED <<file, rev, tgt>>
            /\ pc' = [pc EXCEPT ![w] = "open"]
            /\ buf' = [buf EXCEPT ![w] =
                  <<[file EXCEPT ![tgt[w]] = Abstract!Mutated(w, file[tgt[w]])],
                    [rev EXCEPT ![tgt[w]] = IF Kind[w] = "create" THEN 0
                                            ELSE seen[w] + 1]>>]
            /\ Kind[w] = "create" \/ rev[tgt[w]] = seen[w]
        BY <1>4, <2>1 DEF Swap, To
      <3>2. \A v \in Writers : v # w => pc'[v] = pc[v] /\ buf'[v] = buf[v]
        BY <3>1
      <3>3. buf'[w] = <<[file EXCEPT ![tgt[w]] = Abstract!Mutated(w, file[tgt[w]])],
                        [rev EXCEPT ![tgt[w]] = IF Kind[w] = "create" THEN 0
                                                ELSE rev[tgt[w]] + 1]>>
        <4>1. CASE Kind[w] = "create"
          BY <3>1, <4>1
        <4>2. CASE Kind[w] # "create"
          BY <3>1, <4>2
        <4> QED
          BY <4>1, <4>2
      <3> QED
        BY <2>1, <3>1, <3>2, <3>3, ZenonT(60)
    <2>2. CASE ~Abstract!Allows(w, file[tgt[w]])
      BY <1>4, <2>2 DEF Swap, Ends, To
    <2> QED
      BY <2>1, <2>2
  <1>5. ASSUME NEW w \in Writers, Open(w)
       PROVE  Buffered'
    BY <1>5 DEF Open, To
  <1>6. ASSUME NEW w \in Writers, Rename(w)
       PROVE  Buffered'
    <2>1. pc[w] = "rename" /\ pc' = [pc EXCEPT ![w] = "return"]
      BY <1>6 DEF Rename, To
    <2>2. \A v \in Writers : pc'[v] \notin {"open", "rename"}
      BY <2>1, OneWriter
    <2> QED
      BY <2>2
  <1>7. ASSUME NEW w \in Writers, WriteFails(w)
       PROVE  Buffered'
    BY <1>7 DEF WriteFails, Ends, To
  <1>8. ASSUME NEW w \in Writers, Return(w)
       PROVE  Buffered'
    BY <1>8 DEF Return, Ends, To
  <1>9. ASSUME NEW w \in Writers, Age(w)
       PROVE  Buffered'
    BY <1>9 DEF Age
  <1>10. ASSUME NEW w \in Writers, NEW id \in Ids, Begin(w, id)
       PROVE  Buffered'
    BY <1>10 DEF Begin, To
  <1>11. CASE Crash
    BY <1>11 DEF Crash
  <1>12. CASE UNCHANGED vars
    BY <1>12 DEF vars
  <1> QED
    BY <1>1, <1>2, <1>3, <1>4, <1>5, <1>6, <1>7, <1>8, <1>9, <1>10, <1>11, <1>12
    DEF Next, Step

\* A temporary is swept by the turn of its own call only, or before it.
LEMMA OwnTempStep == TypeOK /\ Serial /\ OwnTempKept /\ [Next]_vars => OwnTempKept'
  <1> SUFFICES ASSUME TypeOK, Serial, OwnTempKept, [Next]_vars
               PROVE  OwnTempKept'
    OBVIOUS
  <1> pc \in [Writers -> Pcs]
    BY DEF TypeOK
  <1> USE OneWriter DEF OwnTempKept, Pcs
  <1>1. ASSUME NEW w \in Writers, Enter(w)
       PROVE  OwnTempKept'
    BY <1>1 DEF Enter, To
  <1>2. ASSUME NEW w \in Writers, Get(w)
       PROVE  OwnTempKept'
    BY <1>2 DEF Get, Running, Ends, To
  <1>3. ASSUME NEW w \in Writers, Conflict(w)
       PROVE  OwnTempKept'
    BY <1>3 DEF Conflict, Running, Ends, To
  <1>4. ASSUME NEW w \in Writers, Swap(w)
       PROVE  OwnTempKept'
    BY <1>4 DEF Swap, Running, To, Ends
  <1>5. ASSUME NEW w \in Writers, Open(w)
       PROVE  OwnTempKept'
    BY <1>5 DEF Open, To
  <1>6. ASSUME NEW w \in Writers, Rename(w)
       PROVE  OwnTempKept'
    BY <1>6 DEF Rename, To
  <1>7. ASSUME NEW w \in Writers, WriteFails(w)
       PROVE  OwnTempKept'
    BY <1>7 DEF WriteFails, Ends, To
  <1>8. ASSUME NEW w \in Writers, Return(w)
       PROVE  OwnTempKept'
    BY <1>8 DEF Return, Ends, To
  <1>9. ASSUME NEW w \in Writers, Age(w)
       PROVE  OwnTempKept'
    BY <1>9 DEF Age
  <1>10. ASSUME NEW w \in Writers, NEW id \in Ids, Begin(w, id)
       PROVE  OwnTempKept'
    BY <1>10 DEF Begin, To
  <1>11. CASE Crash
    BY <1>11 DEF Crash
  <1>12. CASE UNCHANGED vars
    BY <1>12 DEF vars
  <1> QED
    BY <1>1, <1>2, <1>3, <1>4, <1>5, <1>6, <1>7, <1>8, <1>9, <1>10, <1>11, <1>12
    DEF Next, Step

\* The records carry the calls that were applied and no others.
LEMMA EditsStep ==
    TypeOK /\ Answers /\ Buffered /\ EditsTrue /\ [Next]_vars => EditsTrue'
  <1> SUFFICES ASSUME TypeOK, Answers, Buffered, EditsTrue, [Next]_vars
               PROVE  EditsTrue'
    OBVIOUS
  <1> /\ pc \in [Writers -> Pcs] /\ tgt \in [Writers -> Ids \cup {None}]
      /\ \A w \in Writers : tgt[w] = None <=> pc[w] = "idle"
      /\ out \in [Writers -> Abstract!Outcomes]
      /\ file \in [Ids -> Abstract!Record]
    BY DEF TypeOK
  <1> USE DEF EditsTrue, Answers, Pcs, Abstract!Outcomes
  <1>1. ASSUME NEW w \in Writers, Enter(w)
       PROVE  EditsTrue'
    BY <1>1 DEF Enter, To
  <1>2. ASSUME NEW w \in Writers, Get(w)
       PROVE  EditsTrue'
    BY <1>2 DEF Get, Running, Ends, To
  <1>3. ASSUME NEW w \in Writers, Conflict(w)
       PROVE  EditsTrue'
    BY <1>3 DEF Conflict, Running, Ends, To
  <1>4. ASSUME NEW w \in Writers, Swap(w)
       PROVE  EditsTrue'
    BY <1>4 DEF Swap, Running, To, Ends
  <1>5. ASSUME NEW w \in Writers, Open(w)
       PROVE  EditsTrue'
    BY <1>5 DEF Open, To
  <1>6. ASSUME NEW w \in Writers, Rename(w)
       PROVE  EditsTrue'
    <2>1. /\ tgt[w] \in Ids /\ pc[w] = "rename"
          /\ file' = [file EXCEPT ![tgt[w]] = Abstract!Mutated(w, file[tgt[w]])]
          /\ pc' = [pc EXCEPT ![w] = "return"] /\ UNCHANGED <<tgt, out>>
      BY <1>6, RenameApplies DEF Rename, To
    <2>2. file'[tgt[w]].edits = file[tgt[w]].edits \cup {w}
      BY <2>1, MutatedEdits
    <2>3. \A id \in Ids : id # tgt[w] => file'[id] = file[id]
      BY <2>1
    <2>4. \A v \in Writers, id \in Ids : v # w => (v \in file'[id].edits <=> v \in file[id].edits)
      BY <2>2, <2>3
    <2>5. \A id \in Ids : w \in file'[id].edits <=> id = tgt[w]
      BY <2>1, <2>2, <2>3
    <2>6. \A v \in Writers : v # w => pc'[v] = pc[v]
      BY <2>1
    <2> HIDE DEF Abstract!Outcomes
    <2> QED
      <3>1. ASSUME NEW v \in Writers, v # w
            PROVE  /\ \A id \in Ids : v \in file'[id].edits =>
                         /\ id = tgt'[v]
                         /\ pc'[v] = "return" \/ out'[v] \in {"done", "lost"}
                   /\ pc'[v] = "return" \/ out'[v] = "done" => v \in file'[tgt'[v]].edits
        BY <2>1, <2>4, <2>6, <3>1
      <3>2. /\ \A id \in Ids : w \in file'[id].edits =>
                         /\ id = tgt'[w]
                         /\ pc'[w] = "return" \/ out'[w] \in {"done", "lost"}
            /\ pc'[w] = "return" \/ out'[w] = "done" => w \in file'[tgt'[w]].edits
        BY <2>1, <2>5
      <3> QED
        BY <3>1, <3>2
  <1>7. ASSUME NEW w \in Writers, WriteFails(w)
       PROVE  EditsTrue'
    BY <1>7 DEF WriteFails, Ends, To
  <1>8. ASSUME NEW w \in Writers, Return(w)
       PROVE  EditsTrue'
    BY <1>8 DEF Return, Ends, To
  <1>9. ASSUME NEW w \in Writers, Age(w)
       PROVE  EditsTrue'
    BY <1>9 DEF Age
  <1>10. ASSUME NEW w \in Writers, NEW id \in Ids, Begin(w, id)
       PROVE  EditsTrue'
    BY <1>10 DEF Begin, To
  <1>11. CASE Crash
    BY <1>11 DEF Crash
  <1>12. CASE UNCHANGED vars
    BY <1>12 DEF vars
  <1> QED
    BY <1>1, <1>2, <1>3, <1>4, <1>5, <1>6, <1>7, <1>8, <1>9, <1>10, <1>11, <1>12
    DEF Next, Step

\* A loop that meets a conflict has been overtaken by one more revision.
LEMMA ContentionStep ==
    TypeOK /\ Answers /\ Buffered /\ Contention /\ [Next]_vars => Contention'
  <1> SUFFICES ASSUME TypeOK, Answers, Buffered, Contention, [Next]_vars
               PROVE  Contention'
    OBVIOUS
  <1> /\ pc \in [Writers -> Pcs] /\ tgt \in [Writers -> Ids \cup {None}]
      /\ \A w \in Writers : tgt[w] = None <=> pc[w] = "idle"
      /\ out \in [Writers -> Abstract!Outcomes]
      /\ file \in [Ids -> Abstract!Record] /\ rev \in [Ids -> Nat]
      /\ seen \in [Writers -> Nat] /\ first \in [Writers -> Nat]
      /\ attempt \in [Writers -> 0..MaxAttempts]
    BY DEF TypeOK
  <1> USE DEF Contention, Answers, Pcs, Abstract!Outcomes
  <1>1. ASSUME NEW w \in Writers, Enter(w)
       PROVE  Contention'
    BY <1>1 DEF Enter, To
  <1>2. ASSUME NEW w \in Writers, Get(w)
       PROVE  Contention'
    <2>1. /\ pc[w] = "read" /\ tgt[w] \in Ids /\ rev[tgt[w]] \in Nat
          /\ UNCHANGED <<file, rev, tgt, attempt>>
      BY <1>2 DEF Get
    <2>2. CASE /\ pc' = [pc EXCEPT ![w] = "end"] /\ out' = [out EXCEPT ![w] = "refused"]
               /\ UNCHANGED <<seen, first>>
      BY <2>1, <2>2
    <2>3. CASE /\ pc' = [pc EXCEPT ![w] = "toSwap"] /\ UNCHANGED out
               /\ Abstract!Exists(file[tgt[w]])
               /\ seen' = [seen EXCEPT ![w] = rev[tgt[w]]]
               /\ first' = IF attempt[w] = 0 THEN [first EXCEPT ![w] = rev[tgt[w]]] ELSE first
      <3>1. first'[w] + attempt[w] <= rev[tgt[w]]
        <4>1. CASE attempt[w] = 0
          BY <2>1, <2>3, <4>1
        <4>2. CASE attempt[w] # 0
          BY <2>1, <2>3, <4>2
        <4> QED
          BY <4>1, <4>2
      <3>2. seen'[w] = rev[tgt[w]] /\ \A v \in Writers : v # w => seen'[v] = seen[v]
        BY <2>1, <2>3
      <3>3. \A v \in Writers : v # w => first'[v] = first[v]
        BY <2>1, <2>3
      <3> QED
        BY <2>1, <2>3, <3>1, <3>2, <3>3
    <2> QED
      BY <1>2, <2>2, <2>3 DEF Get, Ends, To
  <1>3. ASSUME NEW w \in Writers, Conflict(w)
       PROVE  Contention'
    <2>1. /\ pc[w] = "swap" /\ tgt[w] \in Ids /\ rev[tgt[w]] \in Nat
          /\ Kind[w] # "create" /\ rev[tgt[w]] # seen[w]
          /\ UNCHANGED <<file, rev, tgt, seen, first>>
          /\ attempt' = [attempt EXCEPT ![w] = attempt[w] + 1]
      BY <1>3 DEF Conflict
    <2>2. /\ Abstract!Exists(file[tgt[w]])
          /\ first[w] + (attempt[w] + 1) <= rev[tgt[w]]
      BY <2>1, SMTT(30)
    <2>3. attempt'[w] = attempt[w] + 1 /\ \A v \in Writers : v # w => attempt'[v] = attempt[v]
      BY <2>1
    <2>4. \/ /\ attempt[w] + 1 = MaxAttempts
             /\ pc' = [pc EXCEPT ![w] = "end"] /\ out' = [out EXCEPT ![w] = "exhausted"]
          \/ pc' = [pc EXCEPT ![w] = "toRead"] /\ UNCHANGED out
      BY <1>3 DEF Conflict, Ends, To
    <2> QED
      BY <2>1, <2>2, <2>3, <2>4
  <1>4. ASSUME NEW w \in Writers, Swap(w)
       PROVE  Contention'
    BY <1>4 DEF Swap, Running, To, Ends
  <1>5. ASSUME NEW w \in Writers, Open(w)
       PROVE  Contention'
    BY <1>5 DEF Open, To
  <1>6. ASSUME NEW w \in Writers, Rename(w)
       PROVE  Contention'
    <2>1. /\ tgt[w] \in Ids /\ pc[w] = "rename" /\ Abstract!Allows(w, file[tgt[w]])
          /\ file' = [file EXCEPT ![tgt[w]] = Abstract!Mutated(w, file[tgt[w]])]
          /\ rev' = [rev EXCEPT ![tgt[w]] =
                        IF Kind[w] = "create" THEN 0 ELSE rev[tgt[w]] + 1]
          /\ pc' = [pc EXCEPT ![w] = "return"]
          /\ UNCHANGED <<tgt, out, attempt, first, seen>>
      BY <1>6, RenameApplies DEF Rename, To
    <2>2. \A id \in Ids : Abstract!Exists(file[id]) => Abstract!Exists(file'[id])
      BY <2>1, MutatedExists
    <2>3. \A id \in Ids : Abstract!Exists(file[id]) => rev[id] <= rev'[id] /\ rev'[id] \in Nat
      BY <2>1, AllowedOn
    <2>4. \A v \in Writers : v # w => pc'[v] = pc[v]
      BY <2>1
    <2>5. out[w] = "none" /\ pc'[w] = "return"
      BY <2>1
    <2>6. ASSUME NEW v \in Writers, v # w, Kind[v] # "create", Abstract!Exists(file[tgt[v]]),
                 tgt[v] \in Ids
          PROVE  rev[tgt[v]] <= rev'[tgt[v]] /\ Abstract!Exists(file'[tgt[v]])
      BY <2>2, <2>3, <2>6
    <2>7. tgt' = tgt /\ out' = out /\ attempt' = attempt /\ first' = first /\ seen' = seen
      BY <2>1
    <2>8. \A v \in Writers : pc[v] # "idle" => tgt[v] \in Ids
      OBVIOUS
    <2>9. \A v \in Writers : pc[v] # "idle" => rev[tgt[v]] \in Nat /\ rev'[tgt[v]] \in Nat
      BY <2>1, <2>8
    <2> QED
      BY <2>4, <2>5, <2>6, <2>7, <2>8, <2>9
  <1>7. ASSUME NEW w \in Writers, WriteFails(w)
       PROVE  Contention'
    BY <1>7 DEF WriteFails, Ends, To
  <1>8. ASSUME NEW w \in Writers, Return(w)
       PROVE  Contention'
    BY <1>8 DEF Return, Ends, To
  <1>9. ASSUME NEW w \in Writers, Age(w)
       PROVE  Contention'
    BY <1>9 DEF Age
  <1>10. ASSUME NEW w \in Writers, NEW id \in Ids, Begin(w, id)
       PROVE  Contention'
    BY <1>10 DEF Begin, To
  <1>11. CASE Crash
    BY <1>11 DEF Crash
  <1>12. CASE UNCHANGED vars
    BY <1>12 DEF vars
  <1> QED
    BY <1>1, <1>2, <1>3, <1>4, <1>5, <1>6, <1>7, <1>8, <1>9, <1>10, <1>11, <1>12
    DEF Next, Step

\* Every step keeps the inductive invariant.
LEMMA InvStep == IInv /\ [Next]_vars => IInv'
  BY TypeStep, SerialStep, AnswersStep, BufferedStep, EditsStep, ContentionStep, OwnTempStep
  DEF IInv, Guarded

\* The inductive invariant holds in every reachable state.
THEOREM Inductive == Spec => []IInv
  BY InvInit, InvStep, PTL DEF Spec

\* What a caller of the journal may rely on: its answer is true, a rewrite of
\* the file by another call never drops its change, #update runs out of
\* attempts only after as many revisions by others, and no sweep removes the
\* temporary it is about to rename; for any number of calls and of attempts,
\* with write failures and crashes anywhere.
THEOREM WritersContract == Spec => []WriterContract
  <1>1. IInv => WriterContract
    <2> SUFFICES ASSUME IInv PROVE WriterContract
      OBVIOUS
    <2> TypeOK /\ Answers /\ EditsTrue /\ Contention /\ OwnTempKept
      BY DEF IInv, Guarded
    <2>1. NoLostUpdate
      BY DEF NoLostUpdate, EditsTrue, Answers
    <2>2. ExhaustedMeansContention
      <3> SUFFICES ASSUME NEW w \in Writers, out[w] = "exhausted"
                   PROVE  rev[tgt[w]] - first[w] >= MaxAttempts
        BY DEF ExhaustedMeansContention
      <3>1. first[w] + MaxAttempts <= rev[tgt[w]]
        BY DEF Contention, Answers
      <3>2. pc[w] = "end"
        BY DEF Answers
      <3>3. tgt[w] \in Ids /\ rev[tgt[w]] \in Nat /\ first[w] \in Nat
        BY <3>2 DEF TypeOK
      <3> QED
        BY <3>1, <3>3
    <2> QED
      BY <2>1, <2>2 DEF WriterContract
  <1> QED
    BY Inductive, <1>1, PTL

-----------------------------------------------------------------------------
\* A call that has not renamed yet has left nothing in the journal.
LEMMA NotYetApplied ==
  ASSUME Answers, EditsTrue, NEW w \in Writers, pc[w] \notin {"return", "end"}
  PROVE  out[w] = "none" /\ ~Abstract!Applied(w)
  BY DEF Answers, EditsTrue, Abstract!Applied

\* Every step of the store is a step of the atomic journal, or changes
\* nothing that it shows: the rename is where a call takes effect, and a get
\* or a swap that refuses is where it is refused.
LEMMA StepRefines == IInv /\ [Next]_vars => [Abstract!Next]_<<file, out>>
  <1> SUFFICES ASSUME IInv, [Next]_vars
               PROVE  [Abstract!Next]_<<file, out>>
    OBVIOUS
  <1> DEFINE Goal == [Abstract!Next]_<<file, out>>
  <1> TypeOK /\ Serial /\ Answers /\ Buffered /\ EditsTrue
    BY DEF IInv, Guarded
  <1> /\ pc \in [Writers -> Pcs] /\ out \in [Writers -> Abstract!Outcomes]
      /\ \A w \in Writers : pc[w] # "idle" => tgt[w] \in Ids
    BY DEF TypeOK
  <1>1. ASSUME NEW w \in Writers, Enter(w)
       PROVE  Goal
    BY <1>1 DEF Enter
  <1>2. ASSUME NEW w \in Writers, Get(w)
       PROVE  Goal
    <2>1. pc[w] = "read" /\ tgt[w] \in Ids /\ file' = file /\ file[tgt[w]] \in Abstract!Record
      BY <1>2 DEF Get, TypeOK
    <2>2. CASE UNCHANGED out
      BY <2>1, <2>2
    <2>3. CASE /\ out' = [out EXCEPT ![w] = "refused"]
               /\ ~Abstract!Allows(w, file[tgt[w]])
      BY <2>1, <2>3, NotYetApplied DEF Abstract!Next, Abstract!Refused
    <2>4. Kind[w] # "create"
      BY <2>1 DEF Answers
    <2>5. ~Abstract!Exists(file[tgt[w]]) => ~Abstract!Allows(w, file[tgt[w]])
      BY <2>1, <2>4, AllowedOn
    <2> QED
      BY <1>2, <2>2, <2>3, <2>5 DEF Get, Ends
  <1>3. ASSUME NEW w \in Writers, Conflict(w)
       PROVE  Goal
    <2>1. pc[w] = "swap" /\ file' = file
      BY <1>3 DEF Conflict
    <2>2. CASE UNCHANGED out
      BY <2>1, <2>2
    <2>3. CASE out' = [out EXCEPT ![w] = "exhausted"]
      <3>1. Abstract!GivesUp(w)
        BY <2>1, <2>3, NotYetApplied DEF Abstract!GivesUp
      <3> QED
        BY <3>1 DEF Abstract!Next
    <2> QED
      BY <1>3, <2>2, <2>3 DEF Conflict, Ends
  <1>4. ASSUME NEW w \in Writers, Swap(w)
       PROVE  Goal
    <2>1. pc[w] = "swap" /\ tgt[w] \in Ids /\ file' = file
      BY <1>4 DEF Swap
    <2>2. CASE Abstract!Allows(w, file[tgt[w]])
      BY <1>4, <2>2 DEF Swap
    <2>3. CASE ~Abstract!Allows(w, file[tgt[w]])
      <3>1. out' = [out EXCEPT ![w] = "refused"]
        BY <1>4, <2>3 DEF Swap, Ends
      <3>2. Abstract!Refused(w, tgt[w])
        BY <2>1, <2>3, <3>1, NotYetApplied DEF Abstract!Refused
      <3> QED
        BY <2>1, <3>2 DEF Abstract!Next
    <2> QED
      BY <2>2, <2>3
  <1>5. ASSUME NEW w \in Writers, Open(w)
       PROVE  Goal
    BY <1>5 DEF Open
  <1>6. ASSUME NEW w \in Writers, Rename(w)
       PROVE  Goal
    <2>1. pc[w] = "rename" /\ out' = out
      BY <1>6 DEF Rename
    <2>2. /\ tgt[w] \in Ids /\ Abstract!Allows(w, file[tgt[w]])
          /\ file' = [file EXCEPT ![tgt[w]] = Abstract!Mutated(w, file[tgt[w]])]
      BY <1>6, RenameApplies
    <2>3. Abstract!Apply(w, tgt[w])
      BY <2>1, <2>2, NotYetApplied DEF Abstract!Apply
    <2> QED
      BY <2>2, <2>3 DEF Abstract!Next
  <1>7. ASSUME NEW w \in Writers, WriteFails(w)
       PROVE  Goal
    <2>1. pc[w] \in {"open", "rename"} /\ file' = file /\ out' = [out EXCEPT ![w] = "failed"]
      BY <1>7 DEF WriteFails, Ends
    <2>2. Abstract!GivesUp(w)
      BY <2>1, NotYetApplied DEF Abstract!GivesUp
    <2> QED
      BY <2>2 DEF Abstract!Next
  <1>8. ASSUME NEW w \in Writers, Return(w)
       PROVE  Goal
    <2>1. pc[w] = "return" /\ file' = file /\ out' = [out EXCEPT ![w] = "done"]
      BY <1>8 DEF Return, Ends
    <2>2. out[w] = "none" /\ Abstract!Applied(w)
      BY <2>1 DEF Answers, EditsTrue, Abstract!Applied
    <2>3. Abstract!Done(w)
      BY <2>1, <2>2 DEF Abstract!Done
    <2> QED
      BY <2>3 DEF Abstract!Next
  <1>9. ASSUME NEW w \in Writers, Age(w)
       PROVE  Goal
    BY <1>9 DEF Age
  <1>10. ASSUME NEW w \in Writers, NEW id \in Ids, Begin(w, id)
       PROVE  Goal
    BY <1>10 DEF Begin
  <1>11. CASE Crash
    <2> DEFINE S == {w \in Writers : pc[w] \notin {"idle", "end"}}
    <2>1. S \in SUBSET {w \in Writers : out[w] = "none"}
      BY DEF Answers
    <2>2. out' = [w \in Writers |-> IF w \in S THEN "lost" ELSE out[w]]
      BY <1>11 DEF Crash
    <2>3. file' = file
      BY <1>11 DEF Crash
    <2>4. Abstract!Dies
      BY <2>1, <2>2, <2>3 DEF Abstract!Dies
    <2> QED
      BY <2>4 DEF Abstract!Next
  <1>12. CASE UNCHANGED vars
    BY <1>12 DEF vars
  <1> QED
    BY <1>1, <1>2, <1>3, <1>4, <1>5, <1>6, <1>7, <1>8, <1>9, <1>10, <1>11, <1>12
    DEF Next, Step

\* Every call of the journal takes effect at one instant on the record of that
\* instant, or not at all, and answers accordingly: JsonFileSandboxStore with
\* the loops of #update and of the jail registry implements AtomicJournal.
THEOREM JournalIsAtomic == Spec => UpdatesAreAtomic
  <1>1. Init => Abstract!Init
    BY DEF Init, Abstract!Init
  <1> QED
    BY <1>1, Inductive, StepRefines, PTL DEF Spec, UpdatesAreAtomic, Abstract!Spec
=============================================================================
