----------------------------- MODULE ClientProofs -----------------------------
(***************************************************************************)
(* Theorems about the client's side: the transfers of Stream, for bodies   *)
(* of any length and any number of writers, and the sessions of Session,   *)
(* for any number of clients.                                              *)
(***************************************************************************)
EXTENDS Stream, Session, TLAPS

USE StreamFlows, StreamBounds, StreamNone

(***************************************************************************)
(* The inductive invariant of the transfers: types, then one part for each *)
(* kind of transfer.                                                       *)
(***************************************************************************)
UploadType ==
    /\ link \in {"up", "closing", "down"}
    /\ wpc \in [Writers -> {"idle", "begin", "sending", "chunk", "finish", "ok", "failed"}]
    /\ seq \in [Writers -> 0..N]
    /\ req \in [Writers -> {"none", "begin", "chunk", "writing", "finish", "syncing"}]
    /\ tally \in [Writers -> 0..N]
    /\ tracked \subseteq Writers /\ done \subseteq Writers /\ late \subseteq Writers
    /\ handle \in [Writers -> Writers \cup {None}]
    /\ path \in Writers \cup {None} /\ last \in Writers \cup {None}
    /\ data \in [Writers -> [1..N -> Writers \cup {None, Torn}]]
    /\ \A w \in tracked : handle[w] # None

Writes == [seq : 0..N, off : Offsets]

FileType ==
    /\ cursor \in Offsets /\ wseq \in 0..N /\ fcall \in 0..N \cup {None}
    /\ queue \in Seq(Writes)
    /\ stage \in {"idle", "sought"} /\ nextSeq \in 0..N /\ pos \in Offsets
    /\ reads \in [off : Offsets, sought : BOOLEAN] \cup {None}
    /\ file \in [Offsets -> 0..N \cup {None}]
    /\ acked \subseteq Writes

StdinType ==
    /\ sink \in {"writable", "writing", "aborting", "closing", "closed", "dropped", "errored"}
    /\ sent \in 0..N /\ pipe \in {"none", "writing"} /\ absorbed \in 0..N
    /\ got \in 0..N /\ eof \in BOOLEAN

OutputType ==
    /\ made \in 0..N /\ exited \in BOOLEAN
    /\ pump \in {"read", "capacity", "flush", "finish", "fail", "done"}
    /\ pumped \in 0..N /\ recv \in 0..N /\ taken \in 0..N /\ flight \in 0..N
    /\ wire \in Seq({"chunk", "finish", "fail"})
    /\ chan \in {"open", "closed", "errored"}
    /\ wait \in {"pending", "exit", "rejected"}
    /\ status \in {"pending", "resolved", "rejected"}

UploadStep == Drop \/ TornDown \/ \E w \in Writers : Upload(w)

Sending == {"sending", "chunk", "finish"}

\* What an upload's request says of its call: the agent answers in order, so
\* a finish is only asked for with every chunk acknowledged, and an upload
\* that may still write is tracked.
Call(w) ==
    /\ wpc[w] \in {"idle", "ok"} => req[w] = "none" /\ w \notin tracked
    /\ wpc[w] = "idle" \/ req[w] = "begin" =>
           w \notin tracked /\ w \notin done /\ seq[w] = 0 /\ tally[w] = 0
    /\ wpc[w] = "idle" => last # w
    /\ wpc[w] \in Waiting => last = w
    /\ req[w] = "begin" => wpc[w] \in {"begin", "failed"}
    /\ wpc[w] = "begin" /\ link = "up" => req[w] = "begin"
    /\ wpc[w] = "sending" => req[w] = "none" /\ seq[w] = tally[w] /\ w \in tracked \cup done
    /\ req[w] \in {"chunk", "writing"} =>
           /\ wpc[w] \in {"chunk", "failed"} /\ w \in tracked \cup done
           /\ seq[w] = tally[w] /\ seq[w] < N
    /\ req[w] = "finish" =>
           /\ wpc[w] \in {"finish", "failed"} /\ w \in tracked \cup done
           /\ seq[w] = N /\ tally[w] = N
    /\ req[w] = "syncing" =>
           wpc[w] \in {"finish", "failed"} /\ w \in done /\ seq[w] = N /\ tally[w] = N
    /\ wpc[w] \in Sending /\ link = "up" => path # None

Calls ==
    /\ \A w \in Writers : Call(w)
    /\ tracked \cap done = {}
    /\ link = "up" => late = {}
    /\ link = "down" => tracked \subseteq late

\* A failed call whose upload stays open until the connection's teardown.
Stuck(w) == w \in tracked /\ wpc[w] = "failed" /\ req[w] # "finish"

\* The chunks that w's upload has absorbed are at the path.
Ahead(w) == handle[w] = path /\ \A i \in 1..N : i <= tally[w] => data[path][i] = w

\* Whose bytes are at the path, unless the teardown will remove it: the
\* running call's absorbed chunks, else one whole body.
Owned ==
    late = {} /\ path # None /\ (\A v \in Writers : ~Stuck(v)) =>
        /\ \A w \in tracked : wpc[w] \in Sending => Ahead(w)
        /\ \A w \in Writers : wpc[w] = "finish" /\ req[w] = "syncing" => Holds(w)
        /\ (\A w \in tracked : wpc[w] \notin Sending) => \E w \in Writers : Holds(w)

\* The last call has returned and none has failed: its body is at the path.
Returned ==
    (\A v \in Writers : wpc[v] # "failed") /\ last # None /\ wpc[last] = "ok" => Holds(last)

Bodies == Owned /\ Returned

\* The head of the write chain that has sought is the write the agent
\* expects; what is acknowledged is behind it.
Chain ==
    /\ stage = "sought" => queue # <<>> /\ Head(queue).seq = nextSeq
    /\ \A i \in 1..Len(queue) : queue[i].seq < wseq
    /\ \A a \in acked : a.seq < nextSeq

\* Nobody moves the OS cursor between the head's seek and its write.
InPlace ==
    /\ stage = "sought" => pos = Head(queue).off
    /\ reads # None => queue = <<>>
    /\ AckedWriteInPlace

\* The agent's tally is what the child has, and trails the SDK's.
Stdin ==
    /\ got = absorbed /\ absorbed <= sent
    /\ pipe = "writing" => absorbed < sent
    /\ sink = "writable" => pipe = "none"
    /\ sink = "closed" => eof /\ got = sent /\ pipe = "none"

\* Chunks are first on the wire, as many as there are in flight; what the
\* pump absorbed has been received, is in flight or is in the pump's hand.
Output ==
    /\ taken <= recv /\ recv + flight <= pumped /\ pumped <= made
    /\ flight <= Len(wire)
    /\ \A i \in 1..Len(wire) : wire[i] = "chunk" <=> i <= flight
    /\ pump \in {"read", "capacity", "flush"} =>
        /\ Len(wire) = flight /\ chan = "open"
        /\ recv + flight + (IF pump = "capacity" THEN 1 ELSE 0) = pumped
    /\ pump = "flush" => exited /\ pumped = made
    /\ (\E i \in 1..Len(wire) : wire[i] = "finish") \/ pump = "finish" \/ chan = "closed" =>
        exited /\ recv = made /\ pumped = made /\ flight = 0
    /\ wait = "exit" => exited
    /\ status = "resolved" => exited /\ InheritEnded

UploadInv == UploadType /\ Calls /\ Bodies
FileInv == FileType /\ Chain
StdinInv == StdinType /\ Stdin
OutputInv == OutputType /\ Output

StreamInv == flow \in Flows /\ UploadInv /\ FileInv /\ StdinInv /\ OutputInv

-----------------------------------------------------------------------------
(* Facts about queues.                                                     *)

\* What taking the head of a queue leaves.
LEMMA Taken ==
    ASSUME NEW S, NEW s \in Seq(S), s # <<>>
    PROVE  /\ Len(s) \in Nat \ {0} /\ Head(s) = s[1] /\ Head(s) \in S /\ Tail(s) \in Seq(S)
           /\ Len(Tail(s)) = Len(s) - 1
           /\ \A i \in 1..Len(Tail(s)) : Tail(s)[i] = s[i + 1]
  OBVIOUS

\* What appending to a queue gives.
LEMMA Appended ==
    ASSUME NEW S, NEW s \in Seq(S), NEW x \in S
    PROVE  /\ Len(s) \in Nat /\ Append(s, x) \in Seq(S) /\ Append(s, x) # <<>>
           /\ Len(Append(s, x)) = Len(s) + 1
           /\ Append(s, x)[Len(s) + 1] = x
           /\ \A i \in 1..Len(s) : Append(s, x)[i] = s[i]
           /\ s # <<>> => Head(Append(s, x)) = Head(s)
  OBVIOUS

\* A step moves one kind of transfer, or the connection.
LEMMA Kinds ==
    [Next]_vars =>
        \/ UploadStep /\ UNCHANGED <<flow, fileVars, stdinVars, outVars>>
        \/ FileStep /\ UNCHANGED <<flow, link, upVars, stdinVars, outVars>>
        \/ StdinStep /\ UNCHANGED <<flow, link, upVars, fileVars, outVars>>
        \/ OutputStep /\ UNCHANGED <<flow, link, upVars, fileVars, stdinVars>>
        \/ UNCHANGED vars
  <1> DEFINE Goal == \/ UploadStep /\ UNCHANGED <<flow, fileVars, stdinVars, outVars>>
                     \/ FileStep /\ UNCHANGED <<flow, link, upVars, stdinVars, outVars>>
                     \/ StdinStep /\ UNCHANGED <<flow, link, upVars, fileVars, outVars>>
                     \/ OutputStep /\ UNCHANGED <<flow, link, upVars, fileVars, stdinVars>>
  <1>1. ASSUME NEW w \in Writers, Upload(w) PROVE Goal
    BY <1>1 DEF UploadStep, Upload, OnlyUpload, WriteFile, BeginUpload, BeginUploadFails,
        SendChunk, SendFinish, WriteFileFails, Chunk, ChunkLands,
        ChunkFails, Finish, Synced, CloseResource
  <1>2. ASSUME Drop \/ TornDown PROVE Goal
    BY <1>2 DEF UploadStep, Drop, TornDown
  <1>3. ASSUME FileStep PROVE Goal
    BY <1>3 DEF FileStep, OnlyFile, FileWrite, FileCallFails, RemoteWrite, WriteLands,
        WriteFails, FileRead, RemoteRead, FileSeek
  <1>4. ASSUME StdinStep PROVE Goal
    BY <1>4 DEF StdinStep, OnlyStdin, WriteStdin, PipeTakes, PipeFails, StdinCallFails,
        StdinClose, CloseStdin, CloseStdinLost
  <1>5. ASSUME OutputStep PROVE Goal
    BY <1>5 DEF OutputStep, OnlyOutput, PumpStep, ChildWrites, ChildExits, PumpReads,
        PumpSends, PumpEnds, PumpFinishes, PumpFails, Deliver, InheritTakes, WaitReturns,
        StatusSettles
  <1> QED
    BY <1>1, <1>2, <1>3, <1>4, <1>5 DEF Next

-----------------------------------------------------------------------------
(* The output of a child.                                                  *)

\* The first state satisfies the invariant of the output.
LEMMA OutputInit == Init => OutputType /\ Output
  <1> SUFFICES ASSUME Init PROVE OutputType /\ Output
    OBVIOUS
  <1>1. exited \in BOOLEAN
    BY DEF Init
  <1>2. /\ made = 0 /\ pump = "read" /\ pumped = 0 /\ wire = <<>> /\ flight = 0 /\ recv = 0
        /\ chan = "open" /\ taken = 0 /\ wait = "pending" /\ status = "pending"
    BY DEF Init
  <1> QED
    BY <1>1, <1>2 DEF OutputType, Output, InheritEnded

\* Every step of the output keeps its invariant: the finish is sent behind
\* every chunk, and delivered behind them.
LEMMA OutputKept == OutputType /\ Output /\ OutputStep => OutputType' /\ Output'
  <1> SUFFICES ASSUME OutputType, Output, OutputStep PROVE OutputType' /\ Output'
    OBVIOUS
  <1> DEFINE Goal == OutputType' /\ Output'
  <1> USE DEF OutputType, Output, InheritEnded
  <1>1. ASSUME ChildWrites PROVE Goal
    BY <1>1 DEF ChildWrites
  <1>2. ASSUME ChildExits PROVE Goal
    BY <1>2 DEF ChildExits
  <1>3. ASSUME PumpReads PROVE Goal
    BY <1>3 DEF PumpReads
  <1>4. ASSUME PumpSends PROVE Goal
    BY <1>4 DEF PumpSends
  <1>5. ASSUME PumpEnds PROVE Goal
    BY <1>5 DEF PumpEnds
  <1>6. ASSUME PumpFinishes PROVE Goal
    BY <1>6 DEF PumpFinishes
  <1>7. ASSUME PumpFails PROVE Goal
    BY <1>7, SMTT(30) DEF PumpFails
  <1>8. ASSUME Deliver PROVE Goal
    <2>1. /\ Len(wire) \in Nat \ {0} /\ Head(wire) = wire[1] /\ Len(wire') = Len(wire) - 1
          /\ wire' \in Seq({"chunk", "finish", "fail"})
          /\ Head(wire) \in {"chunk", "finish", "fail"}
          /\ \A i \in 1..Len(wire') : wire'[i] = wire[i + 1]
      BY <1>8, Taken DEF Deliver
    <2>2. CASE Head(wire) = "chunk"
      <3>1. /\ flight >= 1 /\ flight' = flight - 1 /\ chan' = chan /\ pump' = pump
            /\ recv' = IF chan = "open" THEN recv + 1 ELSE recv
            /\ UNCHANGED <<made, exited, pumped, taken, wait, status>>
        BY <1>8, <2>1, <2>2, SMTT(30) DEF Deliver
      <3>2. chan # "closed" /\ pump # "finish" /\ \A i \in 1..Len(wire) : wire[i] # "finish"
        BY <3>1
      <3>3. \A i \in 1..Len(wire') : (wire'[i] = "chunk" <=> i <= flight') /\ wire'[i] # "finish"
        BY <2>1, <3>1, <3>2
      <3>4. recv' + flight' <= pumped /\ taken <= recv' /\ recv' \in 0..N /\ flight' \in 0..N
        BY <3>1
      <3>5. pump \in {"read", "capacity", "flush"} =>
                recv' + flight' + (IF pump = "capacity" THEN 1 ELSE 0) = pumped
        BY <3>1
      <3> QED
        BY <2>1, <3>1, <3>2, <3>3, <3>4, <3>5
    <2>3. CASE Head(wire) = "finish"
      <3>1. /\ flight = 0 /\ flight' = 0 /\ recv' = recv /\ exited /\ recv = made
            /\ chan' \in {"closed", chan} /\ pump' \in {"done", pump} /\ pump' # "finish"
            /\ pump \notin {"read", "capacity", "flush"}
        BY <1>8, <2>1, <2>3 DEF Deliver
      <3> QED
        BY <1>8, <2>1, <3>1 DEF Deliver
    <2>4. CASE Head(wire) = "fail"
      <3>1. /\ flight = 0 /\ flight' = 0 /\ recv' = recv
            /\ chan' = (IF chan = "open" THEN "errored" ELSE chan)
            /\ pump' \in {"done", pump}
            /\ pump \notin {"read", "capacity", "flush"}
        BY <1>8, <2>1, <2>4 DEF Deliver
      <3> QED
        BY <1>8, <2>1, <3>1 DEF Deliver
    <2> QED
      BY <2>1, <2>2, <2>3, <2>4
  <1>9. ASSUME InheritTakes PROVE Goal
    BY <1>9 DEF InheritTakes
  <1>10. ASSUME WaitReturns PROVE Goal
    BY <1>10 DEF WaitReturns
  <1>11. ASSUME StatusSettles PROVE Goal
    BY <1>11 DEF StatusSettles
  <1> QED
    BY <1>1, <1>2, <1>3, <1>4, <1>5, <1>6, <1>7, <1>8, <1>9, <1>10, <1>11
    DEF OutputStep, PumpStep

\* A stream that ends well has carried everything.
LEMMA OutputEnds == Output => OutputWhole
  BY DEF Output, OutputWhole, InheritEnded

-----------------------------------------------------------------------------
(* stdin.                                                                  *)

\* The first state satisfies the invariant of stdin.
LEMMA StdinInit == Init => StdinType /\ Stdin
  <1> SUFFICES ASSUME Init PROVE StdinType /\ Stdin
    OBVIOUS
  <1>1. eof \in BOOLEAN
    BY DEF Init
  <1>2. sink = "writable" /\ sent = 0 /\ pipe = "none" /\ absorbed = 0 /\ got = 0
    BY DEF Init
  <1> QED
    BY <1>1, <1>2 DEF StdinType, Stdin

\* Every step of stdin keeps its invariant: a failed write leaves the
\* agent's tally behind for good, and the sink errored.
LEMMA StdinKept == StdinType /\ Stdin /\ StdinStep => StdinType' /\ Stdin'
  <1> SUFFICES ASSUME StdinType, Stdin, StdinStep PROVE StdinType' /\ Stdin'
    OBVIOUS
  <1> DEFINE Goal == StdinType' /\ Stdin'
  <1> USE DEF StdinType, Stdin
  <1>1. ASSUME WriteStdin PROVE Goal
    BY <1>1 DEF WriteStdin
  <1>2. ASSUME PipeTakes PROVE Goal
    BY <1>2 DEF PipeTakes, SinkAfter
  <1>3. ASSUME PipeFails PROVE Goal
    BY <1>3 DEF PipeFails, SinkAfter
  <1>4. ASSUME StdinCallFails PROVE Goal
    BY <1>4 DEF StdinCallFails, SinkAfter
  <1>5. ASSUME StdinClose PROVE Goal
    BY <1>5 DEF StdinClose
  <1>6. ASSUME CloseStdin PROVE Goal
    BY <1>6 DEF CloseStdin
  <1>7. ASSUME CloseStdinLost PROVE Goal
    BY <1>7 DEF CloseStdinLost
  <1> QED
    BY <1>1, <1>2, <1>3, <1>4, <1>5, <1>6, <1>7
    DEF StdinStep

-----------------------------------------------------------------------------
(* The writes of a file handle.                                            *)

\* A write names a sequence and an offset.
LEMMA WriteFields == \A x \in Writes : x.seq \in 0..N /\ x.off \in Offsets
  BY DEF Writes

\* The first state satisfies the invariants of a file handle.
LEMMA FileInit == Init => FileType /\ Chain /\ InPlace
  BY DEF Init, FileType, Offsets, Chain, InPlace, AckedWriteInPlace

\* Every step of a handle keeps the types and the chain: the head that has
\* sought is the write the agent expects.
LEMMA ChainKept == FileType /\ Chain /\ FileStep => FileType' /\ Chain'
  <1> SUFFICES ASSUME FileType, Chain, FileStep PROVE FileType' /\ Chain'
    OBVIOUS
  <1> DEFINE Goal == FileType' /\ Chain'
  <1> USE DEF FileType, Chain, Offsets
  <1>1. ASSUME FileWrite PROVE Goal
    <2> DEFINE x == [seq |-> wseq, off |-> cursor]
    <2>1. x \in Writes /\ x.seq = wseq /\ wseq < N
      BY <1>1 DEF FileWrite, Writes
    <2>2. queue' = Append(queue, x)
      BY <1>1 DEF FileWrite
    <2> HIDE DEF x
    <2>3. /\ queue' \in Seq(Writes) /\ queue' # <<>>
          /\ Len(queue') = Len(queue) + 1 /\ queue'[Len(queue) + 1] = x
          /\ \A i \in 1..Len(queue) : queue'[i] = queue[i]
          /\ queue # <<>> => Head(queue') = Head(queue)
          /\ Len(queue) \in Nat
      BY <2>1, <2>2, Appended
    <2>4. \A i \in 1..Len(queue') : queue'[i].seq < wseq'
      <3> SUFFICES ASSUME NEW i \in 1..Len(queue') PROVE queue'[i].seq < wseq'
        OBVIOUS
      <3>1. CASE i = Len(queue) + 1
        BY <1>1, <2>1, <2>3, <3>1 DEF FileWrite
      <3>2. CASE i \in 1..Len(queue)
        <4>1. queue[i] \in Writes /\ queue[i].seq < wseq /\ queue[i].seq \in 0..N
          BY <3>2, WriteFields
        <4> QED
          BY <1>1, <4>1, <2>1, <2>3, <3>2 DEF FileWrite
      <3> QED
        BY <2>3, <3>1, <3>2
    <2> QED
      BY <1>1, <2>1, <2>3, <2>4, SMTT(30) DEF FileWrite
  <1>2. ASSUME FileCallFails PROVE Goal
    BY <1>2 DEF FileCallFails
  <1>3. ASSUME RemoteWrite PROVE Goal
    <2>1. /\ Len(queue) \in Nat \ {0} /\ Head(queue) = queue[1]
          /\ Tail(queue) \in Seq(Writes)
          /\ Head(queue) \in Writes /\ Head(queue).seq \in 0..N /\ Head(queue).off \in Offsets
          /\ Len(Tail(queue)) = Len(queue) - 1
          /\ \A i \in 1..Len(Tail(queue)) : Tail(queue)[i] = queue[i + 1]
          /\ \A i \in 1..Len(queue) : queue[i].seq \in 0..N
      BY <1>3, Taken, WriteFields DEF RemoteWrite
    <2>2. CASE Head(queue).seq # nextSeq
      <3>1. /\ queue' = Tail(queue) /\ fcall' \in {None, fcall} /\ stage' = "idle" /\ stage = "idle"
            /\ UNCHANGED <<pos, cursor, wseq, nextSeq, reads, file, acked>>
        BY <1>3, <2>2 DEF RemoteWrite
      <3>2. \A i \in 1..Len(queue') : queue'[i].seq < wseq'
        BY <2>1, <3>1
      <3> QED
        BY <2>1, <3>1, <3>2
    <2>3. CASE Head(queue).seq = nextSeq
      BY <1>3, <2>1, <2>3 DEF RemoteWrite
    <2> QED
      BY <2>2, <2>3
  <1>4. ASSUME WriteLands PROVE Goal
    <2>1. /\ Len(queue) \in Nat \ {0} /\ Head(queue) = queue[1]
          /\ Tail(queue) \in Seq(Writes)
          /\ Head(queue) \in Writes /\ Head(queue).seq \in 0..N /\ Head(queue).off \in Offsets
          /\ Len(Tail(queue)) = Len(queue) - 1
          /\ \A i \in 1..Len(Tail(queue)) : Tail(queue)[i] = queue[i + 1]
          /\ \A i \in 1..Len(queue) : queue[i].seq \in 0..N
      BY <1>4, Taken, WriteFields DEF WriteLands
    <2>2. /\ nextSeq < wseq /\ Head(queue).seq = nextSeq /\ Head(queue).seq \in 0..N
          /\ nextSeq' = nextSeq + 1 /\ stage' = "idle" /\ queue' = Tail(queue) /\ wseq' = wseq
          /\ reads' = reads
      BY <1>4, <2>1 DEF WriteLands
    <2>3. /\ file' \in [Offsets -> 0..N \cup {None}] /\ pos' \in Offsets
      BY <1>4, <2>2 DEF WriteLands
    <2>4. /\ fcall' \in 0..N \cup {None} /\ cursor' \in Offsets
          /\ acked' \subseteq acked \cup {Head(queue)}
      BY <1>4 DEF WriteLands
    <2>5. \A i \in 1..Len(queue') : queue'[i].seq < wseq'
      BY <2>1, <2>2
    <2>6. /\ acked' \subseteq Writes
          /\ \A a \in acked' : a.seq < nextSeq'
      <3>1. \A a \in acked : a \in Writes /\ a.seq \in 0..N /\ a.seq < nextSeq + 1
        BY WriteFields
      <3> QED
        BY <3>1, <2>1, <2>2, <2>4
    <2> QED
      BY <2>1, <2>2, <2>3, <2>4, <2>5, <2>6
  <1>5. ASSUME WriteFails PROVE Goal
    <2>1. /\ Len(queue) \in Nat \ {0} /\ Head(queue) = queue[1]
          /\ Tail(queue) \in Seq(Writes)
          /\ Head(queue) \in Writes /\ Head(queue).seq \in 0..N /\ Head(queue).off \in Offsets
          /\ Len(Tail(queue)) = Len(queue) - 1
          /\ \A i \in 1..Len(Tail(queue)) : Tail(queue)[i] = queue[i + 1]
          /\ \A i \in 1..Len(queue) : queue[i].seq \in 0..N
      BY <1>5, Taken, WriteFields DEF WriteFails
    <2>2. file' \in [Offsets -> 0..N \cup {None}]
      BY <1>5, <2>1 DEF WriteFails
    <2>3. \A i \in 1..Len(queue') : queue'[i].seq < wseq'
      BY <1>5, <2>1 DEF WriteFails
    <2> QED
      BY <1>5, <2>1, <2>2, <2>3 DEF WriteFails
  <1>6. ASSUME FileRead PROVE Goal
    BY <1>6 DEF FileRead, HandleFree
  <1>7. ASSUME RemoteRead PROVE Goal
    <2>1. /\ UNCHANGED <<wseq, fcall, queue, stage, nextSeq, file, acked>>
          /\ reads \in [off : Offsets, sought : BOOLEAN]
      BY <1>7 DEF RemoteRead
    <2>2. pos' \in Offsets /\ cursor' \in Offsets
      BY <1>7, <2>1 DEF RemoteRead
    <2>3. reads' \in [off : Offsets, sought : BOOLEAN] \cup {None}
      BY <1>7, <2>1 DEF RemoteRead
    <2> QED
      BY <2>1, <2>2, <2>3
  <1>8. ASSUME NEW o \in 0..(N - 1), FileSeek(o) PROVE Goal
    BY <1>8 DEF FileSeek, HandleFree
  <1> QED
    BY <1>1, <1>2, <1>3, <1>4, <1>5, <1>6, <1>7, <1>8
    DEF FileStep

\* While the client awaits each call of a handle before the next one, every
\* step keeps the OS cursor where the head of the chain has sought to, and so
\* the acknowledged writes in place.
LEMMA InPlaceKept ==
    ASSUME "race" \notin Faults
    PROVE  FileType /\ Chain /\ InPlace /\ FileStep => InPlace'
  <1> SUFFICES ASSUME FileType, Chain, InPlace, FileStep PROVE InPlace'
    OBVIOUS
  <1> USE DEF FileType, Chain, InPlace, AckedWriteInPlace, Offsets
  <1>1. ASSUME FileWrite PROVE InPlace'
    BY <1>1 DEF FileWrite, HandleFree
  <1>2. ASSUME FileCallFails PROVE InPlace'
    BY <1>2 DEF FileCallFails
  <1>3. ASSUME RemoteWrite PROVE InPlace'
    BY <1>3 DEF RemoteWrite
  <1>4. ASSUME WriteLands PROVE InPlace'
    <2>1. /\ queue # <<>> /\ Head(queue) \in Writes
          /\ Head(queue).seq \in 0..N /\ Head(queue).off \in Offsets
          /\ pos = Head(queue).off /\ Head(queue).seq = nextSeq /\ reads = None
      BY <1>4, Taken, WriteFields DEF WriteLands
    <2>2. /\ stage' = "idle" /\ reads' = None /\ file' = [file EXCEPT ![pos] = nextSeq]
          /\ acked' \subseteq acked \cup {Head(queue)}
      BY <1>4, <2>1 DEF WriteLands
    <2>3. \A a \in acked' : file'[a.off] # None /\ file'[a.off] >= a.seq
      <3> SUFFICES ASSUME NEW a \in acked' PROVE file'[a.off] # None /\ file'[a.off] >= a.seq
        OBVIOUS
      <3>1. CASE a = Head(queue)
        BY <2>1, <2>2, <3>1
      <3>2. CASE a \in acked
        <4>1. a.seq \in 0..N /\ a.off \in Offsets /\ a.seq < nextSeq
          BY <3>2, WriteFields
        <4> QED
          BY <4>1, <2>1, <2>2, <3>2
      <3> QED
        BY <2>2, <3>1, <3>2
    <2> QED
      BY <2>2, <2>3
  <1>5. ASSUME WriteFails PROVE InPlace'
    <2>1. /\ queue # <<>> /\ Head(queue) \in Writes
          /\ Head(queue).seq \in 0..N /\ Head(queue).off \in Offsets
          /\ pos = Head(queue).off /\ Head(queue).seq = nextSeq /\ reads = None
      BY <1>5, Taken, WriteFields DEF WriteFails
    <2>2. /\ stage' = "idle" /\ reads' = None /\ acked' = acked
          /\ file' \in {file, [file EXCEPT ![pos] = nextSeq]}
      BY <1>5, <2>1 DEF WriteFails
    <2>3. \A a \in acked' : file'[a.off] # None /\ file'[a.off] >= a.seq
      <3> SUFFICES ASSUME NEW a \in acked PROVE file'[a.off] # None /\ file'[a.off] >= a.seq
        BY <2>2
      <3>1. /\ a.seq \in 0..N /\ a.off \in Offsets /\ a.seq < nextSeq
            /\ file[a.off] # None /\ file[a.off] >= a.seq
        BY WriteFields
      <3>2. CASE file' = file
        BY <3>1, <3>2
      <3>3. CASE file' = [file EXCEPT ![pos] = nextSeq]
        BY <2>1, <3>1, <3>3
      <3> QED
        BY <2>2, <3>2, <3>3
    <2> QED
      BY <2>2, <2>3
  <1>6. ASSUME FileRead PROVE InPlace'
    BY <1>6 DEF FileRead, HandleFree
  <1>7. ASSUME RemoteRead PROVE InPlace'
    BY <1>7 DEF RemoteRead
  <1>8. ASSUME NEW o \in 0..(N - 1), FileSeek(o) PROVE InPlace'
    BY <1>8 DEF FileSeek, HandleFree
  <1> QED
    BY <1>1, <1>2, <1>3, <1>4, <1>5, <1>6, <1>7, <1>8
    DEF FileStep

-----------------------------------------------------------------------------
(* writeFile.                                                              *)

\* The first state satisfies the invariant of the uploads.
LEMMA UploadInit == Init => UploadType /\ Calls /\ Bodies
  <1> SUFFICES ASSUME Init PROVE UploadType /\ Calls /\ Bodies
    OBVIOUS
  <1>1. UploadType
    BY DEF Init, UploadType, Blank
  <1>2. Calls
    BY DEF Init, Calls, Call, Waiting, Sending
  <1>3. Bodies
    BY DEF Init, Bodies, Owned, Returned
  <1> QED
    BY <1>1, <1>2, <1>3

\* Every step of an upload keeps the types and the bond between a call and
\* its request.
LEMMA CallsKept == UploadType /\ Calls /\ UploadStep => UploadType' /\ Calls'
  <1> SUFFICES ASSUME UploadType, Calls, UploadStep PROVE UploadType' /\ Calls'
    OBVIOUS
  <1> DEFINE Goal == UploadType' /\ Calls'
  <1> USE DEF UploadType, Calls, Call, Waiting, Sending, Blank
  <1>1. ASSUME NEW w \in Writers, WriteFile(w) PROVE Goal
    BY <1>1 DEF WriteFile, SdkTo, ReqTo
  <1>2. ASSUME NEW w \in Writers, BeginUpload(w) PROVE Goal
    BY <1>2 DEF BeginUpload, ReqTo, Answer
  <1>3. ASSUME NEW w \in Writers, BeginUploadFails(w) PROVE Goal
    BY <1>3 DEF BeginUploadFails, ReqTo, Answer
  <1>4. ASSUME NEW w \in Writers, SendChunk(w) PROVE Goal
    BY <1>4 DEF SendChunk, SdkTo, ReqTo
  <1>5. ASSUME NEW w \in Writers, SendFinish(w) PROVE Goal
    BY <1>5 DEF SendFinish, SdkTo, ReqTo
  <1>6. ASSUME NEW w \in Writers, WriteFileFails(w) PROVE Goal
    BY <1>6 DEF WriteFileFails, SdkTo
  <1>7. ASSUME NEW w \in Writers, Chunk(w) PROVE Goal
    <2>1. UploadType'
      <3> HIDE DEF Calls, Call
      <3>1. wpc' \in [Writers -> {"idle", "begin", "sending", "chunk", "finish", "ok", "failed"}]
        BY <1>7, ZenonT(60) DEF Chunk, ReqTo, Answer
      <3>2. req' \in [Writers -> {"none", "begin", "chunk", "writing", "finish", "syncing"}]
        BY <1>7, ZenonT(60) DEF Chunk, ReqTo, Answer
      <3>3. /\ handle' \in [Writers -> Writers \cup {None}] /\ path' \in Writers \cup {None}
            /\ tracked' \subseteq Writers /\ done' \subseteq Writers
            /\ \A v \in tracked' : handle'[v] # None
        BY <1>7 DEF Chunk, ReqTo, Answer
      <3>4. data' \in [Writers -> [1..N -> Writers \cup {None, Torn}]]
        BY <1>7 DEF Chunk, ReqTo, Answer
      <3> QED
        BY <1>7, <3>1, <3>2, <3>3, <3>4 DEF Chunk, ReqTo, Answer
    <2>2. ASSUME NEW v \in Writers PROVE Call(v)'
      <3>1. CASE v = w
        BY <1>7, <3>1 DEF Chunk, ReqTo, Answer
      <3>2. CASE v # w
        BY <1>7, <3>2 DEF Chunk, ReqTo, Answer
      <3> QED
        BY <3>1, <3>2
    <2>3. /\ (tracked \cap done)' = {}
          /\ link' = "up" => late' = {}
          /\ link' = "down" => tracked' \subseteq late'
      BY <1>7 DEF Chunk, ReqTo, Answer
    <2> HIDE DEF UploadType, Call
    <2> QED
      BY <2>1, <2>2, <2>3
  <1>8. ASSUME NEW w \in Writers, ChunkLands(w) PROVE Goal
    <2>1. UploadType'
      BY <1>8 DEF ChunkLands, ReqTo, Answer
    <2>2. ASSUME NEW v \in Writers PROVE Call(v)'
      <3>1. CASE v = w
        BY <1>8, <3>1 DEF ChunkLands, ReqTo, Answer
      <3>2. CASE v # w
        BY <1>8, <3>2 DEF ChunkLands, ReqTo, Answer
      <3> QED
        BY <3>1, <3>2
    <2>3. /\ (tracked \cap done)' = {}
          /\ link' = "up" => late' = {}
          /\ link' = "down" => tracked' \subseteq late'
      BY <1>8 DEF ChunkLands, ReqTo, Answer
    <2> HIDE DEF UploadType, Call
    <2> QED
      BY <2>1, <2>2, <2>3
  <1>9. ASSUME NEW w \in Writers, ChunkFails(w) PROVE Goal
    <2>1. UploadType'
      <3>0. w \in tracked \cup done /\ tally[w] < N
        BY <1>9 DEF ChunkFails
      <3> HIDE DEF Calls, Call
      <3>1. wpc' \in [Writers -> {"idle", "begin", "sending", "chunk", "finish", "ok", "failed"}]
        BY <1>9 DEF ChunkFails, ReqTo, Answer
      <3>2. req' \in [Writers -> {"none", "begin", "chunk", "writing", "finish", "syncing"}]
        BY <1>9 DEF ChunkFails, ReqTo, Answer
      <3>3. /\ handle' \in [Writers -> Writers \cup {None}] /\ path' \in Writers \cup {None}
            /\ tracked' \subseteq Writers /\ done' \subseteq Writers
            /\ \A v \in tracked' : handle'[v] # None
        BY <1>9 DEF ChunkFails, ReqTo, Answer
      <3>4. data' \in [Writers -> [1..N -> Writers \cup {None, Torn}]]
        <4>1. CASE data' = data
          BY <4>1
        <4>2. CASE w \notin done /\ data' = [data EXCEPT ![handle[w]][tally[w] + 1] = Torn]
          <5>1. handle[w] \in Writers /\ tally[w] + 1 \in 1..N
            BY <3>0, <4>2
          <5> QED
            BY <4>2, <5>1
        <4> QED
          BY <1>9, <4>1, <4>2 DEF ChunkFails
      <3> QED
        BY <1>9, <3>1, <3>2, <3>3, <3>4 DEF ChunkFails, ReqTo, Answer
    <2>2. ASSUME NEW v \in Writers PROVE Call(v)'
      <3>1. CASE v = w
        BY <1>9, <3>1 DEF ChunkFails, ReqTo, Answer
      <3>2. CASE v # w
        BY <1>9, <3>2 DEF ChunkFails, ReqTo, Answer
      <3> QED
        BY <3>1, <3>2
    <2>3. /\ (tracked \cap done)' = {}
          /\ link' = "up" => late' = {}
          /\ link' = "down" => tracked' \subseteq late'
      BY <1>9 DEF ChunkFails, ReqTo, Answer
    <2> HIDE DEF UploadType, Call
    <2> QED
      BY <2>1, <2>2, <2>3
  <1>10. ASSUME NEW w \in Writers, Finish(w) PROVE Goal
    <2>1. UploadType'
      <3> HIDE DEF Calls, Call
      <3>1. wpc' \in [Writers -> {"idle", "begin", "sending", "chunk", "finish", "ok", "failed"}]
        BY <1>10 DEF Finish, ReqTo, Answer, Discard
      <3>2. req' \in [Writers -> {"none", "begin", "chunk", "writing", "finish", "syncing"}]
        BY <1>10, ZenonT(60) DEF Finish, ReqTo, Answer, Discard
      <3>3. /\ handle' \in [Writers -> Writers \cup {None}] /\ path' \in Writers \cup {None}
            /\ tracked' \subseteq Writers /\ done' \subseteq Writers
            /\ \A v \in tracked' : handle'[v] # None
        BY <1>10 DEF Finish, ReqTo, Answer, Discard
      <3>4. data' \in [Writers -> [1..N -> Writers \cup {None, Torn}]]
        BY <1>10 DEF Finish, ReqTo, Answer, Discard
      <3> QED
        BY <1>10, <3>1, <3>2, <3>3, <3>4 DEF Finish, ReqTo, Answer, Discard
    <2>2. ASSUME NEW v \in Writers PROVE Call(v)'
      <3>1. CASE v = w
        BY <1>10, <3>1 DEF Finish, ReqTo, Answer, Discard
      <3>2. CASE v # w
        BY <1>10, <3>2 DEF Finish, ReqTo, Answer, Discard
      <3> QED
        BY <3>1, <3>2
    <2>3. /\ (tracked \cap done)' = {}
          /\ link' = "up" => late' = {}
          /\ link' = "down" => tracked' \subseteq late'
      BY <1>10 DEF Finish, ReqTo, Answer, Discard
    <2> HIDE DEF UploadType, Call
    <2> QED
      BY <2>1, <2>2, <2>3
  <1>11. ASSUME NEW w \in Writers, Synced(w) PROVE Goal
    <2>1. UploadType'
      <3>0. w \notin tracked
        BY <1>11 DEF Synced
      <3> HIDE DEF Calls, Call
      <3>1. wpc' \in [Writers -> {"idle", "begin", "sending", "chunk", "finish", "ok", "failed"}]
        BY <1>11 DEF Synced, ReqTo, Answer
      <3>2. req' \in [Writers -> {"none", "begin", "chunk", "writing", "finish", "syncing"}]
        BY <1>11 DEF Synced, ReqTo, Answer
      <3>3. /\ handle' \in [Writers -> Writers \cup {None}] /\ path' \in Writers \cup {None}
            /\ tracked' \subseteq Writers /\ done' \subseteq Writers
            /\ \A v \in tracked' : handle'[v] # None
        BY <1>11, <3>0 DEF Synced, ReqTo, Answer
      <3>4. data' \in [Writers -> [1..N -> Writers \cup {None, Torn}]]
        BY <1>11 DEF Synced, ReqTo, Answer
      <3> QED
        BY <1>11, <3>1, <3>2, <3>3, <3>4 DEF Synced, ReqTo, Answer
    <2>2. ASSUME NEW v \in Writers PROVE Call(v)'
      <3>1. CASE v = w
        BY <1>11, <3>1 DEF Synced, ReqTo, Answer
      <3>2. CASE v # w
        BY <1>11, <3>2 DEF Synced, ReqTo, Answer
      <3> QED
        BY <3>1, <3>2
    <2>3. /\ (tracked \cap done)' = {}
          /\ link' = "up" => late' = {}
          /\ link' = "down" => tracked' \subseteq late'
      BY <1>11 DEF Synced, ReqTo, Answer
    <2> HIDE DEF UploadType, Call
    <2> QED
      BY <2>1, <2>2, <2>3
  <1>12. ASSUME NEW w \in Writers, CloseResource(w) PROVE Goal
    <2>1. UploadType'
      <3> HIDE DEF Calls, Call
      <3>1. wpc' \in [Writers -> {"idle", "begin", "sending", "chunk", "finish", "ok", "failed"}]
        BY <1>12 DEF CloseResource, Discard
      <3>2. req' \in [Writers -> {"none", "begin", "chunk", "writing", "finish", "syncing"}]
        BY <1>12 DEF CloseResource, Discard
      <3>3. /\ handle' \in [Writers -> Writers \cup {None}] /\ path' \in Writers \cup {None}
            /\ tracked' \subseteq Writers /\ done' \subseteq Writers
            /\ \A v \in tracked' : handle'[v] # None
        BY <1>12 DEF CloseResource, Discard
      <3>4. data' \in [Writers -> [1..N -> Writers \cup {None, Torn}]]
        BY <1>12 DEF CloseResource, Discard
      <3> QED
        BY <1>12, <3>1, <3>2, <3>3, <3>4 DEF CloseResource, Discard
    <2>2. ASSUME NEW v \in Writers PROVE Call(v)'
      <3>1. CASE v = w
        BY <1>12, <3>1 DEF CloseResource, Discard
      <3>2. CASE v # w
        BY <1>12, <3>2 DEF CloseResource, Discard
      <3> QED
        BY <3>1, <3>2
    <2>3. /\ (tracked \cap done)' = {}
          /\ link' = "up" => late' = {}
          /\ link' = "down" => tracked' \subseteq late'
      BY <1>12 DEF CloseResource, Discard
    <2> HIDE DEF UploadType, Call
    <2> QED
      BY <2>1, <2>2, <2>3
  <1>13. ASSUME Drop PROVE Goal
    BY <1>13 DEF Drop, upVars
  <1>14. ASSUME TornDown PROVE Goal
    BY <1>14 DEF TornDown, upVars
  <1> QED
    BY <1>1, <1>2, <1>3, <1>4, <1>5, <1>6, <1>7, <1>8, <1>9, <1>10, <1>11, <1>12, <1>13,
       <1>14
    DEF UploadStep, Upload

\* A request to an upload that is over is refused: the SDK's call may fail.
Refused(w) ==
    /\ w \notin tracked /\ req[w] \in {"chunk", "writing", "finish"} /\ wpc[w] # "ok"
    /\ req' = [req EXCEPT ![w] = "none"] /\ wpc' \in {wpc, [wpc EXCEPT ![w] = "failed"]}
    /\ UNCHANGED <<tally, tracked, handle, path, data, late, last>>

\* A refusal leaves the bodies alone.
LEMMA RefusedStep ==
    ASSUME UploadType, Bodies, NEW w \in Writers, Refused(w)
    PROVE  Bodies'
  <1> USE DEF UploadType, Refused, Bodies, Owned, Returned, Stuck, Ahead, Holds
  <1>1. \A v \in Writers : Stuck(v)' <=> Stuck(v)
    OBVIOUS
  <1>2. Returned'
    OBVIOUS
  <1>3. Owned'
    <2> HIDE DEF Stuck
    <2> SUFFICES ASSUME late = {}, path # None, \A v \in Writers : ~Stuck(v)
                 PROVE  /\ \A v \in tracked : wpc'[v] \in Sending => Ahead(v)'
                        /\ \A v \in Writers :
                               wpc'[v] = "finish" /\ req'[v] = "syncing" => Holds(v)'
                        /\ (\A v \in tracked : wpc'[v] \notin Sending) =>
                               \E v \in Writers : Holds(v)'
      BY <1>1
    <2> QED
      BY SMTT(30) DEF Sending
  <1> QED
    BY <1>2, <1>3

\* Every step of an upload keeps the bodies.
LEMMA BodiesKept == UploadType /\ Calls /\ Bodies /\ UploadStep => Bodies'
  <1> SUFFICES ASSUME UploadType, Calls, Bodies, UploadStep PROVE Bodies'
    OBVIOUS
  <1> USE DEF UploadType, Calls, Call, Waiting, Sending, Blank, Bodies, Owned, Returned,
             Stuck, Ahead, Holds
  <1>1. ASSUME NEW w \in Writers, WriteFile(w) PROVE Bodies'
    BY <1>1 DEF WriteFile, SdkTo, ReqTo
  <1>2. ASSUME NEW w \in Writers, BeginUpload(w) PROVE Bodies'
    <2>1. wpc[w] \in {"begin", "failed"} /\ tally[w] = 0
      BY <1>2 DEF BeginUpload
    <2>2. Returned'
      <3>1. CASE wpc[w] = "begin"
        <4>1. last = w /\ last' = w /\ wpc'[w] \in {"begin", "sending"}
          BY <1>2, <3>1 DEF BeginUpload, Answer
        <4> QED
          BY <4>1
      <3>2. CASE wpc[w] = "failed"
        BY <1>2, <3>2 DEF BeginUpload, Answer
      <3> QED
        BY <2>1, <3>1, <3>2
    <2>3. Owned'
      <3>1. CASE link # "up"
        BY <1>2, <3>1 DEF BeginUpload
      <3>2. CASE wpc[w] = "failed"
        <4>1. w \in tracked' /\ wpc'[w] = "failed" /\ req'[w] = "none"
          BY <1>2, <3>2 DEF BeginUpload, Answer, ReqTo
        <4> QED
          BY <4>1
      <3>3. CASE link = "up" /\ wpc[w] = "begin"
        <4>1. /\ wpc' = [wpc EXCEPT ![w] = "sending"] /\ req' = [req EXCEPT ![w] = "none"]
              /\ tracked' = tracked \cup {w} /\ handle'[w] = path' /\ tally' = tally
          BY <1>2, <3>3 DEF BeginUpload, Answer, ReqTo
        <4>2. \A v \in Writers : v # w => wpc[v] \notin Waiting
          BY <3>3
        <4> QED
          BY <2>1, <4>1, <4>2
      <3> QED
        BY <2>1, <3>1, <3>2, <3>3
    <2> QED
      BY <2>2, <2>3
  <1>3. ASSUME NEW w \in Writers, BeginUploadFails(w) PROVE Bodies'
    BY <1>3 DEF BeginUploadFails, ReqTo, Answer
  <1>4. ASSUME NEW w \in Writers, SendChunk(w) PROVE Bodies'
    BY <1>4 DEF SendChunk, SdkTo, ReqTo
  <1>5. ASSUME NEW w \in Writers, SendFinish(w) PROVE Bodies'
    BY <1>5 DEF SendFinish, SdkTo, ReqTo
  <1>6. ASSUME NEW w \in Writers, WriteFileFails(w) PROVE Bodies'
    BY <1>6 DEF WriteFileFails, SdkTo
  <1>7. ASSUME NEW w \in Writers, Chunk(w) PROVE Bodies'
    <2>1. CASE w \in done
      <3>1. Refused(w)
        BY <1>7, <2>1 DEF Refused, Chunk, ReqTo, Answer
      <3> QED
        BY <3>1, RefusedStep
    <2>2. CASE w \notin done
      <3>1. /\ data' = data /\ path' = path /\ tracked' = tracked /\ handle' = handle
            /\ tally' = tally /\ late' = late /\ last' = last
            /\ req' = [req EXCEPT ![w] = "writing"] /\ wpc' = wpc
        BY <1>7, <2>2 DEF Chunk, ReqTo
      <3>2. \A v \in Writers : Stuck(v)' <=> Stuck(v)
        BY <1>7, <3>1 DEF Chunk
      <3>3. Returned'
        BY <3>1
      <3>4. Owned'
        <4> HIDE DEF Stuck
        <4> QED
          BY <3>1, <3>2
      <3> QED
        BY <3>3, <3>4
    <2> QED
      BY <2>1, <2>2
  <1>8. ASSUME NEW w \in Writers, ChunkLands(w) PROVE Bodies'
    BY <1>8 DEF ChunkLands, ReqTo, Answer
  <1>9. ASSUME NEW w \in Writers, ChunkFails(w) PROVE Bodies'
    <2>1. CASE w \in done
      <3>1. Refused(w)
        BY <1>9, <2>1 DEF Refused, ChunkFails, ReqTo, Answer
      <3> QED
        BY <3>1, RefusedStep
    <2>2. CASE w \notin done
      <3>1. /\ path' = path /\ tracked' = tracked /\ handle' = handle
            /\ tally' = tally /\ late' = late /\ last' = last
            /\ req' = [req EXCEPT ![w] = "none"]
            /\ data' = [data EXCEPT ![handle[w]][tally[w] + 1] = Torn]
            /\ w \in tracked /\ wpc[w] \in {"chunk", "failed"} /\ handle[w] \in Writers
        BY <1>9, <2>2 DEF ChunkFails, ReqTo
      <3>2. CASE wpc'[w] = "failed"
        BY <3>1, <3>2
      <3>3. CASE wpc'[w] # "failed"
        <4>1. wpc' = wpc /\ wpc[w] = "chunk" /\ last = w
          BY <1>9, <3>1, <3>3 DEF ChunkFails, Answer
        <4>2. \A v \in Writers : v # w => wpc[v] \notin Waiting
          BY <4>1
        <4>3. Returned'
          BY <3>1, <4>1
        <4>4. \A v \in Writers : Stuck(v)' <=> Stuck(v)
          BY <3>1, <4>1
        <4>5. Owned'
          <5> SUFFICES ASSUME late = {}, path # None, \A v \in Writers : ~Stuck(v)
                       PROVE  Ahead(w)'
            BY <3>1, <4>1, <4>2, <4>4
          <5>1. Ahead(w)
            BY <3>1, <4>1
          <5>2. \A i \in 1..N : i <= tally[w] => data'[path][i] = data[path][i]
            BY <3>1, <5>1
          <5> QED
            BY <3>1, <5>1, <5>2
        <4> QED
          BY <4>3, <4>5
      <3> QED
        BY <3>2, <3>3
    <2> QED
      BY <2>1, <2>2
  <1>10. ASSUME NEW w \in Writers, Finish(w) PROVE Bodies'
    <2>1. CASE w \in done
      <3>1. Refused(w)
        BY <1>10, <2>1 DEF Refused, Finish, ReqTo, Answer
      <3> QED
        BY <3>1, RefusedStep
    <2>2. CASE w \notin done
      <3>1. /\ data' = data /\ path' = path /\ tracked' = tracked \ {w} /\ handle' = handle
            /\ tally' = tally /\ late' = late /\ last' = last /\ wpc' = wpc
            /\ req' = [req EXCEPT ![w] = "syncing"]
        BY <1>10, <2>2 DEF Finish, ReqTo
      <3>2. /\ w \in tracked /\ tally[w] = N /\ req[w] = "finish" /\ wpc[w] \in {"finish", "failed"}
        BY <1>10, <2>2 DEF Finish
      <3>3. Returned'
        BY <3>1
      <3>4. \A v \in Writers : Stuck(v)' <=> Stuck(v)
        BY <3>1, <3>2
      <3>5. Owned'
        <4> SUFFICES ASSUME late = {}, path # None, \A v \in Writers : ~Stuck(v)
                     PROVE  /\ \A v \in tracked' : wpc[v] \in Sending => Ahead(v)
                            /\ \A v \in Writers :
                                   wpc[v] = "finish" /\ req'[v] = "syncing" => Holds(v)
                            /\ (\A v \in tracked' : wpc[v] \notin Sending) =>
                                   \E v \in Writers : Holds(v)
          BY <3>1, <3>4
        <4>1. wpc[w] = "finish" => Holds(w)
          BY <3>2
        <4> HIDE DEF Stuck, Holds, Ahead
        <4> QED
          BY <3>1, <3>2, <4>1
      <3> QED
        BY <3>3, <3>5
    <2> QED
      BY <2>1, <2>2
  <1>11. ASSUME NEW w \in Writers, Synced(w) PROVE Bodies'
    BY <1>11, SMTT(30) DEF Synced, ReqTo, Answer
  <1>12. ASSUME NEW w \in Writers, CloseResource(w) PROVE Bodies'
    <2>1. Owned'
      BY <1>12 DEF CloseResource, Discard
    <2>2. Returned'
      <3> SUFFICES ASSUME \A v \in Writers : wpc[v] # "failed", last # None, wpc[last] = "ok"
                   PROVE  FALSE
        BY <1>12 DEF CloseResource
      <3>1. wpc[w] \in Waiting
        BY <1>12 DEF CloseResource
      <3> QED
        BY <3>1
    <2> QED
      BY <2>1, <2>2
  <1>13. ASSUME Drop PROVE Bodies'
    BY <1>13 DEF Drop, upVars
  <1>14. ASSUME TornDown PROVE Bodies'
    BY <1>14 DEF TornDown, upVars
  <1> QED
    BY <1>1, <1>2, <1>3, <1>4, <1>5, <1>6, <1>7, <1>8, <1>9, <1>10, <1>11, <1>12, <1>13,
       <1>14
    DEF UploadStep, Upload

-----------------------------------------------------------------------------
(* The theorems.                                                           *)

\* The typing parts add up to the type invariant of Stream.
LEMMA Types == flow \in Flows /\ UploadType /\ FileType /\ StdinType /\ OutputType => TypeOK
  BY Zenon DEF TypeOK, UploadType, FileType, StdinType, OutputType, Writes

\* A step that leaves a kind of transfer alone keeps its invariants.
LEMMA Frames ==
    /\ UploadInv /\ UNCHANGED <<link, upVars>> => UploadInv'
    /\ FileInv /\ UNCHANGED fileVars => FileInv'
    /\ InPlace /\ UNCHANGED fileVars => InPlace'
    /\ StdinInv /\ UNCHANGED stdinVars => StdinInv'
    /\ OutputInv /\ UNCHANGED outVars => OutputInv'
  <1>1. ASSUME UploadInv, UNCHANGED <<link, upVars>> PROVE UploadInv'
    <2> USE <1>1 DEF upVars, UploadInv
    <2>1. UploadType'
      BY DEF UploadType
    <2>2. Calls'
      BY DEF Calls, Call, Waiting, Sending
    <2>3. Bodies'
      BY DEF Bodies, Owned, Returned, Stuck, Ahead, Holds, Sending
    <2> QED
      BY <2>1, <2>2, <2>3
  <1>2. ASSUME FileInv, UNCHANGED fileVars PROVE FileInv'
    BY <1>2 DEF fileVars, FileInv, FileType, Chain
  <1>3. ASSUME InPlace, UNCHANGED fileVars PROVE InPlace'
    BY <1>3 DEF fileVars, InPlace, AckedWriteInPlace
  <1>4. ASSUME StdinInv, UNCHANGED stdinVars PROVE StdinInv'
    BY <1>4 DEF stdinVars, StdinInv, StdinType, Stdin
  <1>5. ASSUME OutputInv, UNCHANGED outVars PROVE OutputInv'
    BY <1>5 DEF outVars, OutputInv, OutputType, Output, InheritEnded
  <1> QED
    BY <1>1, <1>2, <1>3, <1>4, <1>5

\* What the transfers keep true in every state, from which the next theorems
\* follow (sdk/wire_agent.ts, sdk/sandbox.ts, agent/service.ts).
THEOREM StreamInductive == Spec => []StreamInv
  <1>1. Init => StreamInv
    <2>1. Init => flow \in Flows
      BY DEF Init
    <2> QED
      BY <2>1, UploadInit, FileInit, StdinInit, OutputInit
      DEF StreamInv, UploadInv, FileInv, StdinInv, OutputInv
  <1>2. StreamInv /\ [Next]_vars => StreamInv'
    <2> SUFFICES ASSUME StreamInv, [Next]_vars PROVE StreamInv'
      OBVIOUS
    <2> USE DEF StreamInv
    <2>1. CASE UploadStep /\ UNCHANGED <<flow, fileVars, stdinVars, outVars>>
      BY <2>1, CallsKept, BodiesKept, Frames DEF UploadInv
    <2>2. CASE FileStep /\ UNCHANGED <<flow, link, upVars, stdinVars, outVars>>
      BY <2>2, ChainKept, Frames DEF FileInv
    <2>3. CASE StdinStep /\ UNCHANGED <<flow, link, upVars, fileVars, outVars>>
      BY <2>3, StdinKept, Frames DEF StdinInv
    <2>4. CASE OutputStep /\ UNCHANGED <<flow, link, upVars, fileVars, stdinVars>>
      BY <2>4, OutputKept, Frames DEF OutputInv
    <2>5. CASE UNCHANGED vars
      BY <2>5, Frames DEF vars
    <2> QED
      BY <2>1, <2>2, <2>3, <2>4, <2>5, Kinds
  <1> QED
    BY <1>1, <1>2, PTL DEF Spec

\* A path holds a whole body or none, for any number of chunks and of calls
\* of writeFile, whatever timed out, failed, was tried again or was cut off:
\* what finish() answered stays, what failed goes with the teardown
\* (UploadWire, ConnectionState.closeResources).
THEOREM UploadsAreWhole == Spec => []UploadsWhole
  <1>1. StreamInv => UploadsWhole
    <2> SUFFICES ASSUME StreamInv PROVE UploadsWhole
      OBVIOUS
    <2> USE DEF StreamInv, UploadInv
    <2>1. TypeOK
      BY Types DEF FileInv, StdinInv, OutputInv
    <2>2. FinishedUploadKept
      <3> SUFFICES ASSUME \A w \in Writers : wpc[w] \in {"idle", "ok"}, last # None
                   PROVE  Holds(last)
        BY DEF FinishedUploadKept
      <3>1. wpc[last] = "ok"
        BY DEF Calls, Call, UploadType
      <3> QED
        BY <3>1 DEF Bodies, Returned
    <2>3. NoPartialFile
      <3> SUFFICES ASSUME link = "down", late = {}, path # None
                   PROVE  \E w \in Writers : Holds(w)
        BY DEF NoPartialFile
      <3>1. tracked = {}
        BY DEF Calls
      <3> QED
        BY <3>1 DEF Bodies, Owned, Stuck
    <2> QED
      BY <2>1, <2>2, <2>3 DEF UploadsWhole
  <1> QED
    BY <1>1, StreamInductive, PTL

\* While the client awaits each call of a handle before the next one, an
\* acknowledged write is at the offset it named until a later write goes
\* there, writes that timed out and are still queued included
\* (RemoteFileWire.write).
THEOREM AckedWritesStay ==
    ASSUME "race" \notin Faults PROVE Spec => []AckedWriteInPlace
  <1>1. Init => InPlace
    BY FileInit
  <1>2. StreamInv /\ InPlace /\ [Next]_vars => InPlace'
    <2> SUFFICES ASSUME StreamInv, InPlace, [Next]_vars PROVE InPlace'
      OBVIOUS
    <2>1. CASE FileStep
      BY <2>1, InPlaceKept DEF StreamInv, FileInv
    <2>2. CASE UNCHANGED fileVars
      BY <2>2, Frames
    <2> QED
      BY <2>1, <2>2, Kinds DEF vars
  <1>3. InPlace => AckedWriteInPlace
    BY DEF InPlace
  <1> QED
    BY <1>1, <1>2, <1>3, StreamInductive, PTL DEF Spec

\* A stream that ends without an error has carried everything, in either
\* direction, whatever its length and the window of chunks in flight
\* (ProcessWire.closeStdin, pumpOutputChannel, ProcessCore.status).
THEOREM StreamsAreWhole == Spec => []StreamsWhole
  <1>1. StreamInv => StreamsWhole
    BY OutputEnds DEF StreamInv, StdinInv, Stdin, OutputInv, StreamsWhole, StdinWhole
  <1> QED
    BY <1>1, StreamInductive, PTL

-----------------------------------------------------------------------------
(***************************************************************************)
(* The session (Session).                                                  *)
(***************************************************************************)
USE SessionCreators, SessionNobody

\* From openTunnel on, a client has its sandbox, which is past its launch and
\* stays so: openTunnel answers for a sandbox that runs.
HasBox ==
    \A k \in Clients :
        /\ pc[k] \in {"create", "tunnel"} => of[k] \in Clients
        /\ pc[k] \in {"bootstrap", "resolve", "env"} \/ res[k] = "ok" =>
               of[k] \in Clients /\ box[of[k]] \notin {"none", "launching"}
        /\ res[k] = "ok" => pc[k] \in {"open", "repls", "teardown", "closed"}
        /\ kill[k] # "none" => res[k] = "ok"

\* The accept loop has ended when the active connections are copied: none is
\* set up afterwards, and each one is in the copy until it is closed.
Copied ==
    hostd \in {"closing", "closed"} =>
        \A k \in Clients : srv[k] \in {"none", "gone"} \/ (hostd = "closing" /\ k \in sweep)

SessionInv ==
    /\ SessionTypeOK /\ SessionBound /\ HasBox /\ KillReported /\ Copied
    /\ NoConnectionOutlivesServer

\* The first state satisfies the inductive invariant of the session.
LEMMA SessionFirst == SessionInit => SessionInv
  <1> SUFFICES ASSUME SessionInit PROVE SessionInv
    OBVIOUS
  <1>1. SessionTypeOK
    BY DEF SessionInit, SessionTypeOK, Pcs, Opening, Closing
  <1> QED
    BY <1>1 DEF SessionInv, SessionInit, SessionBound, HasBox, KillReported, Copied,
        NoConnectionOutlivesServer

\* Every step keeps the types; the sandbox of a call is one of the creators'.
LEMMA SessionTypeStep ==
    SessionTypeOK /\ HasBox /\ [SessionNext]_sessionVars => SessionTypeOK'
  <1> SUFFICES ASSUME SessionTypeOK, HasBox, [SessionNext]_sessionVars
               PROVE  SessionTypeOK'
    OBVIOUS
  <1> USE DEF SessionTypeOK, HasBox, Pcs, Opening, Closing
  <1>1. ASSUME NEW k \in Clients, Dial(k) PROVE SessionTypeOK'
    BY <1>1 DEF Dial, To, HostTo, Reject, boxVars
  <1>2. ASSUME NEW k \in Clients, Served(k) PROVE SessionTypeOK'
    BY <1>2 DEF Served, HostTo, sdkVars, boxVars
  <1>3. ASSUME NEW k \in Clients, TransportClosed(k) PROVE SessionTypeOK'
    BY <1>3 DEF TransportClosed, Settle, sdkVars
  <1>4. ASSUME NEW k \in Clients, TransportBreaks(k) PROVE SessionTypeOK'
    BY <1>4 DEF TransportBreaks, HostTo, sdkVars, srvVars, boxVars
  <1>5. ASSUME NEW k \in Clients, CloseConnection(k) PROVE SessionTypeOK'
    BY <1>5 DEF CloseConnection, Settle, HostTo, sdkVars
  <1>6. ASSUME NEW k \in Clients, Handshake(k) PROVE SessionTypeOK'
    BY <1>6 DEF Handshake, Handled, To, OnlySdk
  <1>7. ASSUME NEW k \in Clients, Create(k) PROVE SessionTypeOK'
    BY <1>7 DEF Create, Authorized, BoxTo, OnlySdk, Handled
  <1>8. ASSUME NEW k \in Clients, Launched(k) PROVE SessionTypeOK'
    BY <1>8 DEF Launched, BoxTo, Answered, To, OnlySdk
  <1>9. ASSUME NEW k \in Clients, LaunchFails(k) PROVE SessionTypeOK'
    BY <1>9 DEF LaunchFails, BoxTo, Answered, To, OnlySdk
  <1>10. ASSUME NEW k \in Clients, OpenTunnel(k) PROVE SessionTypeOK'
    BY <1>10 DEF OpenTunnel, Authorized, To, AgentTo, OnlySdk, Handled
  <1>11. ASSUME NEW k \in Clients, AgentBootstrap(k) PROVE SessionTypeOK'
    BY <1>11 DEF AgentBootstrap, To, OnlySdk
  <1>12. ASSUME NEW k \in Clients, Resolve(k) PROVE SessionTypeOK'
    BY <1>12 DEF Resolve, To, OnlySdk
  <1>13. ASSUME NEW k \in Clients, ResolveFails(k) PROVE SessionTypeOK'
    BY <1>13 DEF ResolveFails, To, Reject, OnlySdk
  <1>14. ASSUME NEW k \in Clients, EnvSet(k) PROVE SessionTypeOK'
    BY <1>14 DEF EnvSet, To, Reject, OnlySdk
  <1>15. ASSUME NEW k \in Clients, CallFails(k) PROVE SessionTypeOK'
    BY <1>15 DEF CallFails, To, OnlySdk
  <1>16. ASSUME NEW k \in Clients, Undo(k) PROVE SessionTypeOK'
    BY <1>16 DEF Undo, HostTo, To, Reject, OnlySdk
  <1>17. ASSUME NEW k \in Clients, OpenRepl(k) PROVE SessionTypeOK'
    BY <1>17 DEF OpenRepl, OnlyObject, srvVars, boxVars
  <1>18. ASSUME NEW k \in Clients, Close(k) PROVE SessionTypeOK'
    BY <1>18 DEF Close, To, OnlyObject, srvVars, boxVars
  <1>19. ASSUME NEW k \in Clients, CloseRepls(k) PROVE SessionTypeOK'
    BY <1>19 DEF CloseRepls, To, OnlyObject, srvVars, boxVars
  <1>20. ASSUME NEW k \in Clients, Teardown(k) PROVE SessionTypeOK'
    BY <1>20 DEF Teardown, AgentTo, HostTo, To, OnlyObject, srvVars, boxVars
  <1>21. ASSUME NEW k \in Clients, Kill(k) PROVE SessionTypeOK'
    BY <1>21 DEF Kill, OnlyObject, srvVars, boxVars
  <1>22. ASSUME NEW k \in Clients, KillHandled(k) PROVE SessionTypeOK'
    BY <1>22 DEF KillHandled, Authorized, Finally, BoxTo, srvVars, Handled, To
  <1>23. ASSUME NEW k \in Clients, KillFails(k) PROVE SessionTypeOK'
    BY <1>23 DEF KillFails, Finally, OnlyObject, To, srvVars, boxVars
  <1>24. ASSUME NEW k \in Clients, LeaseExpires(k) PROVE SessionTypeOK'
    BY <1>24 DEF LeaseExpires, BoxTo, sdkVars, srvVars
  <1>25. ASSUME NEW k \in Clients, Reclaim(k) PROVE SessionTypeOK'
    BY <1>25 DEF Reclaim, BoxTo, sdkVars, srvVars
  <1>26. ASSUME NEW k \in Clients, AgentGone(k) PROVE SessionTypeOK'
    BY <1>26 DEF AgentGone, AgentTo, sdkVars, srvVars, boxVars
  <1>27. ASSUME Shutdown PROVE SessionTypeOK'
    BY <1>27 DEF Shutdown, sdkVars
  <1>28. ASSUME AcceptLoopEnds PROVE SessionTypeOK'
    BY <1>28 DEF AcceptLoopEnds, sdkVars, boxVars
  <1>29. ASSUME ServerClosed PROVE SessionTypeOK'
    BY <1>29 DEF ServerClosed, sdkVars, boxVars
  <1>30. CASE UNCHANGED sessionVars
    BY <1>30 DEF sessionVars, sdkVars, srvVars, boxVars
  <1> QED
    BY <1>1, <1>2, <1>3, <1>4, <1>5, <1>6, <1>7, <1>8, <1>9, <1>10, <1>11, <1>12, <1>13,
       <1>14, <1>15, <1>16, <1>17, <1>18, <1>19, <1>20, <1>21, <1>22, <1>23, <1>24, <1>25,
       <1>26, <1>27, <1>28, <1>29, <1>30
    DEF SessionNext, Server, Sdk, Core

\* Every step keeps a client with the sandbox it was given, and that sandbox
\* past its launch: no action takes a sandbox back to it.
LEMMA SessionBoxStep ==
    SessionTypeOK /\ HasBox /\ [SessionNext]_sessionVars => HasBox'
  <1> SUFFICES ASSUME SessionTypeOK, HasBox, [SessionNext]_sessionVars
               PROVE  HasBox'
    OBVIOUS
  <1> USE DEF SessionTypeOK, HasBox, Pcs, Opening, Closing
  <1>1. ASSUME NEW k \in Clients, Dial(k) PROVE HasBox'
    BY <1>1 DEF Dial, To, HostTo, Reject, boxVars
  <1>2. ASSUME NEW k \in Clients, Served(k) PROVE HasBox'
    BY <1>2 DEF Served, HostTo, sdkVars, boxVars
  <1>3. ASSUME NEW k \in Clients, TransportClosed(k) PROVE HasBox'
    BY <1>3 DEF TransportClosed, Settle, sdkVars
  <1>4. ASSUME NEW k \in Clients, TransportBreaks(k) PROVE HasBox'
    BY <1>4 DEF TransportBreaks, HostTo, sdkVars, srvVars, boxVars
  <1>5. ASSUME NEW k \in Clients, CloseConnection(k) PROVE HasBox'
    BY <1>5 DEF CloseConnection, Settle, HostTo, sdkVars
  <1>6. ASSUME NEW k \in Clients, Handshake(k) PROVE HasBox'
    BY <1>6 DEF Handshake, Handled, To, OnlySdk
  <1>7. ASSUME NEW k \in Clients, Create(k) PROVE HasBox'
    BY <1>7 DEF Create, Authorized, BoxTo, OnlySdk, Handled
  <1>8. ASSUME NEW k \in Clients, Launched(k) PROVE HasBox'
    BY <1>8 DEF Launched, BoxTo, Answered, To, OnlySdk
  <1>9. ASSUME NEW k \in Clients, LaunchFails(k) PROVE HasBox'
    BY <1>9 DEF LaunchFails, BoxTo, Answered, To, OnlySdk
  <1>10. ASSUME NEW k \in Clients, OpenTunnel(k) PROVE HasBox'
    BY <1>10 DEF OpenTunnel, Authorized, To, AgentTo, OnlySdk, Handled
  <1>11. ASSUME NEW k \in Clients, AgentBootstrap(k) PROVE HasBox'
    BY <1>11 DEF AgentBootstrap, To, OnlySdk
  <1>12. ASSUME NEW k \in Clients, Resolve(k) PROVE HasBox'
    BY <1>12 DEF Resolve, To, OnlySdk
  <1>13. ASSUME NEW k \in Clients, ResolveFails(k) PROVE HasBox'
    BY <1>13 DEF ResolveFails, To, Reject, OnlySdk
  <1>14. ASSUME NEW k \in Clients, EnvSet(k) PROVE HasBox'
    BY <1>14 DEF EnvSet, To, Reject, OnlySdk
  <1>15. ASSUME NEW k \in Clients, CallFails(k) PROVE HasBox'
    BY <1>15 DEF CallFails, To, OnlySdk
  <1>16. ASSUME NEW k \in Clients, Undo(k) PROVE HasBox'
    BY <1>16 DEF Undo, HostTo, To, Reject, OnlySdk
  <1>17. ASSUME NEW k \in Clients, OpenRepl(k) PROVE HasBox'
    BY <1>17 DEF OpenRepl, OnlyObject, srvVars, boxVars
  <1>18. ASSUME NEW k \in Clients, Close(k) PROVE HasBox'
    BY <1>18 DEF Close, To, OnlyObject, srvVars, boxVars
  <1>19. ASSUME NEW k \in Clients, CloseRepls(k) PROVE HasBox'
    BY <1>19 DEF CloseRepls, To, OnlyObject, srvVars, boxVars
  <1>20. ASSUME NEW k \in Clients, Teardown(k) PROVE HasBox'
    BY <1>20 DEF Teardown, AgentTo, HostTo, To, OnlyObject, srvVars, boxVars
  <1>21. ASSUME NEW k \in Clients, Kill(k) PROVE HasBox'
    BY <1>21 DEF Kill, OnlyObject, srvVars, boxVars
  <1>22. ASSUME NEW k \in Clients, KillHandled(k) PROVE HasBox'
    BY <1>22 DEF KillHandled, Authorized, Finally, BoxTo, srvVars, Handled, To
  <1>23. ASSUME NEW k \in Clients, KillFails(k) PROVE HasBox'
    BY <1>23 DEF KillFails, Finally, OnlyObject, To, srvVars, boxVars
  <1>24. ASSUME NEW k \in Clients, LeaseExpires(k) PROVE HasBox'
    BY <1>24 DEF LeaseExpires, BoxTo, sdkVars, srvVars
  <1>25. ASSUME NEW k \in Clients, Reclaim(k) PROVE HasBox'
    BY <1>25 DEF Reclaim, BoxTo, sdkVars, srvVars
  <1>26. ASSUME NEW k \in Clients, AgentGone(k) PROVE HasBox'
    BY <1>26 DEF AgentGone, AgentTo, sdkVars, srvVars, boxVars
  <1>27. ASSUME Shutdown PROVE HasBox'
    BY <1>27 DEF Shutdown, sdkVars
  <1>28. ASSUME AcceptLoopEnds PROVE HasBox'
    BY <1>28 DEF AcceptLoopEnds, sdkVars, boxVars
  <1>29. ASSUME ServerClosed PROVE HasBox'
    BY <1>29 DEF ServerClosed, sdkVars, boxVars
  <1>30. CASE UNCHANGED sessionVars
    BY <1>30 DEF sessionVars, sdkVars, srvVars, boxVars
  <1> QED
    BY <1>1, <1>2, <1>3, <1>4, <1>5, <1>6, <1>7, <1>8, <1>9, <1>10, <1>11, <1>12, <1>13,
       <1>14, <1>15, <1>16, <1>17, <1>18, <1>19, <1>20, <1>21, <1>22, <1>23, <1>24, <1>25,
       <1>26, <1>27, <1>28, <1>29, <1>30
    DEF SessionNext, Server, Sdk, Core

\* Every step keeps what a kill has ended ended: the sandbox was past its
\* launch when the kill was handled.
LEMMA SessionKillStep ==
    SessionTypeOK /\ HasBox /\ KillReported /\ [SessionNext]_sessionVars => KillReported'
  <1> SUFFICES ASSUME SessionTypeOK, HasBox, KillReported, [SessionNext]_sessionVars
               PROVE  KillReported'
    OBVIOUS
  <1> USE DEF SessionTypeOK, HasBox, KillReported, Pcs, Opening, Closing
  <1>1. ASSUME NEW k \in Clients, Dial(k) PROVE KillReported'
    BY <1>1 DEF Dial, To, HostTo, Reject, boxVars
  <1>2. ASSUME NEW k \in Clients, Served(k) PROVE KillReported'
    BY <1>2 DEF Served, HostTo, sdkVars, boxVars
  <1>3. ASSUME NEW k \in Clients, TransportClosed(k) PROVE KillReported'
    BY <1>3 DEF TransportClosed, Settle, sdkVars
  <1>4. ASSUME NEW k \in Clients, TransportBreaks(k) PROVE KillReported'
    BY <1>4 DEF TransportBreaks, HostTo, sdkVars, srvVars, boxVars
  <1>5. ASSUME NEW k \in Clients, CloseConnection(k) PROVE KillReported'
    BY <1>5 DEF CloseConnection, Settle, HostTo, sdkVars
  <1>6. ASSUME NEW k \in Clients, Handshake(k) PROVE KillReported'
    BY <1>6 DEF Handshake, Handled, To, OnlySdk
  <1>7. ASSUME NEW k \in Clients, Create(k) PROVE KillReported'
    BY <1>7 DEF Create, Authorized, BoxTo, OnlySdk, Handled
  <1>8. ASSUME NEW k \in Clients, Launched(k) PROVE KillReported'
    BY <1>8 DEF Launched, BoxTo, Answered, To, OnlySdk
  <1>9. ASSUME NEW k \in Clients, LaunchFails(k) PROVE KillReported'
    BY <1>9 DEF LaunchFails, BoxTo, Answered, To, OnlySdk
  <1>10. ASSUME NEW k \in Clients, OpenTunnel(k) PROVE KillReported'
    BY <1>10 DEF OpenTunnel, Authorized, To, AgentTo, OnlySdk, Handled
  <1>11. ASSUME NEW k \in Clients, AgentBootstrap(k) PROVE KillReported'
    BY <1>11 DEF AgentBootstrap, To, OnlySdk
  <1>12. ASSUME NEW k \in Clients, Resolve(k) PROVE KillReported'
    BY <1>12 DEF Resolve, To, OnlySdk
  <1>13. ASSUME NEW k \in Clients, ResolveFails(k) PROVE KillReported'
    BY <1>13 DEF ResolveFails, To, Reject, OnlySdk
  <1>14. ASSUME NEW k \in Clients, EnvSet(k) PROVE KillReported'
    BY <1>14 DEF EnvSet, To, Reject, OnlySdk
  <1>15. ASSUME NEW k \in Clients, CallFails(k) PROVE KillReported'
    BY <1>15 DEF CallFails, To, OnlySdk
  <1>16. ASSUME NEW k \in Clients, Undo(k) PROVE KillReported'
    BY <1>16 DEF Undo, HostTo, To, Reject, OnlySdk
  <1>17. ASSUME NEW k \in Clients, OpenRepl(k) PROVE KillReported'
    BY <1>17 DEF OpenRepl, OnlyObject, srvVars, boxVars
  <1>18. ASSUME NEW k \in Clients, Close(k) PROVE KillReported'
    BY <1>18 DEF Close, To, OnlyObject, srvVars, boxVars
  <1>19. ASSUME NEW k \in Clients, CloseRepls(k) PROVE KillReported'
    BY <1>19 DEF CloseRepls, To, OnlyObject, srvVars, boxVars
  <1>20. ASSUME NEW k \in Clients, Teardown(k) PROVE KillReported'
    BY <1>20 DEF Teardown, AgentTo, HostTo, To, OnlyObject, srvVars, boxVars
  <1>21. ASSUME NEW k \in Clients, Kill(k) PROVE KillReported'
    BY <1>21 DEF Kill, OnlyObject, srvVars, boxVars
  <1>22. ASSUME NEW k \in Clients, KillHandled(k) PROVE KillReported'
    BY <1>22 DEF KillHandled, Authorized, Finally, BoxTo, srvVars, Handled, To
  <1>23. ASSUME NEW k \in Clients, KillFails(k) PROVE KillReported'
    BY <1>23 DEF KillFails, Finally, OnlyObject, To, srvVars, boxVars
  <1>24. ASSUME NEW k \in Clients, LeaseExpires(k) PROVE KillReported'
    BY <1>24 DEF LeaseExpires, BoxTo, sdkVars, srvVars
  <1>25. ASSUME NEW k \in Clients, Reclaim(k) PROVE KillReported'
    BY <1>25 DEF Reclaim, BoxTo, sdkVars, srvVars
  <1>26. ASSUME NEW k \in Clients, AgentGone(k) PROVE KillReported'
    BY <1>26 DEF AgentGone, AgentTo, sdkVars, srvVars, boxVars
  <1>27. ASSUME Shutdown PROVE KillReported'
    BY <1>27 DEF Shutdown, sdkVars
  <1>28. ASSUME AcceptLoopEnds PROVE KillReported'
    BY <1>28 DEF AcceptLoopEnds, sdkVars, boxVars
  <1>29. ASSUME ServerClosed PROVE KillReported'
    BY <1>29 DEF ServerClosed, sdkVars, boxVars
  <1>30. CASE UNCHANGED sessionVars
    BY <1>30 DEF sessionVars, sdkVars, srvVars, boxVars
  <1> QED
    BY <1>1, <1>2, <1>3, <1>4, <1>5, <1>6, <1>7, <1>8, <1>9, <1>10, <1>11, <1>12, <1>13,
       <1>14, <1>15, <1>16, <1>17, <1>18, <1>19, <1>20, <1>21, <1>22, <1>23, <1>24, <1>25,
       <1>26, <1>27, <1>28, <1>29, <1>30
    DEF SessionNext, Server, Sdk, Core

\* Every step keeps a session lease with its connection and the copy of the
\* active connections complete.
LEMMA SessionConnectionStep ==
    SessionTypeOK /\ SessionBound /\ Copied /\ [SessionNext]_sessionVars =>
        SessionBound' /\ Copied' /\ NoConnectionOutlivesServer'
  <1> SUFFICES ASSUME SessionTypeOK, SessionBound, Copied, [SessionNext]_sessionVars
               PROVE  SessionBound' /\ Copied' /\ NoConnectionOutlivesServer'
    OBVIOUS
  <1> DEFINE Goal == SessionBound' /\ Copied' /\ NoConnectionOutlivesServer'
  <1> USE DEF SessionTypeOK, SessionBound, Copied, NoConnectionOutlivesServer
  <1>1. ASSUME NEW k \in Clients, Dial(k) PROVE Goal
    BY <1>1 DEF Dial, To, HostTo, Reject, boxVars
  <1>2. ASSUME NEW k \in Clients, Served(k) PROVE Goal
    BY <1>2 DEF Served, HostTo, sdkVars, boxVars
  <1>3. ASSUME NEW k \in Clients, TransportClosed(k) PROVE Goal
    BY <1>3 DEF TransportClosed, Settle, sdkVars
  <1>4. ASSUME NEW k \in Clients, TransportBreaks(k) PROVE Goal
    BY <1>4 DEF TransportBreaks, HostTo, sdkVars, srvVars, boxVars
  <1>5. ASSUME NEW k \in Clients, CloseConnection(k) PROVE Goal
    BY <1>5 DEF CloseConnection, Settle, HostTo, sdkVars
  <1>6. ASSUME NEW k \in Clients, Handshake(k) PROVE Goal
    BY <1>6 DEF Handshake, Handled, To, OnlySdk
  <1>7. ASSUME NEW k \in Clients, Create(k) PROVE Goal
    BY <1>7 DEF Create, Authorized, BoxTo, OnlySdk, Handled
  <1>8. ASSUME NEW k \in Clients, Launched(k) PROVE Goal
    BY <1>8 DEF Launched, BoxTo, Answered, To, OnlySdk
  <1>9. ASSUME NEW k \in Clients, LaunchFails(k) PROVE Goal
    BY <1>9 DEF LaunchFails, BoxTo, Answered, To, OnlySdk
  <1>10. ASSUME NEW k \in Clients, OpenTunnel(k) PROVE Goal
    BY <1>10 DEF OpenTunnel, Authorized, To, AgentTo, OnlySdk, Handled
  <1>11. ASSUME NEW k \in Clients, AgentBootstrap(k) PROVE Goal
    BY <1>11 DEF AgentBootstrap, To, OnlySdk
  <1>12. ASSUME NEW k \in Clients, Resolve(k) PROVE Goal
    BY <1>12 DEF Resolve, To, OnlySdk
  <1>13. ASSUME NEW k \in Clients, ResolveFails(k) PROVE Goal
    BY <1>13 DEF ResolveFails, To, Reject, OnlySdk
  <1>14. ASSUME NEW k \in Clients, EnvSet(k) PROVE Goal
    BY <1>14 DEF EnvSet, To, Reject, OnlySdk
  <1>15. ASSUME NEW k \in Clients, CallFails(k) PROVE Goal
    BY <1>15 DEF CallFails, Opening, To, OnlySdk
  <1>16. ASSUME NEW k \in Clients, Undo(k) PROVE Goal
    BY <1>16 DEF Undo, HostTo, To, Reject, OnlySdk
  <1>17. ASSUME NEW k \in Clients, OpenRepl(k) PROVE Goal
    BY <1>17 DEF OpenRepl, OnlyObject, srvVars, boxVars
  <1>18. ASSUME NEW k \in Clients, Close(k) PROVE Goal
    BY <1>18 DEF Close, To, OnlyObject, srvVars, boxVars
  <1>19. ASSUME NEW k \in Clients, CloseRepls(k) PROVE Goal
    BY <1>19 DEF CloseRepls, To, OnlyObject, srvVars, boxVars
  <1>20. ASSUME NEW k \in Clients, Teardown(k) PROVE Goal
    BY <1>20 DEF Teardown, AgentTo, HostTo, To, OnlyObject, srvVars, boxVars
  <1>21. ASSUME NEW k \in Clients, Kill(k) PROVE Goal
    BY <1>21 DEF Kill, OnlyObject, srvVars, boxVars
  <1>22. ASSUME NEW k \in Clients, KillHandled(k) PROVE Goal
    BY <1>22 DEF KillHandled, Authorized, Finally, BoxTo, srvVars, Handled, To
  <1>23. ASSUME NEW k \in Clients, KillFails(k) PROVE Goal
    BY <1>23 DEF KillFails, Finally, OnlyObject, To, srvVars, boxVars
  <1>24. ASSUME NEW k \in Clients, LeaseExpires(k) PROVE Goal
    BY <1>24 DEF LeaseExpires, BoxTo, sdkVars, srvVars
  <1>25. ASSUME NEW k \in Clients, Reclaim(k) PROVE Goal
    BY <1>25 DEF Reclaim, BoxTo, sdkVars, srvVars
  <1>26. ASSUME NEW k \in Clients, AgentGone(k) PROVE Goal
    BY <1>26 DEF AgentGone, AgentTo, sdkVars, srvVars, boxVars
  <1>27. ASSUME Shutdown PROVE Goal
    BY <1>27 DEF Shutdown, sdkVars
  <1>28. ASSUME AcceptLoopEnds PROVE Goal
    BY <1>28 DEF AcceptLoopEnds, sdkVars, boxVars
  <1>29. ASSUME ServerClosed PROVE Goal
    BY <1>29 DEF ServerClosed, sdkVars, boxVars
  <1>30. CASE UNCHANGED sessionVars
    BY <1>30 DEF sessionVars, sdkVars, srvVars, boxVars
  <1> QED
    BY <1>1, <1>2, <1>3, <1>4, <1>5, <1>6, <1>7, <1>8, <1>9, <1>10, <1>11, <1>12, <1>13,
       <1>14, <1>15, <1>16, <1>17, <1>18, <1>19, <1>20, <1>21, <1>22, <1>23, <1>24, <1>25,
       <1>26, <1>27, <1>28, <1>29, <1>30
    DEF SessionNext, Server, Sdk, Core

\* What a session keeps true in every state, from which the next theorems
\* follow (sdk/provider.ts, sdk/sandbox.ts, hostd/main.ts).
THEOREM SessionInductive ==
    SessionSpec => []SessionInv
  <1>1. SessionInit => SessionInv
    BY SessionFirst
  <1>2. SessionInv /\ [SessionNext]_sessionVars => SessionInv'
    BY SessionTypeStep, SessionBoxStep, SessionKillStep, SessionConnectionStep DEF SessionInv
  <1> QED
    BY <1>1, <1>2, PTL DEF SessionSpec

\* Nothing is held for a connection that is gone: no session lease, a launch
\* that ends behind the client's back included, and no entry of a server
\* that was closed (hostd/main.ts onTransportClose and close, leases.ts).
THEOREM NothingHeldForTheGone ==
    SessionSpec => []ConnectionBound
  <1>1. SessionInv => ConnectionBound
    BY DEF SessionInv, ConnectionBound
  <1> QED
    BY <1>1, SessionInductive, PTL

\* A kill() that returned has ended the sandbox's lease, whoever closed,
\* killed or broke the connection in between (sdk/sandbox.ts kill).
THEOREM KillsAreReported ==
    SessionSpec => []KillReported
  <1>1. SessionInv => KillReported
    BY DEF SessionInv
  <1> QED
    BY <1>1, SessionInductive, PTL

=============================================================================
