------------------------------- MODULE Stream -------------------------------
(***************************************************************************)
(* The byte transfers between the SDK (sdk/wire_agent.ts, sdk/sandbox.ts)  *)
(* and the agent (agent/service.ts) over one connection: writeFile, a file *)
(* handle's writes, a child's stdin and a child's output with its status.  *)
(*                                                                         *)
(* Transfers run on capabilities of their own and share only the           *)
(* connection, so a behaviour follows one kind of transfer (flow) and its  *)
(* connection (link).  Every call of the SDK has a deadline, which may     *)
(* lapse before the answer is there; the agent goes on with the request.   *)
(***************************************************************************)
EXTENDS Integers, FiniteSets, Sequences

CONSTANTS Flows,    \* kinds of transfer to follow
          Writers,  \* calls of writeFile on one path
          N,        \* chunks of a body, writes to a handle, chunks of output
          Window,   \* maxChunksInFlight
          Faults,
          None, Torn

AllFlows == {"upload", "file", "stdin", "output"}
StreamFaults == {"timeout", "disk", "pipe", "source", "drop", "race"}

ASSUME StreamFlows == Flows \subseteq AllFlows
ASSUME StreamBounds == N \in Nat \ {0} /\ Window \in Nat \ {0}
ASSUME StreamFaultsAssumption == Faults \subseteq StreamFaults
ASSUME StreamNone == None \notin Writers \cup 0..N /\ Torn \notin Writers /\ None # Torn

VARIABLES
    flow,
    link,       \* up | closing (the agent tears the connection down) | down
    \* writeFile.
    wpc,        \* the SDK: idle | begin | sending | chunk | finish | ok | failed
    seq,        \* acknowledged chunks
    req,        \* the agent: none | begin | chunk | writing | finish | syncing
    tally,      \* StreamTally of the UploadWire: chunks absorbed
    tracked,    \* uploads in ConnectionState.#resources
    done,       \* uploads with #done
    handle,     \* the inode an upload's file is open on
    path,       \* the inode at the path, or None
    data,       \* inode -> chunk -> who wrote it
    late,       \* history: opened after closeResources() took its snapshot
    last,       \* history: the writer that began last
    \* A handle of fs.open.
    cursor, wseq,       \* WireAgentFsFile
    fcall,              \* the write the SDK awaits, or None
    queue, stage,       \* the agent's write chain and its head's progress
    nextSeq, pos,       \* #nextWriteSequence, the OS cursor
    reads,              \* a read of the same handle: its offset and stage, or None
    file,               \* offset -> the write whose bytes are there
    acked,              \* history: writes acknowledged, with their offsets
    \* stdin.
    sink,       \* WritableStream: writable | writing | aborting | closing | closed |
                \* dropped | errored
    sent,       \* chunks in the SDK's tally
    pipe,       \* the agent's write to the child: none | writing
    absorbed,   \* chunks in the agent's tally
    got, eof,   \* what the child has been given
    \* Output.
    made, exited,       \* chunks the child wrote; it has exited
    pump,       \* read | capacity | flush | finish | fail | done
    pumped,     \* chunks absorbed by the pump
    wire,       \* messages on their way to the OutputSink
    flight,     \* chunk calls without a return
    recv,       \* chunks enqueued in the SDK's stream
    chan,       \* the SDK's stream: open | closed | errored
    taken,      \* chunks the inherit pump has written out
    wait,       \* Process.wait: pending | exit | rejected
    status      \* ProcessCore.status: pending | resolved | rejected

upVars == <<wpc, seq, req, tally, tracked, done, handle, path, data, late, last>>
fileVars == <<cursor, wseq, fcall, queue, stage, nextSeq, pos, reads, file, acked>>
stdinVars == <<sink, sent, pipe, absorbed, got, eof>>
outVars == <<made, exited, pump, pumped, wire, flight, recv, chan, taken, wait, status>>
vars == <<flow, link, upVars, fileVars, stdinVars, outVars>>

Blank == [i \in 1..N |-> None]
Offsets == 0..N

\* Every variable holds a value of its declared kind, and an upload that is
\* tracked has its file open.
TypeOK ==
    /\ flow \in Flows /\ link \in {"up", "closing", "down"}
    /\ wpc \in [Writers -> {"idle", "begin", "sending", "chunk", "finish", "ok", "failed"}]
    /\ seq \in [Writers -> 0..N]
    /\ req \in [Writers -> {"none", "begin", "chunk", "writing", "finish", "syncing"}]
    /\ tally \in [Writers -> 0..N]
    /\ tracked \subseteq Writers /\ done \subseteq Writers /\ late \subseteq Writers
    /\ handle \in [Writers -> Writers \cup {None}]
    /\ path \in Writers \cup {None} /\ last \in Writers \cup {None}
    /\ data \in [Writers -> [1..N -> Writers \cup {None, Torn}]]
    /\ cursor \in Offsets /\ wseq \in 0..N /\ fcall \in 0..N \cup {None}
    /\ queue \in Seq([seq : 0..N, off : Offsets])
    /\ stage \in {"idle", "sought"} /\ nextSeq \in 0..N /\ pos \in Offsets
    /\ reads \in [off : Offsets, sought : BOOLEAN] \cup {None}
    /\ file \in [Offsets -> 0..N \cup {None}]
    /\ acked \subseteq [seq : 0..N, off : Offsets]
    /\ sink \in {"writable", "writing", "aborting", "closing", "closed", "dropped", "errored"}
    /\ sent \in 0..N /\ pipe \in {"none", "writing"} /\ absorbed \in 0..N
    /\ got \in 0..N /\ eof \in BOOLEAN
    /\ made \in 0..N /\ exited \in BOOLEAN
    /\ pump \in {"read", "capacity", "flush", "finish", "fail", "done"}
    /\ pumped \in 0..N /\ recv \in 0..N /\ taken \in 0..N /\ flight \in 0..N
    /\ wire \in Seq({"chunk", "finish", "fail"})
    /\ chan \in {"open", "closed", "errored"}
    /\ wait \in {"pending", "exit", "rejected"}
    /\ status \in {"pending", "resolved", "rejected"}
    /\ \A w \in tracked : handle[w] # None

Init ==
    /\ flow \in Flows /\ link = "up"
    /\ wpc = [w \in Writers |-> "idle"] /\ seq = [w \in Writers |-> 0]
    /\ req = [w \in Writers |-> "none"] /\ tally = [w \in Writers |-> 0]
    /\ tracked = {} /\ done = {} /\ late = {}
    /\ handle = [w \in Writers |-> None] /\ path = None /\ last = None
    /\ data = [w \in Writers |-> Blank]
    /\ cursor = 0 /\ wseq = 0 /\ fcall = None /\ queue = <<>> /\ stage = "idle"
    /\ nextSeq = 0 /\ pos = 0 /\ reads = None
    /\ file = [o \in Offsets |-> None] /\ acked = {}
    /\ sink = "writable" /\ sent = 0 /\ pipe = "none" /\ absorbed = 0
    /\ got = 0 /\ eof = FALSE
    /\ made = 0 /\ exited = FALSE /\ pump = "read" /\ pumped = 0 /\ wire = <<>>
    /\ flight = 0 /\ recv = 0 /\ chan = "open" /\ taken = 0
    /\ wait = "pending" /\ status = "pending"

-----------------------------------------------------------------------------
(* The connection.                                                         *)

\* Either side closes it, or the transport breaks.  The agent's teardown of
\* uploads is below; the other transfers have nothing to tear down.
Drop ==
    /\ link = "up" /\ "drop" \in Faults
    /\ link' = IF tracked = {} THEN "down" ELSE "closing"
    /\ UNCHANGED <<flow, upVars, fileVars, stdinVars, outVars>>

-----------------------------------------------------------------------------
(* writeFile -> UploadWire.                                                *)

OnlyUpload == flow = "upload" /\ UNCHANGED <<flow, fileVars, stdinVars, outVars>>
SdkTo(w, pc) == wpc' = [wpc EXCEPT ![w] = pc]
ReqTo(w, r) == req' = [req EXCEPT ![w] = r]

\* The answer reaches an SDK call that still waits.
Answer(w, waiting, pc) ==
    wpc' = IF link = "up" /\ wpc[w] = waiting THEN [wpc EXCEPT ![w] = pc] ELSE wpc

Waiting == {"begin", "sending", "chunk", "finish"}

\* writeFile is called when the last one is over; beginUpload is sent.
WriteFile(w) ==
    /\ link = "up" /\ wpc[w] = "idle"
    /\ \A v \in Writers : wpc[v] \notin Waiting
    /\ SdkTo(w, "begin") /\ ReqTo(w, "begin") /\ last' = w
    /\ UNCHANGED <<link, seq, tally, tracked, done, handle, path, data, late>> /\ OnlyUpload

\* beginUpload: open with create and truncate, new UploadWire.
BeginUpload(w) ==
    /\ req[w] = "begin"
    /\ LET ino == IF path = None THEN w ELSE path IN
        /\ path' = ino /\ handle' = [handle EXCEPT ![w] = ino]
        /\ data' = [data EXCEPT ![ino] = Blank]
    /\ tracked' = tracked \cup {w}
    /\ late' = IF link = "up" THEN late ELSE late \cup {w}
    /\ ReqTo(w, "none") /\ Answer(w, "begin", "sending")
    /\ UNCHANGED <<link, seq, tally, done, last>> /\ OnlyUpload

\* fs.open fails.
BeginUploadFails(w) ==
    /\ req[w] = "begin" /\ "disk" \in Faults
    /\ ReqTo(w, "none") /\ Answer(w, "begin", "failed")
    /\ UNCHANGED <<link, seq, tally, tracked, done, handle, path, data, late, last>> /\ OnlyUpload

\* sink(): the next chunk, or finish with the commit.
SendChunk(w) ==
    /\ link = "up" /\ wpc[w] = "sending" /\ seq[w] < N
    /\ SdkTo(w, "chunk") /\ ReqTo(w, "chunk")
    /\ UNCHANGED <<link, seq, tally, tracked, done, handle, path, data, late, last>> /\ OnlyUpload

SendFinish(w) ==
    /\ link = "up" /\ wpc[w] = "sending" /\ seq[w] = N
    /\ SdkTo(w, "finish") /\ ReqTo(w, "finish")
    /\ UNCHANGED <<link, seq, tally, tracked, done, handle, path, data, late, last>> /\ OnlyUpload

\* writeFile throws: the body stream fails, a deadline lapses, or the
\* connection is gone.  upload.close() gives the stub back; nothing tells
\* the agent that the upload is over.
WriteFileFails(w) ==
    /\ wpc[w] \in Waiting
    /\ \/ wpc[w] = "sending" /\ "source" \in Faults
       \/ wpc[w] # "sending" /\ "timeout" \in Faults
       \/ link # "up"
    /\ SdkTo(w, "failed")
    /\ UNCHANGED <<link, seq, req, tally, tracked, done, handle, path, data, late, last>> /\ OnlyUpload

\* chunk(): not #done, and the expected sequence; then writeAll is awaited.
Chunk(w) ==
    /\ req[w] = "chunk"
    /\ IF w \in done \/ seq[w] # tally[w]
       THEN ReqTo(w, "none") /\ Answer(w, "chunk", "failed")
       ELSE ReqTo(w, "writing") /\ UNCHANGED wpc
    /\ UNCHANGED <<link, seq, tally, tracked, done, handle, path, data, late, last>> /\ OnlyUpload

\* The bytes land in the inode the handle is open on; absorb().
ChunkLands(w) ==
    /\ req[w] = "writing" /\ w \notin done
    /\ data' = [data EXCEPT ![handle[w]][tally[w] + 1] = w]
    /\ tally' = [tally EXCEPT ![w] = @ + 1]
    /\ ReqTo(w, "none") /\ Answer(w, "chunk", "sending")
    /\ seq' = IF wpc'[w] = "sending" THEN [seq EXCEPT ![w] = @ + 1] ELSE seq
    /\ UNCHANGED <<link, tracked, done, handle, path, late, last>> /\ OnlyUpload

\* The disk is full after part of the chunk, or the file has been closed.
ChunkFails(w) ==
    /\ req[w] = "writing"
    /\ \/ /\ "disk" \in Faults /\ w \notin done
          /\ data' = [data EXCEPT ![handle[w]][tally[w] + 1] = Torn]
       \/ w \in done /\ UNCHANGED data
    /\ ReqTo(w, "none") /\ Answer(w, "chunk", "failed")
    /\ UNCHANGED <<link, seq, tally, tracked, done, handle, path, late, last>> /\ OnlyUpload

\* #discard: close, and remove whatever is at the path.
Discard(w) == path' = None /\ handle' = [handle EXCEPT ![w] = None]

\* Mutant: finish() leaves the upload to closeResource().
FinishTracked(w) ==
    /\ req[w] = "finish" /\ w \notin done /\ tally[w] = seq[w]
    /\ ReqTo(w, "syncing")
    /\ UNCHANGED <<link, wpc, seq, tally, tracked, done, handle, path, data, late, last>>
    /\ OnlyUpload

\* finish(): #done and untracked at once; a matching commit is synced, any
\* other discarded.
Finish(w) ==
    /\ req[w] = "finish"
    /\ IF w \in done
       THEN ReqTo(w, "none") /\ Answer(w, "finish", "failed") /\ UNCHANGED <<done, tracked, handle, path>>
       ELSE /\ done' = done \cup {w} /\ tracked' = tracked \ {w}
            /\ IF tally[w] = seq[w]
               THEN ReqTo(w, "syncing") /\ UNCHANGED <<wpc, handle, path>>
               ELSE Discard(w) /\ ReqTo(w, "none") /\ Answer(w, "finish", "failed")
    /\ UNCHANGED <<link, seq, tally, data, late, last>> /\ OnlyUpload

\* sync and close; an I/O error is answered and the file stays as it is.
Synced(w) ==
    /\ req[w] = "syncing"
    /\ handle' = [handle EXCEPT ![w] = None]
    /\ ReqTo(w, "none")
    /\ \/ Answer(w, "finish", "ok")
       \/ "disk" \in Faults /\ Answer(w, "finish", "failed")
    /\ UNCHANGED <<link, seq, tally, tracked, done, path, data, late, last>> /\ OnlyUpload

\* closeResources(): closeResource() of one upload after the other.
CloseResource(w) ==
    /\ link = "closing" /\ w \in tracked \ late
    /\ tracked' = tracked \ {w} /\ done' = done \cup {w}
    /\ Discard(w)
    /\ UNCHANGED <<link, wpc, seq, req, tally, data, late, last>> /\ OnlyUpload

TornDown ==
    /\ link = "closing" /\ tracked \subseteq late
    /\ link' = "down"
    /\ UNCHANGED <<flow, upVars, fileVars, stdinVars, outVars>>

-----------------------------------------------------------------------------
(* A file handle: WireAgentFsFile -> RemoteFileWire.                       *)

OnlyFile == flow = "file" /\ UNCHANGED <<flow, link, upVars, stdinVars, outVars>>

\* The client awaits each call of a handle before the next one.
HandleFree == fcall = None /\ (reads = None \/ "race" \in Faults)

\* write(): the sequence moves before the call, the cursor after it.
FileWrite ==
    /\ link = "up" /\ HandleFree /\ wseq < N
    /\ queue' = Append(queue, [seq |-> wseq, off |-> cursor])
    /\ fcall' = wseq /\ wseq' = wseq + 1
    /\ UNCHANGED <<cursor, stage, nextSeq, pos, reads, file, acked>> /\ OnlyFile

\* seek(), from the start or from the cursor.
FileSeek(o) ==
    /\ HandleFree /\ cursor' = o
    /\ UNCHANGED <<wseq, fcall, queue, stage, nextSeq, pos, reads, file, acked>> /\ OnlyFile

FileCallFails ==
    /\ fcall # None /\ ("timeout" \in Faults \/ link # "up")
    /\ fcall' = None
    /\ UNCHANGED <<cursor, wseq, queue, stage, nextSeq, pos, reads, file, acked>> /\ OnlyFile

\* Mutant: the OS cursor is taken to be where the last write left it.
RemoteWriteNoSeek ==
    /\ queue # <<>> /\ stage = "idle"
    /\ stage' = "sought"
    /\ UNCHANGED <<queue, fcall, pos, cursor, wseq, nextSeq, reads, file, acked>> /\ OnlyFile

\* The write chain runs one handler at a time, in the order of arrival; the
\* handler refuses a sequence it does not expect, else it seeks.
RemoteWrite ==
    /\ queue # <<>> /\ stage = "idle"
    /\ IF Head(queue).seq # nextSeq
       THEN /\ queue' = Tail(queue)
            /\ fcall' = IF fcall = Head(queue).seq THEN None ELSE fcall
            /\ UNCHANGED <<stage, pos>>
       ELSE stage' = "sought" /\ pos' = Head(queue).off /\ UNCHANGED <<queue, fcall>>
    /\ UNCHANGED <<cursor, wseq, nextSeq, reads, file, acked>> /\ OnlyFile

\* writeAll at the OS cursor, then the sequence advances; an acknowledged
\* write moves the SDK's cursor.
WriteLands ==
    /\ stage = "sought"
    /\ file' = [file EXCEPT ![pos] = Head(queue).seq]
    /\ pos' = IF pos < N THEN pos + 1 ELSE pos
    /\ nextSeq' = nextSeq + 1 /\ stage' = "idle" /\ queue' = Tail(queue)
    /\ IF fcall = Head(queue).seq /\ link = "up"
       THEN /\ fcall' = None /\ acked' = acked \cup {Head(queue)}
            /\ cursor' = IF cursor < N THEN cursor + 1 ELSE cursor
       ELSE UNCHANGED <<fcall, acked, cursor>>
    /\ UNCHANGED <<wseq, reads>> /\ OnlyFile

\* It fails, with some of the bytes written or none.
WriteFails ==
    /\ stage = "sought" /\ "disk" \in Faults
    /\ file' \in {file, [file EXCEPT ![pos] = Head(queue).seq]}
    /\ stage' = "idle" /\ queue' = Tail(queue)
    /\ fcall' = IF fcall = Head(queue).seq THEN None ELSE fcall
    /\ UNCHANGED <<cursor, wseq, nextSeq, pos, reads, acked>> /\ OnlyFile

\* read(): not part of the write chain; a seek and a read of its own.
FileRead ==
    /\ link = "up" /\ HandleFree /\ reads = None
    /\ queue = <<>> \/ "race" \in Faults
    /\ reads' = [off |-> cursor, sought |-> FALSE]
    /\ UNCHANGED <<cursor, wseq, fcall, queue, stage, nextSeq, pos, file, acked>> /\ OnlyFile

RemoteRead ==
    /\ reads # None
    /\ \/ /\ ~reads.sought
          /\ pos' = reads.off /\ reads' = [reads EXCEPT !.sought = TRUE] /\ UNCHANGED cursor
       \/ /\ reads.sought /\ reads' = None
          /\ IF file[pos] # None /\ pos < N
             THEN pos' = pos + 1 /\ cursor' = IF cursor < N THEN cursor + 1 ELSE cursor
             ELSE UNCHANGED <<pos, cursor>>
    /\ UNCHANGED <<wseq, fcall, queue, stage, nextSeq, file, acked>> /\ OnlyFile

-----------------------------------------------------------------------------
(* stdin: the WritableStream of ProcessCore -> ProcessWire.                *)

OnlyStdin == flow = "stdin" /\ UNCHANGED <<flow, link, upVars, fileVars, outVars>>

\* The write that was awaited is over: a pending abort() calls its sink.
SinkAfter(outcome) ==
    sink' = CASE sink = "writing" -> outcome
              [] sink = "aborting" -> "closing"
              [] OTHER -> sink

\* writeStdin: the SDK's tally moves before the call.
WriteStdin ==
    /\ link = "up" /\ sink = "writable" /\ sent < N
    /\ sink' = "writing" /\ sent' = sent + 1 /\ pipe' = "writing"
    /\ UNCHANGED <<absorbed, got, eof>> /\ OnlyStdin

\* Mutant: the agent absorbs a chunk whose write then fails.
PipeFailsAbsorbed ==
    /\ pipe = "writing" /\ "pipe" \in Faults
    /\ pipe' = "none" /\ absorbed' = absorbed + 1 /\ SinkAfter("errored")
    /\ UNCHANGED <<sent, got, eof>> /\ OnlyStdin

\* The child takes the chunk; absorb().
PipeTakes ==
    /\ pipe = "writing"
    /\ pipe' = "none" /\ got' = got + 1 /\ absorbed' = absorbed + 1
    /\ SinkAfter("writable")
    /\ UNCHANGED <<sent, eof>> /\ OnlyStdin

\* The write to the pipe fails: nothing is absorbed.
PipeFails ==
    /\ pipe = "writing" /\ "pipe" \in Faults
    /\ pipe' = "none" /\ SinkAfter("errored")
    /\ UNCHANGED <<sent, absorbed, got, eof>> /\ OnlyStdin

StdinCallFails ==
    /\ sink \in {"writing", "aborting"} /\ ("timeout" \in Faults \/ link # "up")
    /\ SinkAfter("errored")
    /\ UNCHANGED <<sent, pipe, absorbed, got, eof>> /\ OnlyStdin

\* close() when no write is under way, abort() at any time.
StdinClose ==
    /\ sink \in {"writable", "writing"}
    /\ sink' = IF sink = "writable" THEN "closing" ELSE "aborting"
    /\ UNCHANGED <<sent, pipe, absorbed, got, eof>> /\ OnlyStdin

\* closeStdin with the SDK's commit: a mismatch is refused, else the pipe is
\* closed once its queued writes are through.
CloseStdin ==
    /\ sink = "closing" /\ link = "up"
    /\ IF sent = absorbed
       THEN pipe = "none" /\ eof' = TRUE /\ sink' = "closed"
       ELSE sink' = "errored" /\ UNCHANGED eof
    /\ UNCHANGED <<sent, pipe, absorbed, got>> /\ OnlyStdin

\* A closed connection counts as a closed stdin.
CloseStdinLost ==
    /\ sink = "closing" /\ link # "up"
    /\ sink' = "dropped"
    /\ UNCHANGED <<sent, pipe, absorbed, got, eof>> /\ OnlyStdin

-----------------------------------------------------------------------------
(* Output: pumpOutputChannel -> OutputChannels -> the inherit pump.        *)

OnlyOutput == flow = "output" /\ UNCHANGED <<flow, link, upVars, fileVars, stdinVars>>

ChildWrites ==
    /\ ~exited /\ made < N /\ made' = made + 1
    /\ UNCHANGED <<exited, pump, pumped, wire, flight, recv, chan, taken, wait, status>> /\ OnlyOutput

ChildExits ==
    /\ ~exited /\ exited' = TRUE
    /\ UNCHANGED <<made, pump, pumped, wire, flight, recv, chan, taken, wait, status>> /\ OnlyOutput

\* A piece of the child's output: absorb().
PumpReads ==
    /\ pump = "read" /\ pumped < made
    /\ pumped' = pumped + 1 /\ pump' = "capacity"
    /\ UNCHANGED <<made, exited, wire, flight, recv, chan, taken, wait, status>> /\ OnlyOutput

\* waitForCapacity, send.
PumpSends ==
    /\ pump = "capacity" /\ flight < Window /\ link = "up"
    /\ wire' = Append(wire, "chunk") /\ flight' = flight + 1 /\ pump' = "read"
    /\ UNCHANGED <<made, exited, pumped, recv, chan, taken, wait, status>> /\ OnlyOutput

PumpEnds ==
    /\ pump = "read" /\ pumped = made /\ exited
    /\ pump' = "flush"
    /\ UNCHANGED <<made, exited, pumped, wire, flight, recv, chan, taken, wait, status>> /\ OnlyOutput

\* flush, then finish with the commit.
PumpFinishes ==
    /\ pump = "flush" /\ flight = 0 /\ link = "up"
    /\ wire' = Append(wire, "finish") /\ pump' = "finish"
    /\ UNCHANGED <<made, exited, pumped, flight, recv, chan, taken, wait, status>> /\ OnlyOutput

\* Mutant: the catch leaves the channel as it is.
PumpFailsSilently ==
    /\ pump \in {"capacity", "flush"} /\ flight > 0 /\ "timeout" \in Faults /\ link = "up"
    /\ pump' = "done"
    /\ UNCHANGED <<made, exited, pumped, wire, flight, recv, chan, taken, wait, status>> /\ OnlyOutput

\* A call has timed out or the connection is gone: the sender throws, and
\* the catch sends fail, which a dead connection does not carry.
PumpFails ==
    /\ \/ pump \in {"capacity", "flush"} /\ (link # "up" \/ (flight > 0 /\ "timeout" \in Faults))
       \/ pump = "finish" /\ (link # "up" \/ "timeout" \in Faults)
    /\ IF link = "up" THEN pump' = "fail" /\ wire' = Append(wire, "fail")
                      ELSE pump' = "done" /\ UNCHANGED wire
    /\ UNCHANGED <<made, exited, pumped, flight, recv, chan, taken, wait, status>> /\ OnlyOutput

\* OutputChannels.chunk, finish and fail, in the order they were sent.
Deliver ==
    /\ wire # <<>> /\ link = "up"
    /\ wire' = Tail(wire)
    /\ LET m == Head(wire) IN
        /\ recv' = IF m = "chunk" /\ chan = "open" THEN recv + 1 ELSE recv
        /\ flight' = IF m = "chunk" THEN flight - 1 ELSE flight
        /\ chan' = CASE chan = "open" /\ m = "finish" -> "closed"
                     [] chan = "open" /\ m = "fail" -> "errored"
                     [] OTHER -> chan
        /\ pump' = IF m = pump THEN "done" ELSE pump
    /\ UNCHANGED <<made, exited, pumped, taken, wait, status>> /\ OnlyOutput

\* pumpInherit; an errored stream drops what is queued.
InheritTakes ==
    /\ taken < recv /\ chan # "errored"
    /\ taken' = taken + 1
    /\ UNCHANGED <<made, exited, pump, pumped, wire, flight, recv, chan, wait, status>> /\ OnlyOutput

InheritEnded == chan = "errored" \/ (chan = "closed" /\ taken = recv)

\* #awaitExit: Process.wait, one call with a deadline like any other.
WaitReturns ==
    /\ wait = "pending"
    /\ \/ exited /\ link = "up" /\ wait' = "exit"
       \/ (link # "up" \/ "timeout" \in Faults) /\ wait' = "rejected"
    /\ UNCHANGED <<made, exited, pump, pumped, wire, flight, recv, chan, taken, status>> /\ OnlyOutput

\* ProcessCore.status: the exit, then the inherit pumps.
StatusSettles ==
    /\ status = "pending"
    /\ \/ wait = "exit" /\ InheritEnded /\ status' = "resolved"
       \/ wait = "rejected" /\ status' = "rejected"
    /\ UNCHANGED <<made, exited, pump, pumped, wire, flight, recv, chan, taken, wait>> /\ OnlyOutput

-----------------------------------------------------------------------------
Upload(w) ==
    \/ WriteFile(w) \/ BeginUpload(w) \/ BeginUploadFails(w) \/ SendChunk(w) \/ SendFinish(w)
    \/ WriteFileFails(w) \/ Chunk(w) \/ ChunkLands(w) \/ ChunkFails(w) \/ Finish(w)
    \/ Synced(w) \/ CloseResource(w)

FileStep ==
    \/ FileWrite \/ FileCallFails \/ RemoteWrite \/ WriteLands \/ WriteFails
    \/ FileRead \/ RemoteRead
    \/ \E o \in 0..(N - 1) : FileSeek(o)

StdinStep ==
    \/ WriteStdin \/ PipeTakes \/ PipeFails \/ StdinCallFails \/ StdinClose
    \/ CloseStdin \/ CloseStdinLost

PumpStep == PumpReads \/ PumpSends \/ PumpEnds \/ PumpFinishes \/ PumpFails

OutputStep ==
    \/ ChildWrites \/ ChildExits \/ PumpStep \/ Deliver \/ InheritTakes
    \/ WaitReturns \/ StatusSettles

Next ==
    \/ Drop \/ TornDown
    \/ \E w \in Writers : Upload(w)
    \/ FileStep \/ StdinStep \/ OutputStep

Spec == Init /\ [][Next]_vars

\* Messages arrive, promises settle and the terminal takes its output; the
\* child, the client and the connection do as they like.
Fairness ==
    /\ WF_vars(PumpStep) /\ WF_vars(Deliver) /\ WF_vars(InheritTakes)
    /\ WF_vars(exited /\ WaitReturns) /\ WF_vars(StatusSettles)

FairSpec == Spec /\ Fairness

-----------------------------------------------------------------------------
(* Properties.                                                             *)

Holds(w) == path # None /\ \A i \in 1..N : data[path][i] = w

\* While no writeFile on the path has failed, the path holds the whole body
\* of the one that returned last, the connection's teardown included
\* (UploadWire.finish takes the upload out of closeResources' reach).
FinishedUploadKept ==
    (\A w \in Writers : wpc[w] \in {"idle", "ok"}) /\ last # None => Holds(last)

\* A connection whose teardown is over leaves no part of a body behind: the
\* path is empty or holds one whole body, whatever timed out, failed or was
\* tried again, unless a beginUpload was answered behind the teardown's back.
NoPartialFile ==
    link = "down" /\ late = {} /\ path # None /\ (\A w \in Writers : req[w] = "none") =>
        \E w \in Writers : Holds(w)

\* An acknowledged write is at the offset it named until a later write of the
\* handle goes there (RemoteFileWire.write).
AckedWriteInPlace == \A a \in acked : file[a.off] # None /\ file[a.off] >= a.seq

\* When closing stdin succeeds, the child has been given every chunk the
\* client handed over, and then EOF (ProcessWire.closeStdin).
StdinWhole == sink = "closed" => eof /\ got = sent

\* A stream that closes without an error has carried all the child wrote, and
\* a status that resolves has seen the child exit and all of that printed
\* (pumpOutputChannel, ProcessCore.status).
OutputWhole ==
    /\ chan = "closed" => exited /\ recv = made
    /\ status = "resolved" => exited /\ (chan = "closed" => taken = made)

\* After the child's exit its streams end and its status settles, as long as
\* the connection lasts.
ExitIsSeen == exited /\ flow = "output" ~> (chan # "open" /\ status # "pending") \/ link # "up"

\* What sandbox.ts says of close(): an inherit pump ends when the connection
\* closes.  Does not hold: nobody ends the output streams of a lost connection.
PumpsEndWithConnection == link # "up" /\ flow = "output" ~> InheritEnded

\* What writeFile promises: once it has returned, and until the next one,
\* the file is there.  Does not hold after a writeFile that timed out and was
\* tried again: the teardown removes the path of the first.
WrittenFileStays == last # None /\ wpc[last] = "ok" => Holds(last)

\* A path holds a whole body or none: what finish() answered stays, what failed
\* goes (UploadWire, ConnectionState.closeResources).
UploadsWhole == TypeOK /\ FinishedUploadKept /\ NoPartialFile

\* A stream that ends without an error has carried everything, in either
\* direction (ProcessWire, pumpOutputChannel).
StreamsWhole == StdinWhole /\ OutputWhole

=============================================================================
