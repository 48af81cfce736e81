--------------------------- MODULE StreamHandler ---------------------------
(***************************************************************************)
(* The SessionHandlers (transport.rs) at the two ends of one connection    *)
(* and the framing (framing.rs) they use: which substream each end settles *)
(* on, partial writes into a flow-controlled stream, reads in chunks that  *)
(* cut frames anywhere, decoding, and the ways a handler ends.             *)
(*                                                                         *)
(* A stream carries cells: cell i of frame f stands for the i-th piece of  *)
(* its encoding, HeaderLen cells of header and then the payload.  poll is  *)
(* split at the points where it calls the stream, because the other end    *)
(* runs meanwhile; its early returns are the guards below.                 *)
(***************************************************************************)
EXTENDS Sequences, Functions, Naturals

CONSTANTS
    A, B,         \* the two ends of the connection
    Initiators,   \* the ends whose handler was built by an outbound dial: one
                  \* of them, or both after a hole punch
    Sends,        \* Sends[p]: the frames p's behaviour sends, in order
    HeaderLen,    \* HEADER_LEN, in cells
    MaxPayload,   \* MAX_PAYLOAD, in cells
    Window,       \* cells a stream holds before its writer must wait
    Chunk,        \* cells one poll_read may return (tmp of poll_read_once)
    MaxFaults     \* failures outside the handlers: bound

(* A frame is "good", "garbled" (bad magic, version, type or flags: refused *)
(* from the header alone) or has "fields" its type may not carry (refused  *)
(* only once the whole payload is there).                                  *)
FrameForms == {"good", "garbled", "fields"}

FrameType == [id : Nat, len : Nat, form : FrameForms]

CellType == [frame : FrameType, at : Nat]

ASSUME EndsAssumption ==
    A # B /\ "none" \notin {A, B} /\ Initiators \subseteq {A, B} /\ Initiators # {}
ASSUME SizesAssumption ==
    /\ HeaderLen \in Nat \ {0} /\ MaxPayload \in Nat
    /\ Window \in Nat \ {0} /\ Chunk \in Nat \ {0} /\ MaxFaults \in Nat
ASSUME SendsAssumption == Sends \in [{A, B} -> Seq(FrameType)]

VARIABLES
    requested,  \* requested[p]: outbound_requested
    upgrade,    \* upgrade[s][p]: negotiation of the stream s opens, as p sees it
    held,       \* held[p]: the stream in substream, or None
    ready,      \* ready[p]: pending_ready
    announced,  \* announced[p]: the behaviour was told SubstreamReady
    queue,      \* queue[p]: write_queue, encoded frames
    writing,    \* writing[p]: what is left of the frame being written
    readBuf,    \* readBuf[p]: read_buf
    closed,     \* closed[p]
    wire,       \* wire[s][p]: cells on their way to p on stream s
    dropped,    \* dropped[s]: the ends that have dropped stream s
    conn,       \* the connection itself: "up" or "down"
    faults,     \* faults so far
    given,      \* history: frames the behaviour of p handed over
    arrived     \* history: FrameReceived events at p

vars == <<requested, upgrade, held, ready, announced, queue, writing, readBuf,
          closed, wire, dropped, conn, faults, given, arrived>>

setupVars == <<requested, upgrade, ready, announced>>
writeVars == <<queue, writing>>
envVars == <<conn, faults>>
logVars == <<given, arrived>>

Ends == {A, B}

Peer(p) == IF p = A THEN B ELSE A

None == "none"

-----------------------------------------------------------------------------
(* Framing.                                                                *)

Encode(f) == [i \in 1 .. HeaderLen + f.len |-> [frame |-> f, at |-> i]]

(* Mutant: the header is not counted.                                      *)
PayloadLimit == MaxPayload

MaxReadBuffer == HeaderLen + MaxPayload

(* The frame whose header the buffer starts with: decode trusts the length *)
(* it finds there for where the next frame starts.                         *)
Leading(buf) == buf[1].frame

Consumed(buf) == HeaderLen + Leading(buf).len

HeaderAccepted(buf) ==
    buf[1].at = 1 /\ Leading(buf).form # "garbled" /\ Leading(buf).len <= MaxPayload

Truncated(buf) ==
    Len(buf) >= HeaderLen => (HeaderAccepted(buf) /\ Len(buf) < Consumed(buf))

(* Mutant: session fields on a handshake frame are let through.            *)
MalformedHeader(buf) == ~Truncated(buf) /\ ~HeaderAccepted(buf)

Malformed(buf) ==
    ~Truncated(buf) /\ (HeaderAccepted(buf) => Leading(buf).form # "good")

AfterFrame(buf) == SubSeq(buf, Consumed(buf) + 1, Len(buf))

(* A frame put together from cells of several frames would still decode:   *)
(* the payload is not looked at.                                           *)
Mangled == [id |-> 0, len |-> 0, form |-> "mangled"]

Decode(buf) ==
    IF SubSeq(buf, 1, Consumed(buf)) = Encode(Leading(buf)) THEN Leading(buf) ELSE Mangled

-----------------------------------------------------------------------------
Init ==
    /\ requested = [p \in Ends |-> FALSE]
    /\ upgrade = [s \in Initiators |-> [p \in Ends |-> "none"]]
    /\ held = [p \in Ends |-> None]
    /\ ready = [p \in Ends |-> FALSE]
    /\ announced = [p \in Ends |-> FALSE]
    /\ queue = [p \in Ends |-> <<>>]
    /\ writing = [p \in Ends |-> <<>>]
    /\ readBuf = [p \in Ends |-> <<>>]
    /\ closed = [p \in Ends |-> FALSE]
    /\ wire = [s \in Initiators |-> [p \in Ends |-> <<>>]]
    /\ dropped = [s \in Initiators |-> {}]
    /\ conn = "up"
    /\ faults = 0
    /\ given = [p \in Ends |-> <<>>]
    /\ arrived = [p \in Ends |-> <<>>]

-----------------------------------------------------------------------------
(* The substream.                                                          *)

WantsOutbound(p) == p \in Initiators /\ ~requested[p] /\ held[p] = None

RequestOutbound(p) ==
    /\ ~closed[p] /\ WantsOutbound(p)
    /\ requested' = [requested EXCEPT ![p] = TRUE]
    /\ upgrade' = [upgrade EXCEPT ![p] = [q \in Ends |-> "pending"]]
    /\ UNCHANGED <<held, ready, announced, queue, writing, readBuf, closed, wire, dropped,
                   conn, faults, given, arrived>>

(* set_substream: the first stream to be negotiated is kept, a second one  *)
(* is dropped.                                                             *)
SetSubstream(p, s) ==
    IF held[p] = None
    THEN /\ held' = [held EXCEPT ![p] = s]
         /\ ready' = [ready EXCEPT ![p] = TRUE]
         /\ UNCHANGED dropped
    ELSE /\ dropped' = [dropped EXCEPT ![s] = @ \cup {p}]
         /\ UNCHANGED <<held, ready>>

(* FullyNegotiatedInbound or FullyNegotiatedOutbound.  The end that opened *)
(* the stream learns of it after the other has agreed.                     *)
FullyNegotiated(p, s) ==
    /\ conn = "up"
    /\ upgrade[s][p] = "pending"
    /\ p = s => upgrade[s][Peer(p)] = "done"
    /\ upgrade' = [upgrade EXCEPT ![s][p] = "done"]
    /\ SetSubstream(p, s)
    /\ UNCHANGED <<requested, announced, queue, writing, readBuf, closed, wire, conn, faults,
                   given, arrived>>

(* DialUpgradeError or ListenUpgradeError: closed, without an event and    *)
(* without giving up a stream the handler may already hold.                *)
UpgradeError(p, s) ==
    /\ conn = "up"
    /\ upgrade[s][p] = "pending"
    /\ \/ faults < MaxFaults /\ faults' = faults + 1
       \/ upgrade[s][Peer(p)] = "failed" /\ faults' = faults
    /\ upgrade' = [upgrade EXCEPT ![s][p] = "failed"]
    /\ dropped' = [dropped EXCEPT ![s] = @ \cup {p}]
    /\ closed' = [closed EXCEPT ![p] = TRUE]
    /\ UNCHANGED <<requested, held, ready, announced, queue, writing, readBuf, wire, conn,
                   given, arrived>>

AnnounceReady(p) ==
    /\ ~closed[p] /\ ~WantsOutbound(p)
    /\ ready[p]
    /\ ready' = [ready EXCEPT ![p] = FALSE]
    /\ announced' = [announced EXCEPT ![p] = TRUE]
    /\ UNCHANGED <<requested, upgrade, held, queue, writing, readBuf, closed, wire, dropped,
                   conn, faults, given, arrived>>

-----------------------------------------------------------------------------
(* on_behaviour_event: SendFrames.  A closed handler queues as well, and   *)
(* never writes.  The behaviour sends nothing before SubstreamReady.       *)
SendFrames(p) ==
    LET n == Len(given[p]) + 1 IN
    /\ announced[p]
    /\ n <= Len(Sends[p])
    /\ given' = [given EXCEPT ![p] = Append(@, Sends[p][n])]
    /\ queue' = [queue EXCEPT ![p] = Append(@, Encode(Sends[p][n]))]
    /\ UNCHANGED <<requested, upgrade, held, ready, announced, writing, readBuf, closed, wire,
                   dropped, conn, faults, arrived>>

(* What the parts of poll after SubstreamReady need.                       *)
Running(p) == ~closed[p] /\ ~WantsOutbound(p) /\ ~ready[p] /\ held[p] # None

(* Mutant: a frame that is half written is forgotten.                      *)
HasQueuedWrites(p) == queue[p] # <<>>

HasWrites(p) == writing[p] # <<>> \/ queue[p] # <<>>

Unwritten(buf, n) == SubSeq(buf, n + 1, Len(buf))

Room(p) == Window - Len(wire[held[p]][Peer(p)])

(* One poll_write of poll_flush_writes, which may take only a part.        *)
PollWrite(p) ==
    /\ Running(p) /\ HasWrites(p)
    /\ conn = "up"
    /\ LET buf == IF writing[p] # <<>> THEN writing[p] ELSE Head(queue[p]) IN
       \E n \in 1 .. Room(p) :
          /\ n <= Len(buf)
          /\ wire' = [wire EXCEPT ![held[p]][Peer(p)] = @ \o SubSeq(buf, 1, n)]
          /\ writing' = [writing EXCEPT ![p] = Unwritten(buf, n)]
    /\ queue' = [queue EXCEPT ![p] = IF writing[p] # <<>> THEN @ ELSE Tail(@)]
    /\ UNCHANGED <<requested, upgrade, held, ready, announced, readBuf, closed, dropped, conn,
                   faults, given, arrived>>

(* The reading half of poll is reached only when nothing is left to write. *)
MayRead(p) == Running(p) /\ ~HasWrites(p)

PollFrame(p) ==
    /\ MayRead(p)
    /\ ~Truncated(readBuf[p]) /\ ~Malformed(readBuf[p])
    /\ arrived' = [arrived EXCEPT ![p] = Append(@, Decode(readBuf[p]))]
    /\ readBuf' = [readBuf EXCEPT ![p] = AfterFrame(@)]
    /\ UNCHANGED <<requested, upgrade, held, ready, announced, queue, writing, closed, wire,
                   dropped, conn, faults, given>>

(* A refused buffer: a malformed frame, or more bytes than a frame can be. *)
Refused(buf) == Malformed(buf) \/ (Truncated(buf) /\ Len(buf) > MaxReadBuffer)

(* Mutant: bytes are read although a complete frame is buffered.           *)
ReadsAlways(buf) == TRUE

NeedsBytes(buf) == Truncated(buf) /\ ~Refused(buf)

(* One poll_read of poll_read_once.  At EOF (the other end has dropped the *)
(* stream) poll is Pending and nothing changes, so EOF is not a step.      *)
PollRead(p) ==
    /\ MayRead(p)
    /\ NeedsBytes(readBuf[p])
    /\ LET s == held[p] IN
       \E n \in 1 .. Chunk :
          /\ n <= Len(wire[s][p])
          /\ readBuf' = [readBuf EXCEPT ![p] = @ \o SubSeq(wire[s][p], 1, n)]
          /\ wire' = [wire EXCEPT ![s][p] = SubSeq(@, n + 1, Len(@))]
    /\ UNCHANGED <<requested, upgrade, held, ready, announced, queue, writing, closed, dropped,
                   conn, faults, given, arrived>>

-----------------------------------------------------------------------------
(* How a handler ends.                                                     *)

GiveUp(p) ==
    /\ closed' = [closed EXCEPT ![p] = TRUE]
    /\ held' = [held EXCEPT ![p] = None]
    /\ dropped' = [s \in Initiators |-> IF held[p] = s THEN dropped[s] \cup {p} ELSE dropped[s]]
    /\ UNCHANGED <<requested, upgrade, ready, announced, queue, writing, readBuf, wire, conn,
                   faults, given, arrived>>

(* Writing into a stream the other end has dropped, or over a lost         *)
(* connection: StreamClosed.                                               *)
WriteFails(p) ==
    /\ Running(p) /\ HasWrites(p)
    /\ Peer(p) \in dropped[held[p]] \/ conn = "down"
    /\ GiveUp(p)

ReadFails(p) ==
    /\ MayRead(p)
    /\ Refused(readBuf[p]) \/ (Truncated(readBuf[p]) /\ conn = "down")
    /\ GiveUp(p)

(* The connection is lost or closed by either node.                        *)
ConnectionDown ==
    /\ conn = "up" /\ faults < MaxFaults
    /\ conn' = "down" /\ faults' = faults + 1
    /\ UNCHANGED <<requested, upgrade, held, ready, announced, queue, writing, readBuf, closed,
                   wire, dropped, given, arrived>>

PollClose(p) ==
    /\ conn = "down"
    /\ ~closed[p] \/ held[p] # None
    /\ GiveUp(p)

-----------------------------------------------------------------------------
Poll(p) ==
    \/ RequestOutbound(p)
    \/ AnnounceReady(p)
    \/ PollWrite(p)
    \/ WriteFails(p)
    \/ PollFrame(p)
    \/ PollRead(p)
    \/ ReadFails(p)

Next ==
    \/ \E p \in Ends : Poll(p) \/ SendFrames(p) \/ PollClose(p)
    \/ \E p \in Ends, s \in Initiators : FullyNegotiated(p, s) \/ UpgradeError(p, s)
    \/ ConnectionDown

(* The swarm polls a handler whenever the stream or the behaviour wakes    *)
(* it, negotiations finish, and closing handlers are polled to the end.    *)
Fairness ==
    /\ \A p \in Ends : WF_vars(Poll(p)) /\ WF_vars(PollClose(p))
    /\ \A p \in Ends, s \in Initiators : WF_vars(FullyNegotiated(p, s))

Spec == Init /\ [][Next]_vars /\ Fairness

-----------------------------------------------------------------------------
(* Properties.                                                             *)

(* Types: buffers hold cells of encoded frames, and what is written or     *)
(* read belongs to a stream the handler holds.                             *)
TypeOK ==
    /\ requested \in [Ends -> BOOLEAN]
    /\ upgrade \in [Initiators -> [Ends -> {"none", "pending", "done", "failed"}]]
    /\ held \in [Ends -> Initiators \cup {None}]
    /\ ready \in [Ends -> BOOLEAN]
    /\ announced \in [Ends -> BOOLEAN]
    /\ queue \in [Ends -> Seq(Seq(CellType))]
    /\ writing \in [Ends -> Seq(CellType)]
    /\ readBuf \in [Ends -> Seq(CellType)]
    /\ closed \in [Ends -> BOOLEAN]
    /\ wire \in [Initiators -> [Ends -> Seq(CellType)]]
    /\ dropped \in [Initiators -> SUBSET Ends]
    /\ conn \in {"up", "down"}
    /\ faults \in 0 .. MaxFaults
    /\ given \in [Ends -> Seq(FrameType)]
    /\ arrived \in [Ends -> Seq(FrameType)]

SoundFrames == {f \in FrameType : f.form = "good" /\ f.len <= MaxPayload}

(* Buffers hold cells of encoded frames (TypeOK), and the read buffer      *)
(* never holds more than one incomplete frame and what a                   *)
(* single read brings, however the stream is cut: poll_read_once reads     *)
(* only while no complete frame is buffered.                               *)
ReadBufferBounded ==
    /\ TypeOK
    /\ \A p \in Ends : Len(readBuf[p]) < MaxReadBuffer + Chunk

(* A handler refuses what it has buffered only where the other end really  *)
(* sent a frame no receiver may accept, with everything before it handed   *)
(* up: no cut of the stream, no frame of the largest size and no leftover  *)
(* of an earlier frame is ever taken for a malformed one.                  *)
RefusesOnlyBadFrames ==
    \A p \in Ends :
        Refused(readBuf[p]) =>
            LET n == Len(arrived[p]) + 1 IN
            /\ n <= Len(given[Peer(p)])
            /\ given[Peer(p)][n] \notin SoundFrames

Crossed ==
    /\ \A p \in Ends : held[p] # None
    /\ held[A] # held[B]

(* Both ends have settled on a substream, and not on the same one.  Over a *)
(* connection with one dialer this cannot happen; after a hole punch both  *)
(* ends are dialers, both open a substream, and each keeps whichever was   *)
(* negotiated first at its end.                                            *)
EndsShareStream == ~Crossed

BothBlocked == \A p \in Ends : Running(p) /\ HasWrites(p) /\ Room(p) <= 0

Troubled == conn = "down" \/ (\E p \in Ends : closed[p]) \/ Crossed

(* Every frame handed to a handler reaches the other behaviour, whatever   *)
(* partial writes and reads do to it, unless the connection or a handler   *)
(* ends, the ends hold different streams, or both have filled the other's  *)
(* window: poll does not read while a write is waiting.                    *)
FramesFlow ==
    \A p \in Ends : \A n \in DOMAIN Sends[p] :
        Len(given[p]) >= n ~> (Len(arrived[Peer(p)]) >= n \/ Troubled \/ BothBlocked)

FS == INSTANCE FrameStream WITH
        Frames <- UNION {Range(Sends[p]) : p \in Ends},
        Sound <- SoundFrames,
        over <- closed

(* The handlers implement the frame stream the behaviours rely on: frames  *)
(* arrive whole, in order and once, a malformed one never, and a handler   *)
(* that is closed hands up nothing more and stays closed.                  *)
ImplementsFrameStream == FS!StreamSpec
=============================================================================
