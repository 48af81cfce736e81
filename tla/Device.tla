------------------------------- MODULE Device -------------------------------
(***************************************************************************)
(* The data directory of a device (storage.rs) and the commands that run   *)
(* on it (cli.rs): `init` saves an identity and a configuration, the other *)
(* commands load them, run a node and log its events in history.jsonl.     *)
(* Processes may be killed, calls of the file system may fail and the      *)
(* machine may lose power between any two of them.                         *)
(*                                                                         *)
(* The operator runs `init` by itself; any other commands may overlap on   *)
(* the same directory.  How a text reaches the other device is module      *)
(* SessionBehaviour's matter: here it is in flight until it is taken, and  *)
(* a run of a node sees one session established and sends one text.        *)
(* "node" also stands for `lookup` and `peers`, which do less.             *)
(***************************************************************************)
EXTENDS FiniteSets, Naturals, Sequences

CONSTANTS
    Procs,         \* processes that may run at once
    Ids,           \* identities DeviceIdentity::generate may return
    Ports,         \* listen ports
    DefaultPort,   \* DEFAULT_PORT
    Texts,         \* texts this device sends, by msg_id
    Inbox,         \* texts other devices send to it
    Absent,        \* no value: no such file, no --listen-port
    Torn,          \* what a partly written file or log entry holds
    NL,            \* the newline that ends a log entry
    MaxStarts,     \* commands run: bound
    MaxFaults      \* kills, I/O errors and power cuts: bound

ASSUME PortAssumption == DefaultPort \in Ports
ASSUME MarkAssumption ==
    /\ {Absent, Torn} \cap (Ids \cup Ports \cup Texts) = {}
    /\ Absent # Torn /\ NL # Torn
ASSUME DeviceBoundsAssumption == MaxStarts \in Nat /\ MaxFaults \in Nat

VARIABLES
    disk,     \* disk[f]: what a reader finds in file f
    tmp,      \* tmp[f]: f with extension .tmp, and whether it was synced
    survives, \* survives[f]: what f may hold after a power cut
    history,  \* history.jsonl: log entries and newlines
    proc,     \* proc[p]: the command p runs
    writing,  \* writing[p]: what append_history has yet to write
    sent,     \* sent[t]: where text t is
    report,   \* report[t]: what the command that had to send t said last
    inbox,    \* inbox[t]: where a text of another device is
    chosen,   \* chosen[i]: the port `init` was told, with "identity created"
    starts,   \* commands run so far
    faults,   \* faults so far
    cut,      \* was the power ever cut?
    mishaps   \* appends cut short by a fault, or begun inside another

fileVars == <<disk, tmp, survives>>
textVars == <<sent, report, inbox>>
vars == <<fileVars, history, proc, writing, textVars, chosen, starts,
          faults, cut, mishaps>>

Files == {"identity", "config"}

Contents(f) == IF f = "identity" THEN Ids ELSE Ports

NoProc == [cmd |-> "none", pc |-> "none", file |-> Absent, id |-> Absent,
           port |-> Absent, text |-> Absent]

(* as_json of the HistoryKinds; the session entry has no text.             *)
Entry(event, t) == [event |-> event, text |-> t]

Entries == {Entry("session", Absent)}
           \cup {Entry("delivered", t) : t \in Texts}
           \cup {Entry("received", t) : t \in Inbox}

(* A newline or a piece of an entry is no entry.                           *)
ASSUME LogAssumption == {NL, Torn} \cap Entries = {}

Init ==
    /\ disk = [f \in Files |-> Absent]
    /\ tmp = [f \in Files |-> [content |-> Absent, synced |-> FALSE]]
    /\ survives = [f \in Files |-> {Absent}]
    /\ history = <<>>
    /\ proc = [p \in Procs |-> NoProc]
    /\ writing = [p \in Procs |-> <<>>]
    /\ sent = [t \in Texts |-> "unsent"]
    /\ report = [t \in Texts |-> "none"]
    /\ inbox = [t \in Inbox |-> [at |-> "away", by |-> Absent]]
    /\ chosen = [i \in Ids |-> Absent]
    /\ starts = 0 /\ faults = 0 /\ cut = FALSE /\ mishaps = 0

At(p, cmd, pc) == proc[p].cmd = cmd /\ proc[p].pc = pc /\ writing[p] = <<>>

(* A command that runs a node.                                             *)
RunsNode(p) == proc[p].cmd \in {"node", "send"}

-----------------------------------------------------------------------------
(* `init`: the identity, then the configuration, each by write_atomic.     *)

FreshIds == {i \in Ids : \A f \in Files : /\ disk[f] # i /\ tmp[f].content # i
                                          /\ i \notin survives[f]
                                          /\ chosen[i] = Absent}

(* `init` may run again when it did not get as far as the configuration.   *)
MayInitUnconfigured == disk["identity"] = Absent \/ disk["config"] = Absent

(* load_identity finds nothing: a whole file makes `init` bail, a torn one *)
(* makes it fail.                                                          *)
MayInit == disk["identity"] = Absent

(* Which of the idle processes, and which fresh identity, makes no         *)
(* difference.                                                             *)
Begin(p, new) ==
    /\ proc[p] = NoProc
    /\ p = CHOOSE q \in Procs : proc[q] = NoProc
    /\ starts < MaxStarts
    /\ proc' = [proc EXCEPT ![p] = new]
    /\ starts' = starts + 1

StartInit(p, option) ==
    /\ \A q \in Procs : proc[q] = NoProc
    /\ MayInit
    /\ FreshIds # {}
    /\ Begin(p, [NoProc EXCEPT
                    !.cmd = "init", !.pc = "create", !.file = "identity",
                    !.id = CHOOSE i \in FreshIds : TRUE,
                    !.port = IF option = Absent THEN DefaultPort ELSE option])
    /\ UNCHANGED <<fileVars, history, writing, textVars, chosen, faults, cut, mishaps>>

(* p is at a call of write_atomic on file f.                               *)
Calls(p, call, f) == At(p, "init", call) /\ proc[p].file = f

Goto(p, pc) == proc' = [proc EXCEPT ![p].pc = pc]

CreateTmp(p, f) ==
    /\ Calls(p, "create", f)
    /\ tmp' = [tmp EXCEPT ![f] = [content |-> Torn, synced |-> FALSE]]
    /\ Goto(p, "write")
    /\ UNCHANGED <<disk, survives>>

(* What save_identity and save_config have to write.                       *)
Saved(p, f) == IF f = "identity" THEN proc[p].id ELSE proc[p].port

WriteTmp(p, f) ==
    /\ Calls(p, "write", f)
    /\ tmp' = [tmp EXCEPT ![f].content = Saved(p, f)]
    /\ Goto(p, "sync")
    /\ UNCHANGED <<disk, survives>>

(* No sync_all before the rename.                                          *)
SyncSkipped(p, f) ==
    /\ Calls(p, "sync", f)
    /\ Goto(p, "rename")
    /\ UNCHANGED fileVars

SyncTmp(p, f) ==
    /\ Calls(p, "sync", f)
    /\ tmp' = [tmp EXCEPT ![f].synced = TRUE]
    /\ Goto(p, "rename")
    /\ UNCHANGED <<disk, survives>>

(* The directory is not synced: until the file system settles, a power cut *)
(* may undo the rename, and finds in the file only what was synced.        *)
Rename(p, f) ==
    /\ Calls(p, "rename", f)
    /\ disk' = [disk EXCEPT ![f] = tmp[f].content]
    /\ survives' = [survives EXCEPT ![f] =
                       @ \cup {IF tmp[f].synced THEN tmp[f].content ELSE Torn}]
    /\ tmp' = [tmp EXCEPT ![f] = [content |-> Absent, synced |-> FALSE]]
    /\ proc' = [proc EXCEPT ![p].pc = IF f = "identity" THEN "create" ELSE "done",
                            ![p].file = "config"]

WriteAtomic(p, f) ==
    /\ CreateTmp(p, f) \/ WriteTmp(p, f) \/ SyncTmp(p, f) \/ Rename(p, f)
    /\ UNCHANGED <<history, writing, textVars, chosen, starts, faults, cut, mishaps>>

(* "identity created" as soon as the identity is saved.                    *)
SayCreatedEarly(p) ==
    /\ (Calls(p, "create", "config") \/ At(p, "init", "done"))
    /\ chosen' = [chosen EXCEPT ![proc[p].id] = proc[p].port]
    /\ proc' = [proc EXCEPT ![p] = NoProc]
    /\ UNCHANGED <<fileVars, history, writing, textVars, starts, faults, cut, mishaps>>

SayCreated(p) ==
    /\ At(p, "init", "done")
    /\ chosen' = [chosen EXCEPT ![proc[p].id] = proc[p].port]
    /\ proc' = [proc EXCEPT ![p] = NoProc]
    /\ UNCHANGED <<fileVars, history, writing, textVars, starts, faults, cut, mishaps>>

-----------------------------------------------------------------------------
(* The commands that run a node.                                           *)

(* load_identity: a torn file fails to parse or to match its own peer id.  *)
IdentityLoads == disk["identity"] \in Ids

(* A msg_id nobody has used.                                               *)
Unclaimed(t) ==
    sent[t] = "unsent" /\ report[t] = "none" /\ \A p \in Procs : proc[p].text # t

(* load_config: a missing file gives the default configuration.            *)
LoadConfig == IF disk["config"] = Absent THEN DefaultPort ELSE disk["config"]

(* build_options, then load_identity: both fail on a torn file.  A node    *)
(* told a port with --listen-port uses that one, and there is nothing to   *)
(* say about it.                                                           *)
StartNode(p, cmd, t) ==
    /\ disk["config"] # Torn /\ IdentityLoads
    /\ (cmd = "send") <=> (t # Absent)
    /\ t # Absent => Unclaimed(t)
    /\ \A q \in Procs : proc[q].cmd # "init"
    /\ Begin(p, [cmd |-> cmd, pc |-> IF cmd = "send" THEN "connecting" ELSE "running",
                 file |-> Absent, id |-> disk["identity"], port |-> LoadConfig,
                 text |-> t])
    /\ UNCHANGED <<fileVars, history, writing, textVars, chosen, faults, cut, mishaps>>

Ends(p) == proc' = [proc EXCEPT ![p] = NoProc]

(* The node of p is waiting for the next event.                            *)
Polls(p) == /\ RunsNode(p) /\ writing[p] = <<>>
            /\ proc[p].pc \notin {"connected", "acked"}

AppendHistory(p, e) == writing' = [writing EXCEPT ![p] = <<e, NL>>]

(* The entry is written without its newline.                               *)
HistoryWriteNoNewline(p) ==
    /\ writing[p] # <<>>
    /\ history' = Append(history, Head(writing[p]))
    /\ writing' = [writing EXCEPT ![p] = <<>>]
    /\ UNCHANGED <<fileVars, proc, textVars, chosen, starts, faults, cut, mishaps>>

(* writeln! makes two writes, the entry and the newline, each an atomic    *)
(* append to the file.                                                     *)
HistoryWrite(p) ==
    /\ writing[p] # <<>>
    /\ history' = Append(history, Head(writing[p]))
    /\ writing' = [writing EXCEPT ![p] = Tail(@)]
    /\ mishaps' = mishaps +
          IF Head(writing[p]) # NL /\ \E q \in Procs : writing[q] = <<NL>>
          THEN 1 ELSE 0
    /\ UNCHANGED <<fileVars, proc, textVars, chosen, starts, faults, cut>>

(* on_session_event: SessionEstablished.  `send` goes on to its text.      *)
SessionEstablished(p) ==
    /\ Polls(p) /\ proc[p].pc \in {"connecting", "running"}
    /\ Goto(p, IF proc[p].cmd = "send" THEN "connected" ELSE "in session")
    /\ AppendHistory(p, Entry("session", Absent))
    /\ UNCHANGED <<fileVars, history, textVars, chosen, starts, faults, cut, mishaps>>

(* cmd_send hands its text to the session behaviour.                       *)
SendText(p) ==
    /\ At(p, "send", "connected")
    /\ Goto(p, "awaiting")
    /\ sent' = [sent EXCEPT ![proc[p].text] = "in flight"]
    /\ UNCHANGED <<fileVars, history, writing, report, inbox, chosen, starts,
                   faults, cut, mishaps>>

(* NodeCommand::Send: with or without a session, and the node carries on.  *)
SendCommand(p, t) ==
    /\ proc[p].cmd = "node" /\ Polls(p) /\ proc[p].text = Absent
    /\ Unclaimed(t)
    /\ proc' = [proc EXCEPT ![p].text = t]
    /\ sent' = [sent EXCEPT ![t] = "in flight"]
    /\ UNCHANGED <<fileVars, history, writing, report, inbox, chosen, starts,
                   faults, cut, mishaps>>

(* The other device takes the text and its ack sets out, whatever became   *)
(* of the process that sent it.                                            *)
Taken(t) ==
    /\ sent[t] = "in flight"
    /\ sent' = [sent EXCEPT ![t] = "taken"]
    /\ UNCHANGED <<fileVars, history, proc, writing, report, inbox, chosen,
                   starts, faults, cut, mishaps>>

(* wait_for returns before the node's handling of the event.               *)
AckSeenFirst(p, t) ==
    /\ Polls(p) /\ proc[p].text = t /\ sent[t] = "taken"
    /\ Goto(p, IF proc[p].cmd = "send" THEN "acked" ELSE proc[p].pc)
    /\ sent' = [sent EXCEPT ![t] = "acked"]
    /\ IF proc[p].cmd = "send" THEN UNCHANGED writing
                               ELSE AppendHistory(p, Entry("delivered", t))
    /\ UNCHANGED <<fileVars, history, report, inbox, chosen, starts, faults, cut, mishaps>>

(* on_session_event: AckReceived.  The entry is written before wait_for    *)
(* sees the event.                                                         *)
AckReceived(p, t) ==
    /\ Polls(p) /\ proc[p].text = t /\ sent[t] = "taken"
    /\ Goto(p, IF proc[p].cmd = "send" THEN "acked" ELSE proc[p].pc)
    /\ sent' = [sent EXCEPT ![t] = "acked"]
    /\ AppendHistory(p, Entry("delivered", t))
    /\ UNCHANGED <<fileVars, history, report, inbox, chosen, starts, faults, cut, mishaps>>

SayDelivered(p) ==
    /\ At(p, "send", "acked")
    /\ report' = [report EXCEPT ![proc[p].text] = "delivered"]
    /\ Ends(p)
    /\ UNCHANGED <<fileVars, history, writing, sent, inbox, chosen, starts,
                   faults, cut, mishaps>>

(* LOOKUP_TIMEOUT and SESSION_TIMEOUT pass: `send` bails.                  *)
SessionTimeout(p) ==
    /\ At(p, "send", "connecting")
    /\ report' = [report EXCEPT ![proc[p].text] = "no session"]
    /\ Ends(p)
    /\ UNCHANGED <<fileVars, history, writing, sent, inbox, chosen, starts,
                   faults, cut, mishaps>>

(* The wait for the ack ends only once the other device has answered.      *)
AckTimeoutAnswered(p) ==
    /\ At(p, "send", "awaiting") /\ sent[proc[p].text] # "in flight"
    /\ report' = [report EXCEPT ![proc[p].text] = "no ack"]
    /\ Ends(p)
    /\ UNCHANGED <<fileVars, history, writing, sent, inbox, chosen, starts,
                   faults, cut, mishaps>>

(* ACK_TIMEOUT passes; an ack event not yet handled is dropped.            *)
AckTimeout(p) ==
    /\ At(p, "send", "awaiting")
    /\ report' = [report EXCEPT ![proc[p].text] = "no ack"]
    /\ Ends(p)
    /\ UNCHANGED <<fileVars, history, writing, sent, inbox, chosen, starts,
                   faults, cut, mishaps>>

(* A text comes in: the session behaviour queues its ack and the event.    *)
TextArrives(p, t) ==
    /\ Polls(p) /\ proc[p].pc \notin {"connecting", "running"}
    /\ inbox[t].at = "away"
    /\ inbox' = [inbox EXCEPT ![t] = [at |-> "acked", by |-> p]]
    /\ UNCHANGED <<fileVars, history, proc, writing, sent, report, chosen,
                   starts, faults, cut, mishaps>>

(* Events other than the awaited ack are dropped while one is awaited.     *)
MessageMissed(p, t) ==
    /\ Polls(p) /\ inbox[t] = [at |-> "acked", by |-> p]
    /\ inbox' = [inbox EXCEPT ![t].at = "shown"]
    /\ IF proc[p].text # Absent THEN UNCHANGED writing
                                ELSE AppendHistory(p, Entry("received", t))
    /\ UNCHANGED <<fileVars, history, proc, sent, report, chosen, starts,
                   faults, cut, mishaps>>

(* on_session_event: MessageReceived.                                      *)
MessageReceived(p, t) ==
    /\ Polls(p) /\ inbox[t] = [at |-> "acked", by |-> p]
    /\ inbox' = [inbox EXCEPT ![t].at = "shown"]
    /\ AppendHistory(p, Entry("received", t))
    /\ UNCHANGED <<fileVars, history, proc, sent, report, chosen, starts,
                   faults, cut, mishaps>>

(* `quit`, or the end of standard input; the end of the fixed time that    *)
(* `lookup` and `peers` run for.                                           *)
Quit(p) ==
    /\ proc[p].cmd = "node" /\ Polls(p)
    /\ Ends(p)
    /\ UNCHANGED <<fileVars, history, writing, textVars, chosen, starts,
                   faults, cut, mishaps>>

-----------------------------------------------------------------------------
(* Faults.                                                                 *)

Fault == faults < MaxFaults /\ faults' = faults + 1

(* The process is killed, or a call of write_atomic fails and `init` ends  *)
(* with the error: the disk is left as it is.                              *)
Killed(p) ==
    /\ Fault /\ proc[p] # NoProc
    /\ Ends(p)
    /\ writing' = [writing EXCEPT ![p] = <<>>]
    /\ mishaps' = mishaps + IF writing[p] = <<NL>> THEN 1 ELSE 0
    /\ UNCHANGED <<fileVars, history, textVars, chosen, starts, cut>>

(* A write to the log fails, at once or part of the way; the node ignores  *)
(* it and carries on.                                                      *)
HistoryError(p) ==
    /\ Fault /\ writing[p] # <<>>
    /\ \/ UNCHANGED history
       \/ Head(writing[p]) # NL /\ history' = Append(history, Torn)
    /\ writing' = [writing EXCEPT ![p] = <<>>]
    /\ mishaps' = mishaps + 1 +
          IF history' # history /\ \E q \in Procs : writing[q] = <<NL>> THEN 1 ELSE 0
    /\ UNCHANGED <<fileVars, proc, textVars, chosen, starts, cut>>

(* What the log may be cut back to: it is never synced.                    *)
Cut(n) ==
    {SubSeq(history, 1, n)}
    \cup IF n < Len(history) /\ history[n + 1] # NL
         THEN {Append(SubSeq(history, 1, n), Torn)} ELSE {}

PowerLoss ==
    /\ Fault /\ cut' = TRUE
    /\ \E kept \in [Files -> Ids \cup Ports \cup {Absent, Torn}] :
          /\ \A f \in Files : kept[f] \in survives[f]
          /\ disk' = kept
          /\ survives' = [f \in Files |-> {kept[f]}]
    /\ tmp' = [f \in Files |-> [content |-> Absent, synced |-> FALSE]]
    /\ \E n \in 0..Len(history) : history' \in Cut(n)
    /\ proc' = [p \in Procs |-> NoProc]
    /\ writing' = [p \in Procs |-> <<>>]
    /\ mishaps' = mishaps + 1
    /\ UNCHANGED <<textVars, chosen, starts>>

(* The file system has written its renames back.                           *)
Settle ==
    /\ survives' = [f \in Files |-> {disk[f]}]
    /\ survives' # survives
    /\ UNCHANGED <<disk, tmp, history, proc, writing, textVars, chosen, starts,
                   faults, cut, mishaps>>

-----------------------------------------------------------------------------
Starts(p) ==
    \/ \E option \in Ports \cup {Absent} : StartInit(p, option)
    \/ \E cmd \in {"node", "send"}, t \in Texts \cup {Absent} : StartNode(p, cmd, t)

(* What a process does by itself, whatever the world does.                 *)
Runs(p) ==
    \/ \E f \in Files : WriteAtomic(p, f)
    \/ SayCreated(p)
    \/ HistoryWrite(p)
    \/ SendText(p) \/ SayDelivered(p)
    \/ SessionTimeout(p) \/ AckTimeout(p)

Next ==
    \/ \E p \in Procs :
          \/ Starts(p) \/ Runs(p)
          \/ SessionEstablished(p)
          \/ \E t \in Texts : SendCommand(p, t) \/ AckReceived(p, t)
          \/ \E t \in Inbox : TextArrives(p, t) \/ MessageReceived(p, t)
          \/ Quit(p)
          \/ Killed(p) \/ HistoryError(p)
    \/ \E t \in Texts : Taken(t)
    \/ PowerLoss
    \/ Settle

(* The scheduler runs a process that is able to, timers fire, and the loop *)
(* of a node comes round to every event.                                   *)
Fairness ==
    \A p \in Procs :
       /\ WF_vars(Runs(p))
       /\ WF_vars(\E t \in Inbox : MessageReceived(p, t))

Spec == Init /\ [][Next]_vars /\ Fairness

-----------------------------------------------------------------------------
ProcType ==
    [cmd : {"none", "init", "node", "send"},
     pc : {"none", "create", "write", "sync", "rename", "done", "connecting",
           "running", "in session", "connected", "awaiting", "acked"},
     file : Files \cup {Absent}, id : Ids \cup {Absent},
     port : Ports \cup {Absent}, text : Texts \cup {Absent}]

(* Types; a file that a command may read holds a whole value of its kind,  *)
(* or is not there.                                                        *)
TypeOK ==
    /\ \A f \in Files :
          /\ disk[f] \in Contents(f) \cup {Absent}
          /\ tmp[f].content \in Contents(f) \cup {Absent, Torn}
          /\ tmp[f].synced \in BOOLEAN
    /\ history \in Seq(Entries \cup {NL, Torn})
    /\ proc \in [Procs -> ProcType]
    /\ \A p \in Procs : writing[p] \in {<<>>, <<NL>>} \cup {<<e, NL>> : e \in Entries}
    /\ sent \in [Texts -> {"unsent", "in flight", "taken", "acked"}]
    /\ report \in [Texts -> {"none", "no session", "no ack", "delivered"}]
    /\ chosen \in [Ids -> Ports \cup {Absent}]
    /\ starts \in 0..MaxStarts /\ faults \in 0..MaxFaults /\ mishaps \in Nat

(* A power cut at any moment leaves an identity and a configuration that   *)
(* load_identity and load_config read, or no file at all, never a torn one *)
(* (write_atomic syncs before it renames).  The same holds of what a       *)
(* command may find while they are being written (TypeOK).                 *)
CutsLeaveWholeFiles ==
    /\ TypeOK
    /\ \A f \in Files : survives[f] \subseteq Contents(f) \cup {Absent}

(* Once the identity is on stable storage no sequence of commands, kills   *)
(* and power cuts replaces or removes it: `init` refuses to run over it,   *)
(* also when it was cut short before the configuration (cmd_init).         *)
IdentityIsKept ==
    [][\A i \in Ids : survives["identity"] = {i}
          => survives'["identity"] = {i} /\ disk'["identity"] = i]_vars

(* Every node on the directory is the device stored in it, and a node      *)
(* started without --listen-port listens on the port its `init` was told   *)
(* when that said "identity created" and the power held since; otherwise   *)
(* it may fall back to the default port (load_config).                     *)
NodesAreTheDevice ==
    \A p \in Procs : RunsNode(p) =>
       /\ proc[p].id = disk["identity"]
       /\ chosen[proc[p].id] # Absent /\ ~cut => proc[p].port = chosen[proc[p].id]

Logged(e) == \E n \in 1..Len(history) : history[n] = e

(* What `send` and the log say is so: "delivered" only of a text the other *)
(* device acknowledged, and then it is in the log too, unless a fault hit  *)
(* it; "could not establish" only of a text that never left.  (Nothing     *)
(* follows from "no acknowledgement".)                                     *)
ReportsAreTrue ==
    \A t \in Texts :
       /\ report[t] = "delivered" /\ faults = 0 => Logged(Entry("delivered", t))
       /\ report[t] = "delivered" \/ Logged(Entry("delivered", t)) => sent[t] = "acked"
       /\ report[t] = "no session" => sent[t] = "unsent"

(* Places where two entries share a line of the log.                       *)
Joints == {n \in 1..Len(history) - 1 : history[n] # NL /\ history[n + 1] # NL}

(* A line of history.jsonl holds more than one entry only where an append  *)
(* was cut short or two processes were in the middle of an append at once, *)
(* and each such mishap spoils one line (append_history makes two writes). *)
LogDamageIsBounded == Cardinality(Joints) <= mishaps

(* A `send` command is at work on text t.                                  *)
Sending(t) == \E p \in Procs : proc[p].cmd = "send" /\ proc[p].text = t

(* A `send` ends by itself, whatever the network and the other device do   *)
(* (cmd_send waits with timeouts throughout).                              *)
SendEnds ==
    \A t \in Texts : Sending(t) ~> ~Sending(t)

(* A text this device has acknowledged reaches its log, unless the process *)
(* ends first or a fault hits it (on_session_event, MessageReceived).      *)
AckedIsLogged ==
    \A t \in Inbox :
       inbox[t].at = "acked"
          ~> \/ Logged(Entry("received", t))
             \/ inbox[t].by \in Procs /\ proc[inbox[t].by] = NoProc
             \/ faults > 0

=============================================================================
