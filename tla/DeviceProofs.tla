--------------------------- MODULE DeviceProofs ---------------------------
(***************************************************************************)
(* For any number of processes, identities, ports, texts and faults: what  *)
(* write_atomic, init and the node commands promise of the data directory, *)
(* of the reports of `send` and of the log.                                *)
(***************************************************************************)
EXTENDS Device, FiniteSetTheorems, SequenceTheorems, TLAPS

-----------------------------------------------------------------------------
(* The invariant of the files.  Books and FileTypes are TypeOK with the    *)
(* domains of the tables.                                                  *)

Values == Ids \cup Ports \cup {Absent, Torn}

Appends == {<<>>, <<NL>>} \cup {<<e, NL>> : e \in Entries}

Books ==
    /\ history \in Seq(Entries \cup {NL, Torn})
    /\ proc \in [Procs -> ProcType]
    /\ writing \in [Procs -> Appends]
    /\ sent \in [Texts -> {"unsent", "in flight", "taken", "acked"}]
    /\ report \in [Texts -> {"none", "no session", "no ack", "delivered"}]
    /\ chosen \in [Ids -> Ports \cup {Absent}]
    /\ starts \in 0..MaxStarts /\ faults \in 0..MaxFaults /\ mishaps \in Nat

FileTypes ==
    /\ disk \in [Files -> Values]
    /\ tmp \in [Files -> [content : Values, synced : BOOLEAN]]
    /\ survives \in [Files -> SUBSET Values]
    /\ \A f \in Files :
          /\ disk[f] \in Contents(f) \cup {Absent}
          /\ tmp[f].content \in Contents(f) \cup {Absent, Torn}
          /\ survives[f] \subseteq Contents(f) \cup {Absent}

(* What a reader finds now is among what a power cut may leave.            *)
DiskSurvives == \A f \in Files : disk[f] \in survives[f]

(* `init` runs by itself.                                                  *)
InitIsAlone == \A p, q \in Procs : proc[p].cmd = "init" /\ p # q => proc[q] = NoProc

(* Where `init` has got to, and what it has done by then.                  *)
InitPlace(p) ==
    LET f == proc[p].file IN
    /\ f \in Files /\ proc[p].id \in Ids /\ proc[p].port \in Ports
    /\ proc[p].pc \in {"create", "write", "sync", "rename", "done"}
    /\ proc[p].pc \in {"sync", "rename"} => tmp[f].content = Saved(p, f)
    /\ proc[p].pc = "rename" => tmp[f].synced
    /\ f = "identity" => disk["identity"] = Absent /\ proc[p].pc # "done"
    /\ f = "config" => disk["identity"] = proc[p].id
    /\ proc[p].pc = "done" => disk["config"] = proc[p].port
    /\ chosen[proc[p].id] = Absent

InitPlaces == \A p \in Procs : proc[p].cmd = "init" => InitPlace(p)

(* The configuration of a device that was created is the one it was told.  *)
ConfigKept ==
    \A i \in Ids : chosen[i] # Absent /\ ~cut /\ disk["identity"] = i => disk["config"] = chosen[i]

Directory ==
    /\ FileTypes /\ DiskSurvives /\ InitIsAlone
    /\ InitPlaces /\ ConfigKept /\ NodesAreTheDevice

FilesInv == Books /\ Directory

-----------------------------------------------------------------------------
(* The invariant of the texts.                                             *)

(* A text is one command's business, and nothing was said of it before     *)
(* that command ends.                                                      *)
TextsOwned ==
    \A p \in Procs : proc[p].text # Absent =>
       /\ report[proc[p].text] = "none"
       /\ \A q \in Procs : q # p => proc[q].text # proc[p].text

(* How far a `send` has got with its text.                                 *)
SendPlace(p) ==
    LET t == proc[p].text IN
    /\ t \in Texts /\ proc[p].pc # "running"
    /\ proc[p].pc \in {"connecting", "connected"} => sent[t] = "unsent"
    /\ proc[p].pc = "acked" =>
          /\ sent[t] = "acked"
          /\ faults = 0 => \/ writing[p] = <<Entry("delivered", t), NL>>
                           \/ Logged(Entry("delivered", t))

SendPlaces == \A p \in Procs : proc[p].cmd = "send" => SendPlace(p)

(* An entry about to be written is true.                                   *)
WritesAreTrue ==
    \A p \in Procs, t \in Texts :
       writing[p] = <<Entry("delivered", t), NL>> => sent[t] = "acked"

TextsInv == ReportsAreTrue /\ TextsOwned /\ SendPlaces /\ WritesAreTrue

-----------------------------------------------------------------------------
(* The invariant of the log.                                               *)

(* The last line is open, and the process that was to end it is gone.      *)
Dangling ==
    /\ history # <<>> /\ history[Len(history)] # NL
    /\ \A q \in Procs : writing[q] # <<NL>>

LogInv == Cardinality(Joints) + (IF Dangling THEN 1 ELSE 0) <= mishaps

-----------------------------------------------------------------------------
(* Facts about the operators.                                              *)

Pcs == {"none", "create", "write", "sync", "rename", "done", "connecting",
        "running", "in session", "connected", "awaiting", "acked"}

(* NoProc is a process record, of no command.                              *)
LEMMA NoProcFacts ==
    /\ NoProc \in ProcType /\ NoProc.cmd = "none" /\ NoProc.text = Absent
BY DEF NoProc, ProcType

(* A command that moves on keeps everything but its place.                 *)
LEMMA GotoFacts ==
    ASSUME proc \in [Procs -> ProcType], NEW p \in Procs, NEW c \in Pcs, Goto(p, c)
    PROVE  /\ proc' \in [Procs -> ProcType]
           /\ proc'[p].cmd = proc[p].cmd /\ proc'[p].pc = c /\ proc'[p].file = proc[p].file
           /\ proc'[p].id = proc[p].id /\ proc'[p].port = proc[p].port
           /\ proc'[p].text = proc[p].text
           /\ \A q \in Procs : q # p => proc'[q] = proc[q]
BY DEF Goto, ProcType, Pcs

(* `init` turns to the configuration.                                      *)
LEMMA NextFileFacts ==
    ASSUME proc \in [Procs -> ProcType], NEW p \in Procs, NEW c \in Pcs,
           proc' = [proc EXCEPT ![p].pc = c, ![p].file = "config"]
    PROVE  /\ proc' \in [Procs -> ProcType]
           /\ proc'[p].cmd = proc[p].cmd /\ proc'[p].pc = c /\ proc'[p].file = "config"
           /\ proc'[p].id = proc[p].id /\ proc'[p].port = proc[p].port
           /\ proc'[p].text = proc[p].text
           /\ \A q \in Procs : q # p => proc'[q] = proc[q]
<1>. DEFINE r == [[proc[p] EXCEPT !.pc = c] EXCEPT !.file = "config"]
<1>1. proc[p] \in ProcType
  OBVIOUS
<1>2. /\ r \in ProcType /\ r.cmd = proc[p].cmd /\ r.pc = c /\ r.file = "config"
      /\ r.id = proc[p].id /\ r.port = proc[p].port /\ r.text = proc[p].text
  BY <1>1 DEF ProcType, Pcs, Files
<1>3. proc' = [proc EXCEPT ![p] = r]
  OBVIOUS
<1>. HIDE DEF r
<1>. QED
  BY <1>2, <1>3

(* A node takes up a text.                                                 *)
LEMMA ClaimFacts ==
    ASSUME proc \in [Procs -> ProcType], NEW p \in Procs, NEW t \in Texts,
           proc' = [proc EXCEPT ![p].text = t]
    PROVE  /\ proc' \in [Procs -> ProcType]
           /\ proc'[p].cmd = proc[p].cmd /\ proc'[p].pc = proc[p].pc
           /\ proc'[p].file = proc[p].file
           /\ proc'[p].id = proc[p].id /\ proc'[p].port = proc[p].port
           /\ proc'[p].text = t
           /\ \A q \in Procs : q # p => proc'[q] = proc[q]
BY DEF ProcType

(* A command that ends leaves an idle process.                             *)
LEMMA EndsFacts ==
    ASSUME proc \in [Procs -> ProcType], NEW p \in Procs, Ends(p)
    PROVE  /\ proc' \in [Procs -> ProcType] /\ proc'[p] = NoProc
           /\ \A q \in Procs : q # p => proc'[q] = proc[q]
BY NoProcFacts DEF Ends

(* A command that begins takes the place of an idle process.               *)
LEMMA BeginFacts ==
    ASSUME proc \in [Procs -> ProcType], starts \in 0..MaxStarts, NEW p \in Procs,
           NEW new \in ProcType, Begin(p, new)
    PROVE  /\ proc' \in [Procs -> ProcType] /\ proc[p] = NoProc /\ proc'[p] = new
           /\ \A q \in Procs : q # p => proc'[q] = proc[q]
           /\ starts' \in 0..MaxStarts
BY DeviceBoundsAssumption DEF Begin

(* The two writes of writeln!: the entry, then the newline.                *)
LEMMA WritingFacts ==
    ASSUME NEW w \in Appends, w # <<>>
    PROVE  \/ w = <<NL>> /\ Head(w) = NL /\ Tail(w) = <<>>
           \/ \E e \in Entries : /\ w = <<e, NL>> /\ Head(w) = e /\ Tail(w) = <<NL>>
                                 /\ e # NL /\ e # Torn /\ w # <<NL>>
<1>1. CASE w = <<NL>>
  BY <1>1
<1>2. ASSUME NEW e \in Entries, w = <<e, NL>>
      PROVE  Head(w) = e /\ Tail(w) = <<NL>> /\ e # NL /\ e # Torn /\ w # <<NL>>
  <2>1. e # NL /\ e # Torn
    BY LogAssumption
  <2>2. Head(<<e, NL>>) = e
    OBVIOUS
  <2>3. Tail(<<e, NL>>) = <<NL>>
    OBVIOUS
  <2>4. <<e, NL>> # <<NL>>
    OBVIOUS
  <2>. QED
    BY <1>2, <2>1, <2>2, <2>3, <2>4
<1>. QED
  BY <1>1, <1>2 DEF Appends

(* What a power cut leaves of the log: a prefix, or a prefix and a piece   *)
(* of the entry after it.                                                  *)
LEMMA CutFacts ==
    ASSUME NEW S, history \in Seq(S), Torn \in S, NEW n \in 0..Len(history), NEW h \in Cut(n)
    PROVE  /\ h \in Seq(S)
           /\ \A i \in 1..n : h[i] = history[i]
           /\ \/ Len(h) = n
              \/ /\ Len(h) = n + 1 /\ h[n + 1] = Torn
                 /\ n + 1 \in 1..Len(history) /\ history[n + 1] # NL
<1>. DEFINE s == SubSeq(history, 1, n)
<1>1. Len(history) \in Nat /\ n \in Nat /\ n <= Len(history)
  OBVIOUS
<1>2. \A i \in 1..n : history[i] \in S
  BY <1>1
<1>3. s \in Seq(S) /\ Len(s) = n /\ \A i \in 1..n : s[i] = history[i]
  <2>1. /\ s \in Seq(S) /\ Len(s) = IF 1 <= n THEN n - 1 + 1 ELSE 0
        /\ \A i \in 1..(n - 1 + 1) : s[i] = history[1 + i - 1]
    BY <1>1, <1>2, SubSeqProperties
  <2>. QED
    BY <1>1, <2>1
<1>. HIDE DEF s
<1>4. CASE h = s
  BY <1>3, <1>4
<1>5. CASE h = Append(s, Torn) /\ n < Len(history) /\ history[n + 1] # NL
  BY <1>1, <1>3, <1>5
<1>. QED
  BY <1>1, <1>4, <1>5 DEF Cut, s

-----------------------------------------------------------------------------
(* Types of everything but the files.                                      *)

(* Logging an event is a pair of writes to come.                           *)
LEMMA AppendFacts ==
    ASSUME writing \in [Procs -> Appends], NEW p \in Procs, NEW e \in Entries,
           AppendHistory(p, e)
    PROVE  /\ writing' \in [Procs -> Appends] /\ writing'[p] = <<e, NL>>
           /\ \A q \in Procs : q # p => writing'[q] = writing[q]
<1>1. <<e, NL>> \in Appends
  BY DEF Appends
<1>. QED
  BY <1>1 DEF AppendHistory

(* The entries that events log.                                            *)
LEMMA EntryFacts ==
    /\ Entry("session", Absent) \in Entries
    /\ \A t \in Texts : Entry("delivered", t) \in Entries
    /\ \A t \in Inbox : Entry("received", t) \in Entries
BY DEF Entries

(* The commands of `init` keep the books.                                  *)
LEMMA BooksInit ==
    ASSUME Books, NEW p \in Procs,
           \/ \E option \in Ports \cup {Absent} : StartInit(p, option)
           \/ \E f \in Files : WriteAtomic(p, f)
           \/ SayCreated(p)
    PROVE  Books'
<1>. USE DEF Books
<1>1. ASSUME NEW option \in Ports \cup {Absent}, StartInit(p, option) PROVE Books'
  <2>. DEFINE new == [NoProc EXCEPT
                        !.cmd = "init", !.pc = "create", !.file = "identity",
                        !.id = CHOOSE i \in FreshIds : TRUE,
                        !.port = IF option = Absent THEN DefaultPort ELSE option]
  <2>1. (CHOOSE i \in FreshIds : TRUE) \in Ids
    BY <1>1 DEF StartInit, FreshIds
  <2>2. new \in ProcType
    BY <2>1, PortAssumption DEF NoProc, ProcType, Files
  <2>3. Begin(p, new)
    BY <1>1 DEF StartInit
  <2>. HIDE DEF new
  <2>4. proc' \in [Procs -> ProcType] /\ starts' \in 0..MaxStarts
    BY <2>2, <2>3, BeginFacts
  <2>. QED
    BY <1>1, <2>4 DEF StartInit, textVars
<1>2. ASSUME NEW f \in Files, WriteAtomic(p, f) PROVE Books'
  <2>1. proc' \in [Procs -> ProcType]
    <3>1. CASE CreateTmp(p, f) \/ WriteTmp(p, f) \/ SyncTmp(p, f)
      <4>1. PICK c \in {"write", "sync", "rename"} : Goto(p, c)
        BY <3>1 DEF CreateTmp, WriteTmp, SyncTmp
      <4>. QED
        BY <4>1, GotoFacts DEF Pcs
    <3>2. CASE Rename(p, f)
      BY <3>2, NextFileFacts DEF Rename, Pcs
    <3>. QED
      BY <1>2, <3>1, <3>2 DEF WriteAtomic
  <2>. QED
    BY <1>2, <2>1 DEF WriteAtomic, textVars
<1>3. CASE SayCreated(p)
  <2>1. proc' \in [Procs -> ProcType]
    BY <1>3, NoProcFacts DEF SayCreated
  <2>2. chosen' \in [Ids -> Ports \cup {Absent}]
    BY <1>3 DEF SayCreated, ProcType
  <2>. QED
    BY <1>3, <2>1, <2>2 DEF SayCreated, textVars
<1>. QED
  BY <1>1, <1>2, <1>3

(* The commands that run a node keep the books.                            *)
LEMMA BooksNode ==
    ASSUME Books, NEW p \in Procs,
           \/ SessionEstablished(p) \/ SendText(p) \/ SayDelivered(p)
           \/ SessionTimeout(p) \/ AckTimeout(p) \/ Quit(p)
           \/ \E t \in Texts : SendCommand(p, t) \/ AckReceived(p, t) \/ Taken(t)
           \/ \E t \in Inbox : TextArrives(p, t) \/ MessageReceived(p, t)
    PROVE  Books'
<1>. USE DEF Books
<1>1. CASE SessionEstablished(p)
  <2>1. PICK c \in {"connected", "in session"} : Goto(p, c)
    BY <1>1 DEF SessionEstablished
  <2>3. proc' \in [Procs -> ProcType]
    BY <2>1, GotoFacts DEF Pcs
  <2>2. writing' \in [Procs -> Appends]
    BY <1>1, AppendFacts, EntryFacts DEF SessionEstablished
  <2>. QED
    BY <1>1, <2>2, <2>3 DEF SessionEstablished, textVars
<1>2. CASE SendText(p)
  <2>1. proc' \in [Procs -> ProcType]
    BY <1>2, GotoFacts DEF SendText, Pcs
  <2>. QED
    BY <1>2, <2>1 DEF SendText
<1>3. CASE SayDelivered(p) \/ SessionTimeout(p) \/ AckTimeout(p)
  <2>1. proc' \in [Procs -> ProcType]
    BY <1>3, EndsFacts DEF SayDelivered, SessionTimeout, AckTimeout
  <2>. QED
    BY <1>3, <2>1 DEF SayDelivered, SessionTimeout, AckTimeout
<1>4. CASE Quit(p)
  BY <1>4, EndsFacts DEF Quit, textVars
<1>5. ASSUME NEW t \in Texts, SendCommand(p, t) PROVE Books'
  <2>1. proc' \in [Procs -> ProcType]
    BY <1>5, ClaimFacts DEF SendCommand
  <2>. QED
    BY <1>5, <2>1 DEF SendCommand
<1>6. ASSUME NEW t \in Texts, AckReceived(p, t) PROVE Books'
  <2>1. proc[p].pc \in Pcs
    BY DEF ProcType, Pcs
  <2>2. proc' \in [Procs -> ProcType]
    BY <1>6, <2>1, GotoFacts DEF AckReceived, Pcs
  <2>3. writing' \in [Procs -> Appends]
    BY <1>6, AppendFacts, EntryFacts DEF AckReceived
  <2>. QED
    BY <1>6, <2>2, <2>3 DEF AckReceived
<1>7. ASSUME NEW t \in Texts, Taken(t) PROVE Books'
  BY <1>7 DEF Taken
<1>8. ASSUME NEW t \in Inbox, TextArrives(p, t) PROVE Books'
  BY <1>8 DEF TextArrives
<1>9. ASSUME NEW t \in Inbox, MessageReceived(p, t) PROVE Books'
  <2>1. writing' \in [Procs -> Appends]
    BY <1>9, AppendFacts, EntryFacts DEF MessageReceived
  <2>. QED
    BY <1>9, <2>1 DEF MessageReceived
<1>. QED
  BY <1>1, <1>2, <1>3, <1>4, <1>5, <1>6, <1>7, <1>8, <1>9

(* The count of faults stays within its bound.                             *)
LEMMA FaultFacts ==
    ASSUME faults \in 0..MaxFaults, Fault
    PROVE  faults' \in 0..MaxFaults /\ faults' # 0
BY DeviceBoundsAssumption DEF Fault

(* Writes to the log and faults keep the books.                            *)
LEMMA BooksFaults ==
    ASSUME Books,
           \/ \E p \in Procs : HistoryWrite(p) \/ Killed(p) \/ HistoryError(p)
           \/ PowerLoss \/ Settle
    PROVE  Books'
<1>. USE DEF Books
<1>. DEFINE S == Entries \cup {NL, Torn}
<1>0. <<>> \in Appends /\ <<NL>> \in Appends
  BY DEF Appends
<1>1. ASSUME NEW p \in Procs, HistoryWrite(p) PROVE Books'
  <2>1. writing[p] \in Appends /\ writing[p] # <<>>
    BY <1>1 DEF HistoryWrite
  <2>2. Head(writing[p]) \in S /\ Tail(writing[p]) \in Appends
    BY <1>0, <2>1, WritingFacts
  <2>3. history' \in Seq(S)
    <3>1. history \in Seq(S) /\ history' = Append(history, Head(writing[p]))
      BY <1>1 DEF HistoryWrite
    <3>. QED
      BY <2>2, <3>1, AppendProperties
  <2>4. writing' \in [Procs -> Appends]
    BY <1>1, <2>2 DEF HistoryWrite
  <2>5. mishaps' \in Nat
    <3>1. mishaps \in Nat /\ (mishaps' = mishaps + 1 \/ mishaps' = mishaps + 0)
      BY <1>1, Zenon DEF HistoryWrite
    <3>. HIDE DEF Books
    <3>. QED
      BY <3>1
  <2>. QED
    BY <1>1, <2>3, <2>4, <2>5 DEF HistoryWrite, textVars
<1>2. ASSUME NEW p \in Procs, Killed(p) PROVE Books'
  <2>1. proc' \in [Procs -> ProcType]
    BY <1>2, EndsFacts DEF Killed
  <2>2. writing' \in [Procs -> Appends]
    BY <1>0, <1>2 DEF Killed
  <2>3. faults' \in 0..MaxFaults
    BY <1>2, FaultFacts DEF Killed
  <2>4. mishaps' \in Nat
    <3>1. mishaps \in Nat /\ (mishaps' = mishaps + 1 \/ mishaps' = mishaps + 0)
      BY <1>2, Zenon DEF Killed
    <3>. HIDE DEF Books
    <3>. QED
      BY <3>1
  <2>. QED
    BY <1>2, <2>1, <2>2, <2>3, <2>4 DEF Killed, textVars
<1>3. ASSUME NEW p \in Procs, HistoryError(p) PROVE Books'
  <2>1. writing' \in [Procs -> Appends]
    BY <1>0, <1>3 DEF HistoryError
  <2>2. faults' \in 0..MaxFaults
    BY <1>3, FaultFacts DEF HistoryError
  <2>4. mishaps' \in Nat
    <3>1. mishaps \in Nat /\ (mishaps' = mishaps + 1 + 1 \/ mishaps' = mishaps + 1 + 0)
      BY <1>3, Zenon DEF HistoryError
    <3>. HIDE DEF Books
    <3>. QED
      BY <3>1
  <2>3. history' \in Seq(S)
    <3>1. history \in Seq(S) /\ Torn \in S /\ (history' = history \/ history' = Append(history, Torn))
      BY <1>3 DEF HistoryError
    <3>. HIDE DEF Books, S
    <3>. QED
      BY <3>1, AppendProperties
  <2>. QED
    BY <1>3, <2>1, <2>2, <2>3, <2>4 DEF HistoryError, textVars
<1>4. CASE PowerLoss
  <2>1. proc' \in [Procs -> ProcType]
    BY <1>4, NoProcFacts DEF PowerLoss
  <2>2. writing' \in [Procs -> Appends]
    BY <1>0, <1>4 DEF PowerLoss
  <2>3. faults' \in 0..MaxFaults /\ mishaps' \in Nat
    <3>1. mishaps \in Nat /\ mishaps' = mishaps + 1 /\ faults \in 0..MaxFaults /\ Fault
      BY <1>4 DEF PowerLoss
    <3>. HIDE DEF Books
    <3>. QED
      BY <3>1, FaultFacts
  <2>4. history' \in Seq(S)
    <3>1. PICK n \in 0..Len(history) : history' \in Cut(n)
      BY <1>4 DEF PowerLoss
    <3>. QED
      BY <3>1, CutFacts
  <2>. QED
    BY <1>4, <2>1, <2>2, <2>3, <2>4 DEF PowerLoss, textVars
<1>5. CASE Settle
  BY <1>5 DEF Settle, textVars
<1>. QED
  BY <1>1, <1>2, <1>3, <1>4, <1>5

(* A node that starts is a process record with what it has loaded.         *)
LEMMA StartNodeFacts ==
    ASSUME Books, FileTypes, NEW p \in Procs, NEW cmd \in {"node", "send"},
           NEW t \in Texts \cup {Absent}, StartNode(p, cmd, t)
    PROVE  /\ proc' \in [Procs -> ProcType] /\ starts' \in 0..MaxStarts /\ proc[p] = NoProc
           /\ proc'[p].cmd = cmd /\ proc'[p].text = t
           /\ proc'[p].pc = IF cmd = "send" THEN "connecting" ELSE "running"
           /\ proc'[p].id = disk["identity"] /\ disk["identity"] \in Ids
           /\ proc'[p].port = LoadConfig
           /\ \A q \in Procs : q # p => proc'[q] = proc[q]
<1>. DEFINE new == [cmd |-> cmd, pc |-> IF cmd = "send" THEN "connecting" ELSE "running",
                    file |-> Absent, id |-> disk["identity"], port |-> LoadConfig, text |-> t]
<1>1. disk["identity"] \in Ids
  BY DEF StartNode, IdentityLoads
<1>2. LoadConfig \in Ports
  <2>1. disk["config"] \in Ports \cup {Absent}
    BY DEF FileTypes, Files, Contents
  <2>. QED
    BY <2>1, PortAssumption DEF LoadConfig
<1>3. new \in ProcType
  BY <1>1, <1>2 DEF ProcType
<1>4. Begin(p, new)
  BY DEF StartNode
<1>5. /\ new.cmd = cmd /\ new.text = t /\ new.id = disk["identity"] /\ new.port = LoadConfig
      /\ new.pc = IF cmd = "send" THEN "connecting" ELSE "running"
  OBVIOUS
<1>. HIDE DEF new
<1>6. /\ proc' \in [Procs -> ProcType] /\ proc[p] = NoProc /\ proc'[p] = new
      /\ \A q \in Procs : q # p => proc'[q] = proc[q]
      /\ starts' \in 0..MaxStarts
  BY <1>3, <1>4, BeginFacts DEF Books
<1>. QED
  BY <1>1, <1>5, <1>6

(* Every step keeps the books.                                             *)
LEMMA BooksStep ==
    ASSUME Books, FileTypes, Next
    PROVE  Books'
<1>1. ASSUME NEW p \in Procs, NEW cmd \in {"node", "send"}, NEW t \in Texts \cup {Absent},
             StartNode(p, cmd, t)
      PROVE  Books'
  <2>1. proc' \in [Procs -> ProcType] /\ starts' \in 0..MaxStarts
    BY <1>1, StartNodeFacts
  <2>. QED
    BY <1>1, <2>1 DEF StartNode, Books, textVars
<1>2. ASSUME NEW p \in Procs, NEW t \in Texts, Taken(t) PROVE Books'
  BY <1>2, BooksNode
<1>3. ASSUME NEW t \in Texts, Taken(t) PROVE Books'
  BY <1>3 DEF Taken, Books
<1>4. ASSUME NEW p \in Procs, Starts(p) PROVE Books'
  BY <1>1, <1>4, BooksInit DEF Starts
<1>5. ASSUME NEW p \in Procs, Runs(p) PROVE Books'
  BY <1>5, BooksInit, BooksNode, BooksFaults DEF Runs
<1>. QED
  BY <1>3, <1>4, <1>5, BooksNode, BooksFaults DEF Next

-----------------------------------------------------------------------------
(* Steps and the data directory.                                           *)

(* p ends, stays as it is, or is a node that moves on.                     *)
Quietly(p) ==
    \/ proc'[p] = NoProc
    \/ proc'[p] = proc[p]
    \/ /\ RunsNode(p) /\ proc'[p].cmd = proc[p].cmd
       /\ proc'[p].id = proc[p].id /\ proc'[p].port = proc[p].port

(* Most steps leave the directory alone.                                   *)
LEMMA QuietStep ==
    ASSUME FilesInv, \A p \in Procs : Quietly(p), UNCHANGED <<fileVars, chosen, cut>>
    PROVE  Directory'
<1>. USE DEF FilesInv, Directory, fileVars
<1>1. FileTypes' /\ DiskSurvives' /\ ConfigKept'
  BY DEF FileTypes, DiskSurvives, ConfigKept
<1>2. \A p \in Procs : proc'[p].cmd = "init" => proc'[p] = proc[p]
  BY NoProcFacts DEF Quietly, RunsNode
<1>3. \A p \in Procs : proc[p] = NoProc => proc'[p] = NoProc
  BY NoProcFacts DEF Quietly, RunsNode
<1>4. InitIsAlone'
  BY <1>2, <1>3 DEF InitIsAlone
<1>5. InitPlaces'
  <2>. SUFFICES ASSUME NEW p \in Procs, proc'[p].cmd = "init" PROVE InitPlace(p)'
    BY DEF InitPlaces
  <2>1. proc'[p] = proc[p]
    BY <1>2
  <2>2. InitPlace(p)
    BY <2>1 DEF InitPlaces
  <2>. QED
    BY <2>1, <2>2 DEF InitPlace, Saved
<1>6. NodesAreTheDevice'
  <2>. SUFFICES ASSUME NEW p \in Procs, RunsNode(p)'
                PROVE  /\ proc'[p].id = disk["identity"]
                       /\ chosen[proc'[p].id] # Absent /\ ~cut => proc'[p].port = chosen[proc'[p].id]
    BY DEF NodesAreTheDevice
  <2>1. RunsNode(p) /\ proc'[p].id = proc[p].id /\ proc'[p].port = proc[p].port
    BY NoProcFacts DEF Quietly, RunsNode
  <2>. QED
    BY <2>1 DEF NodesAreTheDevice
<1>. QED
  BY <1>1, <1>4, <1>5, <1>6

(* `init` begins with a fresh identity on a directory that has none.       *)
LEMMA StartInitStep ==
    ASSUME FilesInv, NEW p \in Procs, NEW option \in Ports \cup {Absent}, StartInit(p, option)
    PROVE  Directory'
<1>. USE DEF FilesInv, Directory
<1>. DEFINE new == [NoProc EXCEPT
                      !.cmd = "init", !.pc = "create", !.file = "identity",
                      !.id = CHOOSE i \in FreshIds : TRUE,
                      !.port = IF option = Absent THEN DefaultPort ELSE option]
<1>1. new.id \in Ids /\ chosen[new.id] = Absent
  <2>1. new.id = CHOOSE i \in FreshIds : TRUE
    BY DEF NoProc
  <2>2. new.id \in FreshIds
    <3>. HIDE DEF new
    <3>. QED
      BY <2>1 DEF StartInit
  <2>. QED
    BY <2>2, Zenon DEF FreshIds, Files
<1>2. new \in ProcType /\ new.port \in Ports
  BY <1>1, PortAssumption DEF NoProc, ProcType, Files
<1>3. new.cmd = "init" /\ new.pc = "create" /\ new.file = "identity"
  BY DEF NoProc
<1>4. Begin(p, new) /\ UNCHANGED <<disk, tmp, survives, chosen, cut>> /\ disk["identity"] = Absent
      /\ \A q \in Procs : proc[q] = NoProc
  BY DEF StartInit, fileVars, MayInit
<1>. HIDE DEF new
<1>5. /\ proc'[p] = new /\ \A q \in Procs : q # p => proc'[q] = NoProc
  BY <1>2, <1>4, BeginFacts DEF Books
<1>6. FileTypes' /\ DiskSurvives' /\ ConfigKept'
  BY <1>4 DEF FileTypes, DiskSurvives, ConfigKept
<1>7. InitIsAlone'
  BY <1>5, NoProcFacts DEF InitIsAlone
<1>8. InitPlaces'
  <2>1. InitPlace(p)'
    BY <1>1, <1>2, <1>3, <1>4, <1>5 DEF InitPlace, Files
  <2>. QED
    BY <1>5, <2>1, NoProcFacts DEF InitPlaces
<1>9. NodesAreTheDevice'
  BY <1>3, <1>5, NoProcFacts DEF NodesAreTheDevice, RunsNode
<1>. QED
  BY <1>6, <1>7, <1>8, <1>9

(* A node loads the identity, and the port of a device that was created.   *)
LEMMA StartNodeStep ==
    ASSUME FilesInv, NEW p \in Procs, NEW cmd \in {"node", "send"},
           NEW t \in Texts \cup {Absent}, StartNode(p, cmd, t)
    PROVE  Directory'
<1>. USE DEF FilesInv, Directory
<1>1. /\ proc[p] = NoProc /\ proc'[p].cmd = cmd
      /\ proc'[p].id = disk["identity"] /\ disk["identity"] \in Ids
      /\ proc'[p].port = LoadConfig
      /\ \A q \in Procs : q # p => proc'[q] = proc[q]
  BY StartNodeFacts
<1>2. UNCHANGED <<disk, tmp, survives, chosen, cut>> /\ \A q \in Procs : proc[q].cmd # "init"
  BY DEF StartNode, fileVars
<1>3. FileTypes' /\ DiskSurvives' /\ ConfigKept'
  BY <1>2 DEF FileTypes, DiskSurvives, ConfigKept
<1>4. \A q \in Procs : proc'[q].cmd # "init"
  BY <1>1, <1>2
<1>5. InitIsAlone' /\ InitPlaces'
  BY <1>4 DEF InitIsAlone, InitPlaces
<1>6. chosen[disk["identity"]] # Absent /\ ~cut => LoadConfig = chosen[disk["identity"]]
  BY <1>1 DEF ConfigKept, LoadConfig
<1>7. NodesAreTheDevice'
  BY <1>1, <1>2, <1>6 DEF NodesAreTheDevice, RunsNode
<1>. QED
  BY <1>3, <1>5, <1>7

(* While `init` runs there is no other process, and no node.               *)
LEMMA AloneFacts ==
    ASSUME FilesInv, NEW p \in Procs, proc[p].cmd = "init"
    PROVE  /\ InitPlace(p)
           /\ \A q \in Procs : q # p => proc[q] = NoProc /\ proc[q].cmd = "none"
BY NoProcFacts DEF FilesInv, Directory, InitIsAlone, InitPlaces

(* The one process there is is `init`, before and after.                   *)
LEMMA InitStaysAlone ==
    ASSUME FilesInv, NEW p \in Procs, proc[p].cmd = "init", proc'[p].cmd = "init",
           \A q \in Procs : q # p => proc'[q] = proc[q],
           InitPlace(p)'
    PROVE  InitIsAlone' /\ InitPlaces' /\ NodesAreTheDevice'
<1>1. \A q \in Procs : q # p => proc'[q] = NoProc /\ proc'[q].cmd = "none"
  BY AloneFacts
<1>2. InitIsAlone'
  BY <1>1 DEF InitIsAlone
<1>3. InitPlaces'
  BY <1>1 DEF InitPlaces
<1>4. NodesAreTheDevice'
  BY <1>1 DEF NodesAreTheDevice, RunsNode
<1>. QED
  BY <1>2, <1>3, <1>4

(* Creating, writing and syncing the temporary file.                       *)
LEMMA TmpStep ==
    ASSUME FilesInv, NEW p \in Procs, NEW f \in Files,
           CreateTmp(p, f) \/ WriteTmp(p, f) \/ SyncTmp(p, f), UNCHANGED <<chosen, cut>>
    PROVE  Directory'
<1>. USE DEF FilesInv, Directory
<1>1. proc[p].cmd = "init" /\ proc[p].file = f /\ UNCHANGED <<disk, survives>>
  BY DEF CreateTmp, WriteTmp, SyncTmp, Calls, At
<1>2. InitPlace(p)
  BY <1>1, AloneFacts
<1>3. Saved(p, f) \in Contents(f) /\ Saved(p, f) \in Values
  BY <1>1, <1>2 DEF InitPlace, Saved, Contents, Files, Values
<1>4. PICK c \in {"write", "sync", "rename"} : Goto(p, c) /\
        \/ c = "write" /\ tmp' = [tmp EXCEPT ![f] = [content |-> Torn, synced |-> FALSE]]
        \/ c = "sync" /\ tmp' = [tmp EXCEPT ![f].content = Saved(p, f)]
        \/ c = "rename" /\ proc[p].pc = "sync" /\ tmp' = [tmp EXCEPT ![f].synced = TRUE]
  BY DEF CreateTmp, WriteTmp, SyncTmp, Calls, At
<1>5. /\ proc'[p].cmd = "init" /\ proc'[p].pc = c /\ proc'[p].file = f
      /\ proc'[p].id = proc[p].id /\ proc'[p].port = proc[p].port
      /\ \A q \in Procs : q # p => proc'[q] = proc[q]
  <2>1. c \in Pcs
    BY DEF Pcs
  <2>. QED
    BY <1>1, <1>4, <2>1, GotoFacts DEF Books
<1>6. /\ tmp' \in [Files -> [content : Values, synced : BOOLEAN]]
      /\ \A g \in Files : tmp'[g].content \in Contents(g) \cup {Absent, Torn}
      /\ c = "sync" => tmp'[f].content = Saved(p, f)
      /\ c = "rename" => tmp'[f].content = tmp[f].content /\ tmp'[f].synced
  <2>1. /\ tmp \in [Files -> [content : Values, synced : BOOLEAN]] /\ Torn \in Values
        /\ \A g \in Files : tmp[g].content \in Contents(g) \cup {Absent, Torn}
    BY DEF FileTypes, Values
  <2>. HIDE DEF FilesInv, Directory
  <2>2. CASE c = "write"
    <3>1. tmp' = [tmp EXCEPT ![f] = [content |-> Torn, synced |-> FALSE]]
      BY <1>4, <2>2
    <3>. QED
      BY <2>1, <2>2, <3>1
  <2>3. CASE c = "sync"
    <3>1. tmp' = [tmp EXCEPT ![f].content = Saved(p, f)]
      BY <1>4, <2>3
    <3>. QED
      BY <1>3, <2>1, <2>3, <3>1
  <2>4. CASE c = "rename"
    <3>1. tmp' = [tmp EXCEPT ![f].synced = TRUE]
      BY <1>4, <2>4
    <3>. QED
      BY <2>1, <2>4, <3>1
  <2>. QED
    BY <2>2, <2>3, <2>4
<1>7. FileTypes'
  BY <1>1, <1>6 DEF FileTypes
<1>8. DiskSurvives' /\ ConfigKept'
  BY <1>1 DEF DiskSurvives, ConfigKept
<1>9. InitPlace(p)'
  <2>1. Saved(p, f)' = Saved(p, f)
    BY <1>5 DEF Saved
  <2>2. c = "rename" => tmp[f].content = Saved(p, f)
    BY <1>1, <1>2, <1>4 DEF InitPlace
  <2>3. c # "done"
    OBVIOUS
  <2>. QED
    BY <1>1, <1>2, <1>5, <1>6, <2>1, <2>2, <2>3 DEF InitPlace
<1>. QED
  BY <1>1, <1>5, <1>7, <1>8, <1>9, InitStaysAlone

(* The rename puts a whole and synced file in place.                       *)
LEMMA RenameStep ==
    ASSUME FilesInv, NEW p \in Procs, NEW f \in Files, Rename(p, f), UNCHANGED <<chosen, cut>>
    PROVE  Directory'
<1>. USE DEF FilesInv, Directory
<1>1. proc[p].cmd = "init" /\ proc[p].file = f /\ proc[p].pc = "rename"
  BY DEF Rename, Calls, At
<1>2. InitPlace(p)
  BY <1>1, AloneFacts
<1>3. tmp[f].content = Saved(p, f) /\ tmp[f].synced
  BY <1>1, <1>2 DEF InitPlace
<1>. DEFINE v == Saved(p, f)
<1>4. v \in Contents(f) /\ v \in Values /\ (f = "identity" => v = proc[p].id)
      /\ (f = "config" => v = proc[p].port)
  BY <1>1, <1>2 DEF InitPlace, Saved, Contents, Files, Values
<1>5. /\ disk' = [disk EXCEPT ![f] = v]
      /\ survives' = [survives EXCEPT ![f] = @ \cup {v}]
      /\ tmp' = [tmp EXCEPT ![f] = [content |-> Absent, synced |-> FALSE]]
  BY <1>3 DEF Rename
<1>6. PICK c \in {"create", "done"} :
        /\ proc' = [proc EXCEPT ![p].pc = c, ![p].file = "config"]
        /\ c = "done" => f = "config"
  BY DEF Rename, Files
<1>7. /\ proc'[p].cmd = "init" /\ proc'[p].pc = c /\ proc'[p].file = "config"
      /\ proc'[p].id = proc[p].id /\ proc'[p].port = proc[p].port
      /\ \A q \in Procs : q # p => proc'[q] = proc[q]
  <2>1. c \in Pcs
    BY DEF Pcs
  <2>. QED
    BY <1>1, <1>6, <2>1, NextFileFacts DEF Books
<1>. HIDE DEF v
<1>8. /\ disk'[f] = v /\ survives'[f] = survives[f] \cup {v}
      /\ \A g \in Files : g # f => disk'[g] = disk[g] /\ survives'[g] = survives[g]
  BY <1>5 DEF FileTypes
<1>9. FileTypes'
  <2>1. disk' \in [Files -> Values] /\ survives' \in [Files -> SUBSET Values]
    BY <1>4, <1>5 DEF FileTypes
  <2>2. /\ tmp' \in [Files -> [content : Values, synced : BOOLEAN]]
        /\ \A g \in Files : tmp'[g].content \in Contents(g) \cup {Absent, Torn}
    BY <1>5 DEF FileTypes, Values
  <2>3. \A g \in Files : disk'[g] \in Contents(g) \cup {Absent}
                         /\ survives'[g] \subseteq Contents(g) \cup {Absent}
    BY <1>4, <1>8 DEF FileTypes
  <2>. QED
    BY <2>1, <2>2, <2>3 DEF FileTypes
<1>10. DiskSurvives'
  BY <1>8 DEF DiskSurvives
<1>11. disk'["identity"] = proc[p].id
  BY <1>1, <1>2, <1>4, <1>8 DEF InitPlace, Files
<1>12. ConfigKept'
  BY <1>2, <1>11 DEF ConfigKept, InitPlace
<1>13. c = "done" => disk'["config"] = proc[p].port
  BY <1>4, <1>6, <1>8
<1>14. InitPlace(p)'
  <2>1. c \notin {"sync", "rename"}
    OBVIOUS
  <2>. QED
    BY <1>2, <1>7, <1>11, <1>13, <2>1 DEF InitPlace, Files
<1>. QED
  BY <1>1, <1>7, <1>9, <1>10, <1>12, <1>14, InitStaysAlone

(* "identity created" only when the configuration is there too.            *)
LEMMA SayCreatedStep ==
    ASSUME FilesInv, NEW p \in Procs, SayCreated(p)
    PROVE  Directory'
<1>. USE DEF FilesInv, Directory
<1>1. /\ proc[p].cmd = "init" /\ proc[p].pc = "done" /\ UNCHANGED <<disk, tmp, survives, cut>>
      /\ chosen' = [chosen EXCEPT ![proc[p].id] = proc[p].port]
      /\ proc' = [proc EXCEPT ![p] = NoProc]
  BY DEF SayCreated, At, fileVars
<1>2. InitPlace(p) /\ \A q \in Procs : q # p => proc[q] = NoProc
  BY <1>1, AloneFacts
<1>3. /\ proc[p].id \in Ids /\ disk["identity"] = proc[p].id /\ disk["config"] = proc[p].port
  BY <1>1, <1>2 DEF InitPlace, Files
<1>4. \A q \in Procs : proc'[q] = NoProc
  BY <1>1, <1>2 DEF Books
<1>5. InitIsAlone' /\ InitPlaces' /\ NodesAreTheDevice'
  BY <1>4, NoProcFacts DEF InitIsAlone, InitPlaces, NodesAreTheDevice, RunsNode
<1>6. FileTypes' /\ DiskSurvives'
  BY <1>1 DEF FileTypes, DiskSurvives
<1>7. ConfigKept'
  <2>1. chosen'[proc[p].id] = proc[p].port
    BY <1>1, <1>3 DEF Books
  <2>. QED
    BY <1>1, <1>3, <2>1 DEF ConfigKept
<1>. QED
  BY <1>5, <1>6, <1>7

(* A power cut ends all commands and leaves files that were synced.        *)
LEMMA PowerLossStep ==
    ASSUME FilesInv, PowerLoss
    PROVE  Directory'
<1>. USE DEF FilesInv, Directory
<1>1. PICK kept \in [Files -> Values] :
        /\ \A f \in Files : kept[f] \in survives[f]
        /\ disk' = kept /\ survives' = [f \in Files |-> {kept[f]}]
  BY DEF PowerLoss, Values
<1>2. /\ tmp' = [f \in Files |-> [content |-> Absent, synced |-> FALSE]]
      /\ cut' = TRUE /\ \A p \in Procs : proc'[p] = NoProc
  BY DEF PowerLoss
<1>3. FileTypes'
  BY <1>1, <1>2 DEF FileTypes, Values
<1>4. DiskSurvives' /\ ConfigKept'
  BY <1>1, <1>2 DEF DiskSurvives, ConfigKept
<1>5. InitIsAlone' /\ InitPlaces' /\ NodesAreTheDevice'
  BY <1>2, NoProcFacts DEF InitIsAlone, InitPlaces, NodesAreTheDevice, RunsNode
<1>. QED
  BY <1>3, <1>4, <1>5

(* Writing the renames back changes nothing that a reader sees.            *)
LEMMA SettleStep ==
    ASSUME FilesInv, Settle
    PROVE  Directory'
<1>. USE DEF FilesInv, Directory
<1>1. survives' = [f \in Files |-> {disk[f]}] /\ UNCHANGED <<disk, tmp, proc, chosen, cut>>
  BY DEF Settle
<1>2. FileTypes' /\ DiskSurvives' /\ ConfigKept'
  BY <1>1 DEF FileTypes, DiskSurvives, ConfigKept
<1>3. InitIsAlone' /\ InitPlaces' /\ NodesAreTheDevice'
  BY <1>1 DEF InitIsAlone, InitPlaces, InitPlace, Saved, NodesAreTheDevice, RunsNode
<1>. QED
  BY <1>2, <1>3

(* The steps of nodes, and of processes that end, are quiet.               *)
LEMMA NodeStepsAreQuiet ==
    ASSUME Books, NEW p \in Procs,
           \/ HistoryWrite(p) \/ SendText(p) \/ SayDelivered(p) \/ SessionTimeout(p)
           \/ AckTimeout(p) \/ SessionEstablished(p) \/ Quit(p) \/ Killed(p) \/ HistoryError(p)
           \/ \E t \in Texts : SendCommand(p, t) \/ AckReceived(p, t)
           \/ \E t \in Inbox : TextArrives(p, t) \/ MessageReceived(p, t)
    PROVE  (\A q \in Procs : Quietly(q)) /\ UNCHANGED <<fileVars, chosen, cut>>
<1>1. CASE HistoryWrite(p) \/ HistoryError(p)
  BY <1>1 DEF HistoryWrite, HistoryError, Quietly
<1>2. CASE SayDelivered(p) \/ SessionTimeout(p) \/ AckTimeout(p) \/ Quit(p) \/ Killed(p)
  <2>1. Ends(p)
    BY <1>2 DEF SayDelivered, SessionTimeout, AckTimeout, Quit, Killed
  <2>2. UNCHANGED <<fileVars, chosen, cut>>
    BY <1>2 DEF SayDelivered, SessionTimeout, AckTimeout, Quit, Killed
  <2>. QED
    BY <2>1, <2>2, EndsFacts DEF Books, Quietly
<1>3. CASE SendText(p) \/ SessionEstablished(p)
  <2>1. PICK c \in {"awaiting", "connected", "in session"} : Goto(p, c)
    BY <1>3 DEF SendText, SessionEstablished
  <2>2. RunsNode(p) /\ UNCHANGED <<fileVars, chosen, cut>> /\ c \in Pcs
    BY <1>3 DEF SendText, SessionEstablished, At, RunsNode, Polls, Pcs
  <2>. QED
    BY <2>1, <2>2, GotoFacts DEF Books, Quietly
<1>4. ASSUME NEW t \in Texts, SendCommand(p, t)
      PROVE  (\A q \in Procs : Quietly(q)) /\ UNCHANGED <<fileVars, chosen, cut>>
  <2>1. /\ RunsNode(p) /\ UNCHANGED <<fileVars, chosen, cut>>
        /\ proc' = [proc EXCEPT ![p].text = t]
    BY <1>4 DEF SendCommand, RunsNode
  <2>. QED
    BY <2>1, ClaimFacts DEF Books, Quietly
<1>5. ASSUME NEW t \in Texts, AckReceived(p, t)
      PROVE  (\A q \in Procs : Quietly(q)) /\ UNCHANGED <<fileVars, chosen, cut>>
  <2>1. proc[p].pc \in Pcs
    BY DEF Books, ProcType, Pcs
  <2>2. PICK c \in Pcs : Goto(p, c)
    BY <1>5, <2>1 DEF AckReceived, Pcs
  <2>3. RunsNode(p) /\ UNCHANGED <<fileVars, chosen, cut>>
    BY <1>5 DEF AckReceived, Polls
  <2>. QED
    BY <2>2, <2>3, GotoFacts DEF Books, Quietly
<1>6. ASSUME NEW t \in Inbox, TextArrives(p, t) \/ MessageReceived(p, t)
      PROVE  (\A q \in Procs : Quietly(q)) /\ UNCHANGED <<fileVars, chosen, cut>>
  BY <1>6 DEF TextArrives, MessageReceived, Quietly
<1>. QED
  BY <1>1, <1>2, <1>3, <1>4, <1>5, <1>6

(* Every step keeps the directory in order.                                *)
LEMMA DirectoryStep ==
    ASSUME FilesInv, Next
    PROVE  Directory'
<1>1. ASSUME NEW p \in Procs, Starts(p) PROVE Directory'
  BY <1>1, StartInitStep, StartNodeStep DEF Starts
<1>2. ASSUME NEW p \in Procs, NEW f \in Files, WriteAtomic(p, f) PROVE Directory'
  BY <1>2, TmpStep, RenameStep DEF WriteAtomic
<1>3. ASSUME NEW p \in Procs,
             \/ HistoryWrite(p) \/ SendText(p) \/ SayDelivered(p) \/ SessionTimeout(p)
             \/ AckTimeout(p) \/ SessionEstablished(p) \/ Quit(p) \/ Killed(p) \/ HistoryError(p)
             \/ \E t \in Texts : SendCommand(p, t) \/ AckReceived(p, t)
             \/ \E t \in Inbox : TextArrives(p, t) \/ MessageReceived(p, t)
      PROVE  Directory'
  <2>1. (\A q \in Procs : Quietly(q)) /\ UNCHANGED <<fileVars, chosen, cut>>
    BY <1>3, NodeStepsAreQuiet DEF FilesInv
  <2>. QED
    BY <2>1, QuietStep
<1>4. ASSUME NEW t \in Texts, Taken(t) PROVE Directory'
  <2>1. (\A q \in Procs : Quietly(q)) /\ UNCHANGED <<fileVars, chosen, cut>>
    BY <1>4 DEF Taken, Quietly
  <2>. QED
    BY <2>1, QuietStep
<1>5. ASSUME NEW p \in Procs, Runs(p) PROVE Directory'
  BY <1>2, <1>3, <1>5, SayCreatedStep DEF Runs
<1>. QED
  BY <1>1, <1>3, <1>4, <1>5, PowerLossStep, SettleStep DEF Next

(* The invariant of the files holds of every reachable state.              *)
THEOREM FilesInvariant == Spec => []FilesInv
<1>1. Init => FilesInv
  <2>. SUFFICES ASSUME Init PROVE FilesInv
    OBVIOUS
  <2>1. <<>> \in Appends /\ <<>> \in Seq(Entries \cup {NL, Torn})
    BY DEF Appends
  <2>2. Books
    BY <2>1, NoProcFacts, DeviceBoundsAssumption DEF Init, Books
  <2>3. FileTypes /\ DiskSurvives
    BY DEF Init, FileTypes, DiskSurvives, Values
  <2>4. \A p \in Procs : proc[p] = NoProc /\ proc[p].cmd = "none"
    BY NoProcFacts DEF Init
  <2>5. InitIsAlone /\ InitPlaces /\ NodesAreTheDevice
    BY <2>4 DEF InitIsAlone, InitPlaces, NodesAreTheDevice, RunsNode
  <2>6. ConfigKept
    BY DEF Init, ConfigKept
  <2>. QED
    BY <2>2, <2>3, <2>5, <2>6 DEF FilesInv, Directory
<1>2. FilesInv /\ [Next]_vars => FilesInv'
  <2>. SUFFICES ASSUME FilesInv, [Next]_vars PROVE FilesInv'
    OBVIOUS
  <2>1. CASE Next
    BY <2>1, BooksStep, DirectoryStep DEF FilesInv, Directory
  <2>2. CASE UNCHANGED vars
    <3>1. Books'
      BY <2>2 DEF vars, textVars, FilesInv, Books
    <3>2. Directory'
      BY <2>2, QuietStep DEF vars, Quietly
    <3>. QED
      BY <3>1, <3>2 DEF FilesInv
  <2>. QED
    BY <2>1, <2>2
<1>. QED
  BY <1>1, <1>2, PTL DEF Spec

(* Whatever is interrupted, no command ever finds a torn identity or       *)
(* configuration, and no power cut leaves one (write_atomic).              *)
THEOREM FilesAreWhole == Spec => []CutsLeaveWholeFiles
<1>1. FilesInv => CutsLeaveWholeFiles
  <2>. SUFFICES ASSUME FilesInv PROVE CutsLeaveWholeFiles
    OBVIOUS
  <2>1. TypeOK
    BY DEF FilesInv, Directory, FileTypes, Books, TypeOK, Appends
  <2>. QED
    BY <2>1 DEF FilesInv, Directory, FileTypes, CutsLeaveWholeFiles
<1>. QED
  BY <1>1, FilesInvariant, PTL

(* Every node runs as the device of the directory, on the port its user    *)
(* chose when `init` said it was done and the power held (load_config).    *)
THEOREM NodesRunTheDevice == Spec => []NodesAreTheDevice
<1>1. FilesInv => NodesAreTheDevice
  BY DEF FilesInv, Directory
<1>. QED
  BY <1>1, FilesInvariant, PTL

(* An identity on stable storage is never replaced or removed (cmd_init).  *)
THEOREM IdentityStays == Spec => IdentityIsKept
<1>1. ASSUME FilesInv, [Next]_vars, NEW i \in Ids, survives["identity"] = {i}
      PROVE  survives'["identity"] = {i} /\ disk'["identity"] = i
  <2>. USE <1>1
  <2>1. disk["identity"] = i /\ i # Absent /\ "identity" \in Files
    BY MarkAssumption DEF FilesInv, Directory, DiskSurvives, Files
  <2>2. CASE UNCHANGED fileVars
    BY <2>1, <2>2 DEF fileVars
  <2>3. ASSUME NEW p \in Procs, NEW f \in Files, WriteAtomic(p, f)
        PROVE  survives'["identity"] = {i} /\ disk'["identity"] = i
    <3>1. CASE CreateTmp(p, f) \/ WriteTmp(p, f) \/ SyncTmp(p, f)
      BY <2>1, <3>1 DEF CreateTmp, WriteTmp, SyncTmp
    <3>2. CASE Rename(p, f)
      <4>1. proc[p].cmd = "init" /\ proc[p].file = f
        BY <3>2 DEF Rename, Calls, At
      <4>2. f # "identity"
        BY <2>1, <4>1, AloneFacts DEF InitPlace
      <4>. QED
        BY <2>1, <3>2, <4>2 DEF Rename, FilesInv, Directory, FileTypes
    <3>. QED
      BY <2>3, <3>1, <3>2 DEF WriteAtomic
  <2>4. CASE PowerLoss
    BY <2>1, <2>4 DEF PowerLoss
  <2>5. CASE Settle
    BY <2>1, <2>5 DEF Settle
  <2>6. ASSUME NEW p \in Procs, Starts(p) PROVE UNCHANGED fileVars
    BY <2>6 DEF Starts, StartInit, StartNode
  <2>7. ASSUME NEW p \in Procs,
               \/ HistoryWrite(p) \/ SendText(p) \/ SayDelivered(p) \/ SessionTimeout(p)
               \/ AckTimeout(p) \/ SessionEstablished(p) \/ Quit(p) \/ Killed(p) \/ HistoryError(p)
               \/ \E t \in Texts : SendCommand(p, t) \/ AckReceived(p, t)
               \/ \E t \in Inbox : TextArrives(p, t) \/ MessageReceived(p, t)
        PROVE  UNCHANGED fileVars
    BY <2>7, NodeStepsAreQuiet DEF FilesInv
  <2>8. ASSUME NEW p \in Procs, SayCreated(p) PROVE UNCHANGED fileVars
    BY <2>8 DEF SayCreated
  <2>9. ASSUME NEW t \in Texts, Taken(t) PROVE UNCHANGED fileVars
    BY <2>9 DEF Taken
  <2>10. CASE UNCHANGED vars
    BY <2>2, <2>10 DEF vars
  <2>11. ASSUME NEW p \in Procs, Runs(p)
         PROVE  survives'["identity"] = {i} /\ disk'["identity"] = i
    BY <2>2, <2>3, <2>7, <2>8, <2>11 DEF Runs
  <2>. QED
    BY <2>2, <2>4, <2>5, <2>6, <2>7, <2>9, <2>10, <2>11 DEF Next
<1>2. FilesInv /\ [Next]_vars =>
        [\A i \in Ids : survives["identity"] = {i}
           => survives'["identity"] = {i} /\ disk'["identity"] = i]_vars
  BY <1>1
<1>. QED
  BY <1>2, FilesInvariant, PTL DEF Spec, IdentityIsKept

-----------------------------------------------------------------------------
(* Steps and the texts.                                                    *)

Delivered(t) == Entry("delivered", t)

(* Entries of different events, or about different texts, differ.          *)
LEMMA EntriesDiffer ==
    /\ \A t, u : Delivered(t) = Delivered(u) => t = u
    /\ \A t : Delivered(t) # Entry("session", Absent)
    /\ \A t, u : Delivered(t) # Entry("received", u)
BY DEF Delivered, Entry

(* Two pending appends are the same only if their entries are.             *)
LEMMA PendingEqual ==
    ASSUME NEW d, NEW e, <<d, NL>> = <<e, NL>>
    PROVE  d = e
OBVIOUS

(* A longer log holds what the log held, and the new entry.                *)
LEMMA LoggedAppend ==
    ASSUME NEW S, history \in Seq(S), NEW e \in S, history' = Append(history, e), NEW x
    PROVE  Logged(x)' <=> Logged(x) \/ x = e
<1>1. /\ Len(history') = Len(history) + 1 /\ Len(history) \in Nat
      /\ \A i \in 1..Len(history) : history'[i] = history[i]
      /\ history'[Len(history) + 1] = e
  BY AppendProperties
<1>2. ASSUME Logged(x) PROVE Logged(x)'
  BY <1>1, <1>2 DEF Logged
<1>3. ASSUME x = e PROVE Logged(x)'
  <2>1. Len(history) + 1 \in 1..Len(history')
    BY <1>1
  <2>. QED
    BY <1>1, <1>3, <2>1 DEF Logged
<1>4. ASSUME Logged(x)', x # e PROVE Logged(x)
  <2>1. PICK n \in 1..Len(history') : history'[n] = x
    BY <1>4 DEF Logged
  <2>2. n \in 1..Len(history)
    BY <1>1, <1>4, <2>1
  <2>. QED
    BY <1>1, <2>1, <2>2 DEF Logged
<1>. QED
  BY <1>2, <1>3, <1>4

(* p ends, or goes on with its text without claiming more of it.           *)
TextKept(p) ==
    \/ proc'[p].text = Absent /\ proc'[p].cmd # "send"
    \/ /\ proc'[p].text = proc[p].text
       /\ proc'[p].cmd = "send" =>
             /\ proc[p].cmd = "send" /\ (proc'[p].pc = "running" => proc[p].pc = "running")
             /\ proc'[p].pc \in {"connecting", "connected"}
                   => proc[p].pc \in {"connecting", "connected"}
             /\ proc'[p].pc = "acked"
                   => proc[p].pc = "acked" /\ (faults' # 0 \/ writing'[p] = writing[p])

(* Most steps say nothing of the texts.                                    *)
LEMMA TextQuietStep ==
    ASSUME TextsInv, UNCHANGED <<sent, report>>, faults' = faults \/ faults' # 0,
           \A t \in Texts : Logged(Delivered(t))' => Logged(Delivered(t)),
           faults' = 0 => \A t \in Texts : Logged(Delivered(t)) => Logged(Delivered(t))',
           \A p \in Procs : TextKept(p),
           \A p \in Procs, t \in Texts :
              writing'[p] = <<Delivered(t), NL>> => writing[p] = <<Delivered(t), NL>>
    PROVE  TextsInv'
<1>. USE DEF TextsInv
<1>1. ReportsAreTrue'
  BY DEF ReportsAreTrue, Delivered
<1>2. TextsOwned'
  BY DEF TextsOwned, TextKept
<1>3. WritesAreTrue'
  BY DEF WritesAreTrue, Delivered
<1>4. SendPlaces'
  <2>. SUFFICES ASSUME NEW p \in Procs, proc'[p].cmd = "send" PROVE SendPlace(p)'
    BY DEF SendPlaces
  <2>1. /\ proc[p].cmd = "send" /\ proc'[p].text = proc[p].text
        /\ proc'[p].pc = "running" => proc[p].pc = "running"
        /\ proc'[p].pc \in {"connecting", "connected"} => proc[p].pc \in {"connecting", "connected"}
        /\ proc'[p].pc = "acked" => proc[p].pc = "acked" /\ (faults' # 0 \/ writing'[p] = writing[p])
    BY DEF TextKept
  <2>2. SendPlace(p)
    BY <2>1 DEF SendPlaces
  <2>. DEFINE t == proc[p].text
  <2>3. /\ t \in Texts /\ proc[p].pc # "running"
        /\ proc[p].pc \in {"connecting", "connected"} => sent[t] = "unsent"
        /\ proc[p].pc = "acked" =>
              /\ sent[t] = "acked"
              /\ faults = 0 => writing[p] = <<Delivered(t), NL>> \/ Logged(Delivered(t))
    BY <2>2 DEF SendPlace, Delivered
  <2>4. /\ proc'[p].pc \in {"connecting", "connected"} => sent'[t] = "unsent"
        /\ proc'[p].pc = "acked" =>
              /\ sent'[t] = "acked"
              /\ faults' = 0 => writing'[p] = <<Delivered(t), NL>> \/ Logged(Delivered(t))'
    BY <2>1, <2>3
  <2>. QED
    BY <2>1, <2>3, <2>4 DEF SendPlace, Delivered
<1>. QED
  BY <1>1, <1>2, <1>3, <1>4

(* An entry reaches the log before `send` is told (on_session_event).      *)
LEMMA TextHistoryWrite ==
    ASSUME Books, TextsInv, NEW p \in Procs, HistoryWrite(p)
    PROVE  TextsInv'
<1>. USE DEF TextsInv
<1>. DEFINE e == Head(writing[p])
<1>1. /\ UNCHANGED <<proc, sent, report, faults>> /\ writing[p] # <<>>
      /\ history' = Append(history, e) /\ writing' = [writing EXCEPT ![p] = Tail(@)]
  BY DEF HistoryWrite, textVars
<1>2. /\ writing[p] \in Appends /\ writing'[p] = Tail(writing[p])
      /\ \A q \in Procs : q # p => writing'[q] = writing[q]
  BY <1>1 DEF Books
<1>3. /\ e \in Entries \cup {NL, Torn} /\ (e \in Entries => writing[p] = <<e, NL>>)
      /\ \A d : Tail(writing[p]) # <<d, NL>>
  <2>1. \A d : <<d, NL>> # <<NL>> /\ <<d, NL>> # <<>>
    OBVIOUS
  <2>2. NL \notin Entries
    BY LogAssumption
  <2>. QED
    BY <1>1, <1>2, <2>1, <2>2, WritingFacts
<1>4. ASSUME NEW x PROVE Logged(x)' <=> Logged(x) \/ x = e
  <2>. DEFINE S == Entries \cup {NL, Torn}
  <2>1. history \in Seq(S) /\ e \in S
    BY <1>3 DEF Books
  <2>. HIDE DEF S
  <2>. QED
    BY <1>1, <2>1, LoggedAppend
<1>5. \A t \in Texts : Delivered(t) = e => writing[p] = <<Delivered(t), NL>> /\ sent[t] = "acked"
  BY <1>3, EntryFacts DEF WritesAreTrue, Delivered
<1>. HIDE DEF e
<1>6. ReportsAreTrue'
  <2>. SUFFICES ASSUME NEW t \in Texts
                PROVE  /\ report[t] = "delivered" /\ faults = 0 => Logged(Delivered(t))'
                       /\ report[t] = "delivered" \/ Logged(Delivered(t))' => sent[t] = "acked"
                       /\ report[t] = "no session" => sent[t] = "unsent"
    BY <1>1 DEF ReportsAreTrue, Delivered
  <2>1. Logged(Delivered(t))' <=> Logged(Delivered(t)) \/ Delivered(t) = e
    BY <1>4
  <2>2. /\ report[t] = "delivered" /\ faults = 0 => Logged(Delivered(t))
        /\ report[t] = "delivered" \/ Logged(Delivered(t)) => sent[t] = "acked"
        /\ report[t] = "no session" => sent[t] = "unsent"
    BY DEF ReportsAreTrue, Delivered
  <2>. QED
    BY <1>5, <2>1, <2>2
<1>7. TextsOwned'
  BY <1>1 DEF TextsOwned
<1>8. WritesAreTrue'
  BY <1>1, <1>2, <1>3 DEF WritesAreTrue
<1>9. SendPlaces'
  <2>. SUFFICES ASSUME NEW q \in Procs, proc[q].cmd = "send" PROVE SendPlace(q)'
    BY <1>1 DEF SendPlaces
  <2>a. PICK t \in Texts : t = proc[q].text
    BY DEF SendPlaces, SendPlace
  <2>1. /\ proc[q].pc # "running"
        /\ proc[q].pc \in {"connecting", "connected"} => sent[t] = "unsent"
        /\ proc[q].pc = "acked" =>
              /\ sent[t] = "acked"
              /\ faults = 0 => writing[q] = <<Delivered(t), NL>> \/ Logged(Delivered(t))
    BY <2>a DEF SendPlaces, SendPlace, Delivered
  <2>0. Logged(Delivered(t))' <=> Logged(Delivered(t)) \/ Delivered(t) = e
    BY <1>4
  <2>2. ASSUME writing[q] = <<Delivered(t), NL>>
        PROVE  writing'[q] = <<Delivered(t), NL>> \/ Logged(Delivered(t))'
    <3>1. CASE q # p
      BY <1>2, <2>2, <3>1
    <3>2. CASE q = p
      <4>1. e = Delivered(t)
        BY <2>2, <3>2 DEF e
      <4>. QED
        BY <2>0, <4>1
    <3>. QED
      BY <3>1, <3>2
  <2>3. proc'[q].pc = "acked" =>
              /\ sent'[t] = "acked"
              /\ faults' = 0 => writing'[q] = <<Delivered(t), NL>> \/ Logged(Delivered(t))'
    BY <1>1, <2>0, <2>1, <2>2
  <2>. QED
    BY <1>1, <2>a, <2>1, <2>3 DEF SendPlace, Delivered
<1>. QED
  BY <1>6, <1>7, <1>8, <1>9


(* A process that does nothing keeps what it said of its text.             *)
LEMMA TextIdle ==
    ASSUME NEW q, proc'[q] = proc[q], writing'[q] = writing[q]
    PROVE  TextKept(q)
BY DEF TextKept

(* A process without a command says nothing of any text.                   *)
LEMMA TextGone ==
    ASSUME NEW q, proc'[q] = NoProc
    PROVE  TextKept(q)
BY NoProcFacts DEF TextKept

(* `init` has no text.                                                     *)
LEMMA TextInitSteps ==
    ASSUME Books, TextsInv, NEW p \in Procs,
           \/ \E option \in Ports \cup {Absent} : StartInit(p, option)
           \/ \E f \in Files : WriteAtomic(p, f)
           \/ SayCreated(p)
    PROVE  TextsInv'
<1>1. UNCHANGED <<history, writing, sent, report, faults>>
  BY DEF StartInit, WriteAtomic, SayCreated, textVars
<1>2. TextKept(p) /\ \A q \in Procs : q # p => proc'[q] = proc[q]
  <2>1. ASSUME NEW option \in Ports \cup {Absent}, StartInit(p, option)
        PROVE  TextKept(p) /\ \A q \in Procs : q # p => proc'[q] = proc[q]
    <3>. DEFINE new == [NoProc EXCEPT
                          !.cmd = "init", !.pc = "create", !.file = "identity",
                          !.id = CHOOSE i \in FreshIds : TRUE,
                          !.port = IF option = Absent THEN DefaultPort ELSE option]
    <3>1. new.text = Absent /\ new.cmd = "init"
      BY DEF NoProc
    <3>2. Begin(p, new)
      BY <2>1 DEF StartInit
    <3>. HIDE DEF new
    <3>3. proc'[p] = new /\ \A q \in Procs : q # p => proc'[q] = proc[q]
      BY <3>2 DEF Begin, Books
    <3>. QED
      BY <3>1, <3>3 DEF TextKept
  <2>2. ASSUME NEW f \in Files, WriteAtomic(p, f)
        PROVE  TextKept(p) /\ \A q \in Procs : q # p => proc'[q] = proc[q]
    <3>1. /\ proc[p].cmd = "init" /\ proc'[p].cmd = proc[p].cmd /\ proc'[p].text = proc[p].text
          /\ \A q \in Procs : q # p => proc'[q] = proc[q]
      <4>1. proc[p].cmd = "init"
        BY <2>2 DEF WriteAtomic, CreateTmp, WriteTmp, SyncTmp, Rename, Calls, At
      <4>2. CASE CreateTmp(p, f) \/ WriteTmp(p, f) \/ SyncTmp(p, f)
        <5>1. PICK c \in {"write", "sync", "rename"} : Goto(p, c)
          BY <4>2 DEF CreateTmp, WriteTmp, SyncTmp
        <5>. QED
          BY <4>1, <5>1, GotoFacts DEF Pcs, Books
      <4>3. CASE Rename(p, f)
        <5>1. PICK c \in {"create", "done"} : proc' = [proc EXCEPT ![p].pc = c, ![p].file = "config"]
          BY <4>3 DEF Rename
        <5>. QED
          BY <4>1, <5>1, NextFileFacts DEF Pcs, Books
      <4>. QED
        BY <2>2, <4>2, <4>3 DEF WriteAtomic
    <3>. QED
      BY <3>1 DEF TextKept
  <2>3. CASE SayCreated(p)
    <3>1. proc'[p] = NoProc /\ \A q \in Procs : q # p => proc'[q] = proc[q]
      BY <2>3 DEF SayCreated, Books
    <3>. QED
      BY <3>1, TextGone
  <2>. QED
    BY <2>1, <2>2, <2>3
<1>3. \A q \in Procs : TextKept(q)
  BY <1>1, <1>2, TextIdle
<1>4. \A t \in Texts : Logged(Delivered(t))' <=> Logged(Delivered(t))
  BY <1>1 DEF Logged
<1>. QED
  BY <1>1, <1>3, <1>4, TextQuietStep

(* The node logs a session, or a text of another device.                   *)
LEMMA TextOtherEvents ==
    ASSUME Books, TextsInv, NEW p \in Procs,
           SessionEstablished(p) \/ \E t \in Inbox : MessageReceived(p, t)
    PROVE  TextsInv'
<1>1. UNCHANGED <<history, sent, report, faults>>
  BY DEF SessionEstablished, MessageReceived, textVars
<1>2. PICK e \in Entries : AppendHistory(p, e) /\ \A t : Delivered(t) # e
  <2>1. CASE SessionEstablished(p)
    <3>1. AppendHistory(p, Entry("session", Absent))
      BY <2>1 DEF SessionEstablished
    <3>. QED
      BY <3>1, EntryFacts, EntriesDiffer, Zenon
  <2>2. CASE \E t \in Inbox : MessageReceived(p, t)
    <3>1. PICK t \in Inbox : AppendHistory(p, Entry("received", t))
      BY <2>2 DEF MessageReceived
    <3>2. Entry("received", t) \in Entries /\ \A u : Delivered(u) # Entry("received", t)
      BY EntryFacts, EntriesDiffer
    <3>. QED
      BY <3>1, <3>2, Zenon
  <2>. QED
    BY <2>1, <2>2
<1>3. writing'[p] = <<e, NL>> /\ \A q \in Procs : q # p => writing'[q] = writing[q]
  BY <1>2, AppendFacts DEF Books
<1>4. TextKept(p) /\ \A q \in Procs : q # p => proc'[q] = proc[q]
  <2>1. CASE SessionEstablished(p)
    <3>1. PICK c \in {"connected", "in session"} :
             Goto(p, c) /\ (proc[p].cmd = "send" => proc[p].pc \in {"connecting", "running"} /\ c = "connected")
      BY <2>1 DEF SessionEstablished
    <3>2. /\ proc'[p].cmd = proc[p].cmd /\ proc'[p].pc = c /\ proc'[p].text = proc[p].text
          /\ \A q \in Procs : q # p => proc'[q] = proc[q]
      BY <3>1, GotoFacts DEF Pcs, Books
    <3>3. proc[p].cmd = "send" => proc[p].pc = "connecting"
      BY <2>1 DEF SessionEstablished, TextsInv, SendPlaces, SendPlace
    <3>. QED
      BY <3>1, <3>2, <3>3 DEF TextKept
  <2>2. ASSUME NEW t \in Inbox, MessageReceived(p, t)
        PROVE  TextKept(p) /\ \A q \in Procs : q # p => proc'[q] = proc[q]
    BY <2>2 DEF MessageReceived, TextKept, Polls
  <2>. QED
    BY <2>1, <2>2
<1>5. \A q \in Procs : TextKept(q)
  BY <1>3, <1>4, TextIdle
<1>6. \A t \in Texts : Logged(Delivered(t))' <=> Logged(Delivered(t))
  BY <1>1 DEF Logged
<1>7. \A q \in Procs, t \in Texts :
         writing'[q] = <<Delivered(t), NL>> => writing[q] = <<Delivered(t), NL>>
  <2>1. \A t : <<e, NL>> # <<Delivered(t), NL>>
    BY <1>2, PendingEqual
  <2>. QED
    BY <1>3, <2>1
<1>. QED
  BY <1>1, <1>5, <1>6, <1>7, TextQuietStep

(* The other steps that say nothing of this device's texts.                *)
LEMMA TextFaults ==
    ASSUME Books, TextsInv,
           \/ \E p \in Procs : Quit(p) \/ Killed(p) \/ HistoryError(p)
           \/ \E p \in Procs, t \in Inbox : TextArrives(p, t)
           \/ PowerLoss \/ Settle
    PROVE  TextsInv'
<1>0. \A d : <<>> # <<d, NL>>
  OBVIOUS
<1>1. ASSUME NEW p \in Procs, Quit(p) \/ Killed(p) PROVE TextsInv'
  <2>1. /\ UNCHANGED <<history, sent, report>> /\ Ends(p)
        /\ writing' = writing \/ writing' = [writing EXCEPT ![p] = <<>>]
        /\ faults' = faults \/ faults' # 0
    BY <1>1, FaultFacts DEF Quit, Killed, textVars, Books
  <2>2. \A q \in Procs : writing'[q] = <<>> \/ writing'[q] = writing[q]
    BY <2>1 DEF Books
  <2>3. \A q \in Procs : TextKept(q)
    <3>1. proc'[p] = NoProc /\ \A q \in Procs : q # p => proc'[q] = proc[q]
      BY <2>1, EndsFacts DEF Books
    <3>2. \A q \in Procs : q # p => writing'[q] = writing[q]
      BY <2>1 DEF Books
    <3>. QED
      BY <3>1, <3>2, TextGone, TextIdle
  <2>4. \A t \in Texts : Logged(Delivered(t))' <=> Logged(Delivered(t))
    BY <2>1 DEF Logged
  <2>. QED
    BY <1>0, <2>1, <2>2, <2>3, <2>4, TextQuietStep
<1>2. ASSUME NEW p \in Procs, HistoryError(p) PROVE TextsInv'
  <2>1. /\ UNCHANGED <<proc, sent, report>>
        /\ history' = history \/ history' = Append(history, Torn)
        /\ writing' = [writing EXCEPT ![p] = <<>>] /\ faults' # 0
    BY <1>2, FaultFacts DEF HistoryError, textVars, Books
  <2>2. \A q \in Procs : writing'[q] = <<>> \/ writing'[q] = writing[q]
    BY <2>1 DEF Books
  <2>3. \A q \in Procs : TextKept(q)
    BY <2>1 DEF TextKept
  <2>4. ASSUME NEW t \in Texts PROVE Logged(Delivered(t))' => Logged(Delivered(t))
    <3>1. CASE history' = history
      BY <3>1 DEF Logged
    <3>2. CASE history' = Append(history, Torn)
      <4>. DEFINE S == Entries \cup {NL, Torn}
      <4>1. history \in Seq(S) /\ Torn \in S
        BY DEF Books
      <4>2. Delivered(t) # Torn
        BY EntryFacts, LogAssumption DEF Delivered
      <4>. HIDE DEF S
      <4>. QED
        BY <3>2, <4>1, <4>2, LoggedAppend
    <3>. QED
      BY <2>1, <3>1, <3>2
  <2>. QED
    BY <1>0, <2>1, <2>2, <2>3, <2>4, TextQuietStep
<1>3. ASSUME NEW p \in Procs, NEW t \in Inbox, TextArrives(p, t) PROVE TextsInv'
  BY <1>3, TextQuietStep, TextIdle DEF TextArrives, Logged
<1>4. CASE PowerLoss
  <2>1. /\ UNCHANGED <<sent, report>> /\ faults' # 0
        /\ \A q \in Procs : proc'[q] = NoProc /\ writing'[q] = <<>>
    BY <1>4, FaultFacts DEF PowerLoss, textVars, Books
  <2>2. \A q \in Procs : TextKept(q)
    BY <2>1, TextGone
  <2>3. ASSUME NEW t \in Texts PROVE Logged(Delivered(t))' => Logged(Delivered(t))
    <3>1. PICK n \in 0..Len(history) : history' \in Cut(n)
      BY <1>4 DEF PowerLoss
    <3>. DEFINE S == Entries \cup {NL, Torn}
    <3>2. history \in Seq(S) /\ Torn \in S
      BY DEF Books
    <3>3. Delivered(t) # Torn
      BY EntryFacts, LogAssumption DEF Delivered
    <3>. HIDE DEF S
    <3>4. /\ \A i \in 1..n : history'[i] = history[i]
          /\ Len(history') = n \/ (Len(history') = n + 1 /\ history'[n + 1] = Torn)
      BY <3>1, <3>2, CutFacts
    <3>5. Len(history) \in Nat /\ n \in Nat /\ n <= Len(history)
      BY <3>2
    <3>6. HAVE Logged(Delivered(t))'
    <3>7. PICK i \in 1..Len(history') : history'[i] = Delivered(t)
      BY <3>6 DEF Logged
    <3>8. i \in 1..n /\ i \in 1..Len(history)
      BY <3>3, <3>4, <3>5, <3>7
    <3>. QED
      BY <3>4, <3>7, <3>8 DEF Logged
  <2>. QED
    BY <1>0, <2>1, <2>2, <2>3, TextQuietStep
<1>5. CASE Settle
  BY <1>5, TextQuietStep, TextIdle DEF Settle, Logged, textVars
<1>. QED
  BY <1>1, <1>2, <1>3, <1>4, <1>5

(* A node starts; `send` takes up a text nobody has used.                  *)
LEMMA TextStartNode ==
    ASSUME Books, FileTypes, TextsInv, NEW p \in Procs, NEW cmd \in {"node", "send"},
           NEW t \in Texts \cup {Absent}, StartNode(p, cmd, t)
    PROVE  TextsInv'
<1>. USE DEF TextsInv
<1>1. /\ UNCHANGED <<history, writing, sent, report, faults>>
      /\ (cmd = "send") <=> (t # Absent)
      /\ t # Absent => sent[t] = "unsent" /\ report[t] = "none" /\ \A q \in Procs : proc[q].text # t
  BY DEF StartNode, textVars, Unclaimed
<1>2. /\ proc'[p].cmd = cmd /\ proc'[p].text = t /\ proc[p] = NoProc
      /\ proc'[p].pc = IF cmd = "send" THEN "connecting" ELSE "running"
      /\ \A q \in Procs : q # p => proc'[q] = proc[q]
  BY StartNodeFacts
<1>3. ReportsAreTrue'
  BY <1>1 DEF ReportsAreTrue, Logged
<1>4. TextsOwned'
  BY <1>1, <1>2 DEF TextsOwned
<1>5. SendPlaces'
  BY <1>1, <1>2 DEF SendPlaces, SendPlace, Logged
<1>6. WritesAreTrue'
  BY <1>1 DEF WritesAreTrue
<1>. QED
  BY <1>3, <1>4, <1>5, <1>6

(* A text sets out: `send` hands over its own, `node` a fresh one.         *)
LEMMA TextLeaves ==
    ASSUME Books, TextsInv, NEW p \in Procs,
           SendText(p) \/ \E t \in Texts : SendCommand(p, t)
    PROVE  TextsInv'
<1>. USE DEF TextsInv
<1>1. PICK t \in Texts :
         /\ sent[t] = "unsent" /\ sent' = [sent EXCEPT ![t] = "in flight"]
         /\ report[t] = "none" /\ proc'[p].text = t
         /\ \A q \in Procs : q # p => proc'[q] = proc[q] /\ proc[q].text # t
         /\ proc'[p].cmd = proc[p].cmd
         /\ proc[p].cmd = "send" => proc'[p].pc = "awaiting"
  <2>1. CASE SendText(p)
    <3>1. /\ proc[p].cmd = "send" /\ proc[p].pc = "connected" /\ Goto(p, "awaiting")
          /\ sent' = [sent EXCEPT ![proc[p].text] = "in flight"]
      BY <2>1 DEF SendText, At
    <3>2. SendPlace(p)
      BY <3>1 DEF SendPlaces
    <3>3. proc[p].text \in Texts /\ sent[proc[p].text] = "unsent"
      BY <3>1, <3>2 DEF SendPlace
    <3>4. /\ report[proc[p].text] = "none"
          /\ \A q \in Procs : q # p => proc[q].text # proc[p].text
      BY <3>3, MarkAssumption DEF TextsOwned
    <3>5. /\ proc'[p].text = proc[p].text /\ proc'[p].cmd = proc[p].cmd
          /\ proc'[p].pc = "awaiting" /\ \A q \in Procs : q # p => proc'[q] = proc[q]
      BY <3>1, GotoFacts DEF Pcs, Books
    <3>. QED
      BY <3>1, <3>3, <3>4, <3>5
  <2>2. ASSUME NEW t \in Texts, SendCommand(p, t)
        PROVE  /\ sent[t] = "unsent" /\ sent' = [sent EXCEPT ![t] = "in flight"]
               /\ report[t] = "none" /\ proc'[p].text = t
               /\ \A q \in Procs : q # p => proc'[q] = proc[q] /\ proc[q].text # t
               /\ proc'[p].cmd = proc[p].cmd /\ proc[p].cmd # "send"
    <3>1. proc' = [proc EXCEPT ![p].text = t]
      BY <2>2 DEF SendCommand
    <3>2. /\ proc'[p].cmd = proc[p].cmd /\ proc'[p].text = t
          /\ \A q \in Procs : q # p => proc'[q] = proc[q]
      BY <3>1, ClaimFacts DEF Books
    <3>. QED
      BY <2>2, <3>2 DEF SendCommand, Unclaimed
  <2>. QED
    BY <2>1, <2>2
<1>2. UNCHANGED <<history, writing, report, faults>>
  BY DEF SendText, SendCommand
<1>3. sent'[t] = "in flight" /\ \A u \in Texts : u # t => sent'[u] = sent[u]
  BY <1>1 DEF Books
<1>4. ReportsAreTrue'
  BY <1>1, <1>2, <1>3 DEF ReportsAreTrue, Logged
<1>5. TextsOwned'
  <2>. SUFFICES ASSUME NEW q \in Procs, proc'[q].text # Absent
                PROVE  /\ report[proc'[q].text] = "none"
                       /\ \A r \in Procs : r # q => proc'[r].text # proc'[q].text
    BY <1>2 DEF TextsOwned
  <2>1. CASE q = p
    BY <1>1, <2>1
  <2>2. CASE q # p
    <3>1. proc'[q] = proc[q] /\ proc[q].text # t
      BY <1>1, <2>2
    <3>2. /\ report[proc[q].text] = "none"
          /\ \A r \in Procs : r # q => proc[r].text # proc[q].text
      BY <3>1 DEF TextsOwned
    <3>. QED
      BY <1>1, <3>1, <3>2
  <2>. QED
    BY <2>1, <2>2
<1>6. SendPlaces'
  <2>. SUFFICES ASSUME NEW q \in Procs, proc'[q].cmd = "send" PROVE SendPlace(q)'
    BY DEF SendPlaces
  <2>1. CASE q = p
    BY <1>1, <2>1 DEF SendPlace
  <2>2. CASE q # p
    <3>1. proc'[q] = proc[q] /\ proc[q].text # t
      BY <1>1, <2>2
    <3>2. SendPlace(q)
      BY <3>1 DEF SendPlaces
    <3>3. proc[q].text \in Texts /\ sent'[proc[q].text] = sent[proc[q].text]
      BY <1>3, <3>1, <3>2 DEF SendPlace
    <3>. QED
      BY <1>2, <3>1, <3>2, <3>3 DEF SendPlace, Logged
  <2>. QED
    BY <2>1, <2>2
<1>7. WritesAreTrue'
  BY <1>1, <1>2, <1>3 DEF WritesAreTrue
<1>. QED
  BY <1>4, <1>5, <1>6, <1>7

(* The other device takes a text.                                          *)
LEMMA TextTaken ==
    ASSUME Books, TextsInv, NEW t \in Texts, Taken(t)
    PROVE  TextsInv'
<1>. USE DEF TextsInv
<1>1. /\ UNCHANGED <<history, proc, writing, report, faults>> /\ sent[t] = "in flight"
      /\ \A u \in Texts : u # t => sent'[u] = sent[u]
  BY DEF Taken, Books
<1>2. ReportsAreTrue'
  BY <1>1 DEF ReportsAreTrue, Logged
<1>3. TextsOwned'
  BY <1>1 DEF TextsOwned
<1>4. SendPlaces'
  BY <1>1 DEF SendPlaces, SendPlace, Logged
<1>5. WritesAreTrue'
  BY <1>1 DEF WritesAreTrue
<1>. QED
  BY <1>2, <1>3, <1>4, <1>5

(* The ack comes in: the entry is queued, and a `send` is told after it.   *)
LEMMA TextAcked ==
    ASSUME Books, TextsInv, NEW p \in Procs, NEW t \in Texts, AckReceived(p, t)
    PROVE  TextsInv'
<1>. USE DEF TextsInv
<1>1. /\ UNCHANGED <<history, report, faults>> /\ proc[p].text = t /\ sent[t] = "taken"
      /\ sent' = [sent EXCEPT ![t] = "acked"] /\ AppendHistory(p, Delivered(t))
      /\ Goto(p, IF proc[p].cmd = "send" THEN "acked" ELSE proc[p].pc)
  BY DEF AckReceived, Delivered
<1>2. sent'[t] = "acked" /\ \A u \in Texts : u # t => sent'[u] = sent[u]
  BY <1>1 DEF Books
<1>3. writing'[p] = <<Delivered(t), NL>> /\ \A q \in Procs : q # p => writing'[q] = writing[q]
  BY <1>1, EntryFacts, AppendFacts DEF Books, Delivered
<1>4. /\ proc'[p].cmd = proc[p].cmd /\ proc'[p].text = t
      /\ proc[p].cmd = "send" => proc'[p].pc = "acked"
      /\ \A q \in Procs : q # p => proc'[q] = proc[q]
  <2>1. PICK c \in Pcs : c = IF proc[p].cmd = "send" THEN "acked" ELSE proc[p].pc
    BY DEF Books, ProcType, Pcs
  <2>2. Goto(p, c)
    BY <1>1, <2>1
  <2>. QED
    BY <1>1, <2>1, <2>2, GotoFacts DEF Books
<1>5. ReportsAreTrue'
  BY <1>1, <1>2 DEF ReportsAreTrue, Logged
<1>6. TextsOwned'
  BY <1>1, <1>4 DEF TextsOwned
<1>7. SendPlaces'
  <2>. SUFFICES ASSUME NEW q \in Procs, proc'[q].cmd = "send" PROVE SendPlace(q)'
    BY DEF SendPlaces
  <2>1. CASE q = p
    BY <1>2, <1>3, <1>4, <2>1 DEF SendPlace, Delivered
  <2>2. CASE q # p
    <3>1. SendPlace(q) /\ proc'[q] = proc[q] /\ writing'[q] = writing[q]
      BY <1>3, <1>4, <2>2 DEF SendPlaces
    <3>2. proc[q].text # t
      BY <1>1, <2>2, MarkAssumption DEF TextsOwned
    <3>. QED
      BY <1>1, <1>2, <3>1, <3>2 DEF SendPlace, Logged
  <2>. QED
    BY <2>1, <2>2
<1>8. WritesAreTrue'
  <2>1. \A u : Delivered(t) # Delivered(u) => <<Delivered(t), NL>> # <<Delivered(u), NL>>
    BY PendingEqual
  <2>2. \A u : <<Delivered(t), NL>> = <<Delivered(u), NL>> => u = t
    BY <2>1, EntriesDiffer
  <2>. SUFFICES ASSUME NEW q \in Procs, NEW u \in Texts, writing'[q] = <<Delivered(u), NL>>
                PROVE  sent'[u] = "acked"
    BY DEF WritesAreTrue, Delivered
  <2>3. CASE q = p
    BY <1>2, <1>3, <2>2, <2>3
  <2>4. CASE q # p
    BY <1>2, <1>3, <2>4 DEF WritesAreTrue, Delivered
  <2>. QED
    BY <2>3, <2>4
<1>. QED
  BY <1>5, <1>6, <1>7, <1>8

(* `send` says what it knows, and ends.                                    *)
LEMMA TextReported ==
    ASSUME Books, TextsInv, NEW p \in Procs,
           SayDelivered(p) \/ SessionTimeout(p) \/ AckTimeout(p)
    PROVE  TextsInv'
<1>. USE DEF TextsInv
<1>1. /\ UNCHANGED <<history, writing, sent, faults>> /\ Ends(p)
      /\ proc[p].cmd = "send" /\ writing[p] = <<>>
  BY DEF SayDelivered, SessionTimeout, AckTimeout, At
<1>2. PICK t \in Texts : t = proc[p].text /\ SendPlace(p)
  BY <1>1 DEF SendPlaces, SendPlace
<1>3. \A u \in Texts : u # t => report'[u] = report[u]
  BY <1>2 DEF SayDelivered, SessionTimeout, AckTimeout, Books
<1>4. /\ report'[t] = "delivered" => proc[p].pc = "acked"
      /\ report'[t] = "no session" => proc[p].pc = "connecting"
  BY <1>2 DEF SayDelivered, SessionTimeout, AckTimeout, Books, At
<1>5. proc'[p] = NoProc /\ \A q \in Procs : q # p => proc'[q] = proc[q]
  BY <1>1, EndsFacts DEF Books
<1>6. /\ proc[p].pc = "connecting" => sent[t] = "unsent"
      /\ proc[p].pc = "acked" => sent[t] = "acked" /\ (faults = 0 => Logged(Delivered(t)))
  <2>1. <<>> # <<Delivered(t), NL>>
    OBVIOUS
  <2>. QED
    BY <1>1, <1>2, <2>1 DEF SendPlace, Delivered
<1>7. ReportsAreTrue'
  <2>. SUFFICES ASSUME NEW u \in Texts
                PROVE  /\ report'[u] = "delivered" /\ faults = 0 => Logged(Delivered(u))
                       /\ report'[u] = "delivered" \/ Logged(Delivered(u)) => sent[u] = "acked"
                       /\ report'[u] = "no session" => sent[u] = "unsent"
    BY <1>1 DEF ReportsAreTrue, Delivered, Logged
  <2>1. /\ report[u] = "delivered" /\ faults = 0 => Logged(Delivered(u))
        /\ report[u] = "delivered" \/ Logged(Delivered(u)) => sent[u] = "acked"
        /\ report[u] = "no session" => sent[u] = "unsent"
    BY DEF ReportsAreTrue, Delivered
  <2>2. CASE u = t
    BY <1>4, <1>6, <2>1, <2>2, Zenon
  <2>3. CASE u # t
    <3>1. report'[u] = report[u]
      BY <1>3, <2>3
    <3>. QED
      BY <2>1, <3>1, Zenon
  <2>. QED
    BY <2>2, <2>3
<1>8. TextsOwned'
  <2>. SUFFICES ASSUME NEW q \in Procs, proc'[q].text # Absent
                PROVE  /\ report'[proc'[q].text] = "none"
                       /\ \A r \in Procs : r # q => proc'[r].text # proc'[q].text
    BY DEF TextsOwned
  <2>a. q # p /\ proc'[q] = proc[q]
    BY <1>5, NoProcFacts
  <2>1. q # p /\ proc'[q] = proc[q] /\ proc[q].text \in Texts
    <3>1. proc[q] \in ProcType
      BY DEF Books
    <3>. QED
      BY <2>a, <3>1 DEF ProcType
  <2>2. proc[q].text # t /\ report[proc[q].text] = "none"
    BY <1>2, <2>1 DEF TextsOwned
  <2>. QED
    BY <1>3, <1>5, <2>1, <2>2, NoProcFacts DEF TextsOwned
<1>9. SendPlaces'
  BY <1>1, <1>5, NoProcFacts DEF SendPlaces, SendPlace, Logged
<1>10. WritesAreTrue'
  BY <1>1 DEF WritesAreTrue
<1>. QED
  BY <1>7, <1>8, <1>9, <1>10

(* Every step keeps what is said of the texts true.                        *)
LEMMA TextsStep ==
    ASSUME Books, FileTypes, TextsInv, [Next]_vars
    PROVE  TextsInv'
<1>1. CASE UNCHANGED vars
  <2>1. UNCHANGED <<history, proc, writing, sent, report, faults>>
    BY <1>1 DEF vars, textVars
  <2>. QED
    BY <2>1, TextQuietStep, TextIdle DEF Logged
<1>2. ASSUME NEW p \in Procs, Starts(p) PROVE TextsInv'
  BY <1>2, TextInitSteps, TextStartNode DEF Starts
<1>3. ASSUME NEW p \in Procs, Runs(p) PROVE TextsInv'
  BY <1>3, TextInitSteps, TextHistoryWrite, TextLeaves, TextReported DEF Runs
<1>4. ASSUME NEW p \in Procs, \E t \in Texts : SendCommand(p, t) \/ AckReceived(p, t)
      PROVE  TextsInv'
  BY <1>4, TextLeaves, TextAcked
<1>. QED
  BY <1>1, <1>2, <1>3, <1>4, TextOtherEvents, TextFaults, TextTaken DEF Next

(* What `send` and the log say of a text is so (cmd_send, on_session_event) *)
(* and stays so, whatever the faults, timeouts and late acks.              *)
THEOREM ReportsStayTrue ==
    Spec => []ReportsAreTrue
<1>1. Init => TextsInv
  <2>. SUFFICES ASSUME Init PROVE TextsInv
    OBVIOUS
  <2>1. \A p \in Procs : proc[p].cmd = "none" /\ proc[p].text = Absent /\ writing[p] = <<>>
    BY NoProcFacts DEF Init
  <2>2. \A x : ~Logged(x)
    BY DEF Init, Logged
  <2>3. \A t \in Texts : sent[t] = "unsent" /\ report[t] = "none"
    BY DEF Init
  <2>4. \A d : <<>> # <<d, NL>>
    OBVIOUS
  <2>. QED
    BY <2>1, <2>2, <2>3, <2>4 DEF TextsInv, ReportsAreTrue, TextsOwned, SendPlaces, WritesAreTrue
<1>2. FilesInv /\ TextsInv /\ [Next]_vars => TextsInv'
  BY TextsStep DEF FilesInv, Directory
<1>3. TextsInv => ReportsAreTrue
  BY DEF TextsInv
<1>. QED
  BY <1>1, <1>2, <1>3, FilesInvariant, PTL DEF Spec

-----------------------------------------------------------------------------
(* Steps and the log.                                                      *)

(* The last line of the log is open.                                       *)
Open == history # <<>> /\ history[Len(history)] # NL

Ending == \E q \in Procs : writing[q] = <<NL>>

(* A line dangles if it is open and its end is not about to be written.    *)
LEMMA DanglingFacts == Dangling <=> Open /\ ~Ending
BY DEF Dangling, Open, Ending

(* The joints of a log are finitely many.                                  *)
LEMMA JointsFinite ==
    ASSUME NEW S, history \in Seq(S)
    PROVE  IsFiniteSet(Joints) /\ Cardinality(Joints) \in Nat
<1>1. Len(history) \in Nat
  OBVIOUS
<1>2. IsFiniteSet(1..(Len(history) - 1))
  BY <1>1, FS_Interval
<1>3. Joints \subseteq 1..(Len(history) - 1)
  BY DEF Joints
<1>4. IsFiniteSet(Joints)
  BY <1>2, <1>3, FS_Subset
<1>. QED
  BY <1>4, FS_CardinalityType

(* An append makes a joint where the last line was open and the append     *)
(* does not end it.                                                        *)
LEMMA JointsAppend ==
    ASSUME NEW S, history \in Seq(S), NEW e \in S, history' = Append(history, e)
    PROVE  /\ Open' <=> e # NL
           /\ Cardinality(Joints') =
                 Cardinality(Joints) + (IF Open /\ e # NL THEN 1 ELSE 0)
<1>. DEFINE n == Len(history)
<1>1. /\ n \in Nat /\ Len(history') = n + 1 /\ history'[n + 1] = e
      /\ \A i \in 1..n : history'[i] = history[i]
      /\ history' \in Seq(S)
  BY AppendProperties
<1>2. n = 0 <=> history = <<>>
  OBVIOUS
<1>3. Open' <=> e # NL
  <2>1. history' # <<>>
    BY <1>1
  <2>. QED
    BY <1>1, <2>1 DEF Open
<1>. HIDE DEF n
<1>4. Joints' = {k \in 1..n : history'[k] # NL /\ history'[k + 1] # NL}
  <2>1. Len(history') - 1 = n
    BY <1>1
  <2>. QED
    BY <2>1 DEF Joints
<1>5. Joints = {k \in 1..(n - 1) : history[k] # NL /\ history[k + 1] # NL}
  BY DEF Joints, n
<1>6. ASSUME NEW k \in 1..(n - 1)
      PROVE  /\ k \in 1..n /\ k + 1 \in 1..n
             /\ history'[k] = history[k] /\ history'[k + 1] = history[k + 1]
  BY <1>1
<1>7. \A k \in 1..n : k \in 1..(n - 1) \/ k = n
  BY <1>1
<1>8. Joints \subseteq Joints' /\ Joints' \subseteq Joints \cup {n} /\ n \notin Joints
  <2>1. n \notin 1..(n - 1)
    BY <1>1
  <2>. QED
    BY <1>4, <1>5, <1>6, <1>7, <2>1
<1>9. n \in Joints' <=> Open /\ e # NL
  <2>1. CASE n = 0
    <3>1. n \notin 1..n
      BY <1>1, <2>1
    <3>. QED
      BY <1>2, <1>4, <2>1, <3>1 DEF Open
  <2>2. CASE n # 0
    <3>1. n \in 1..n
      BY <1>1, <2>2
    <3>2. history'[n] = history[n]
      BY <1>1, <3>1
    <3>. QED
      BY <1>1, <1>2, <1>4, <2>2, <3>1, <3>2 DEF Open, n
  <2>. QED
    BY <2>1, <2>2
<1>10. IsFiniteSet(Joints) /\ Cardinality(Joints) \in Nat
  BY JointsFinite
<1>11. CASE Open /\ e # NL
  <2>1. Joints' = Joints \cup {n}
    BY <1>8, <1>9, <1>11
  <2>2. Cardinality(Joints \cup {n}) = Cardinality(Joints) + 1
    BY <1>8, <1>10, FS_AddElement
  <2>. QED
    BY <1>3, <1>11, <2>1, <2>2
<1>12. CASE ~(Open /\ e # NL)
  <2>1. Joints' = Joints
    BY <1>8, <1>9, <1>12
  <2>. QED
    BY <1>3, <1>10, <1>12, <2>1
<1>. QED
  BY <1>11, <1>12

(* A step that leaves the log alone leaves no line open but one that was,  *)
(* or it is counted.                                                       *)
LEMMA LogKept ==
    ASSUME Books, LogInv, UNCHANGED history, mishaps' \in Nat,
           \/ mishaps' = mishaps /\ (Ending => Ending')
           \/ mishaps' >= mishaps + 1
    PROVE  LogInv'
<1>1. Joints' = Joints /\ Open' = Open
  BY DEF Joints, Open
<1>2. Cardinality(Joints) \in Nat
  BY JointsFinite DEF Books
<1>3. mishaps \in Nat /\ Cardinality(Joints) + (IF Dangling THEN 1 ELSE 0) <= mishaps
  BY DEF LogInv, Books
<1>4. mishaps' = mishaps /\ (Ending => Ending') => (Dangling' => Dangling)
  BY <1>1, DanglingFacts DEF Dangling, Open, Ending
<1>5. Cardinality(Joints) + (IF Dangling' THEN 1 ELSE 0) <= mishaps'
  BY <1>2, <1>3, <1>4
<1>. QED
  BY <1>1, <1>5 DEF LogInv

(* The two writes of an append.                                            *)
LEMMA LogWrite ==
    ASSUME Books, LogInv, NEW p \in Procs, HistoryWrite(p)
    PROVE  LogInv'
<1>. DEFINE e == Head(writing[p])
            S == Entries \cup {NL, Torn}
<1>1. /\ writing[p] # <<>> /\ writing[p] \in Appends /\ history \in Seq(S)
      /\ history' = Append(history, e)
      /\ writing'[p] = Tail(writing[p])
      /\ mishaps \in Nat /\ mishaps' = mishaps + IF e # NL /\ Ending THEN 1 ELSE 0
  BY DEF HistoryWrite, Books, Ending
<1>2. e \in S /\ (e # NL => Tail(writing[p]) = <<NL>>)
  BY <1>1, WritingFacts
<1>. HIDE DEF e, S
<1>3. /\ Open' <=> e # NL
      /\ Cardinality(Joints') = Cardinality(Joints) + (IF Open /\ e # NL THEN 1 ELSE 0)
      /\ Cardinality(Joints) \in Nat
  BY <1>1, <1>2, JointsAppend, JointsFinite
<1>4. ~Dangling'
  <2>1. e # NL => Ending'
    BY <1>1, <1>2 DEF Ending
  <2>. QED
    BY <1>3, <2>1 DEF Dangling, Open, Ending
<1>5. Cardinality(Joints) + (IF Open /\ ~Ending THEN 1 ELSE 0) <= mishaps
  BY DanglingFacts DEF LogInv
<1>6. Cardinality(Joints') <= mishaps'
  <2>1. mishaps' = mishaps + 1 \/ (mishaps' = mishaps /\ ~(e # NL /\ Ending))
    BY <1>1
  <2>. QED
    BY <1>1, <1>3, <1>5, <2>1
<1>7. Cardinality(Joints') \in Nat
  BY <1>3
<1>. QED
  BY <1>4, <1>6, <1>7 DEF LogInv

(* A write that fails, having written nothing or a piece.                  *)
LEMMA LogError ==
    ASSUME Books, LogInv, NEW p \in Procs, HistoryError(p)
    PROVE  LogInv'
<1>. DEFINE S == Entries \cup {NL, Torn}
<1>0. history \in Seq(S) /\ Torn \in S /\ mishaps \in Nat
  BY DEF Books
<1>. HIDE DEF S
<1>1. CASE history' = history
  <2>1. mishaps' = mishaps + 1 + 0
    BY <1>1 DEF HistoryError
  <2>. QED
    BY <1>0, <1>1, <2>1, LogKept
<1>2. CASE history' # history
  <2>1. history' = Append(history, Torn)
    BY <1>2 DEF HistoryError
  <2>2. mishaps' = mishaps + 1 + IF Ending THEN 1 ELSE 0
    BY <1>2 DEF HistoryError, Ending
  <2>3. /\ Cardinality(Joints') = Cardinality(Joints) + (IF Open THEN 1 ELSE 0)
        /\ Cardinality(Joints) \in Nat
    BY <1>0, <2>1, JointsAppend, JointsFinite, MarkAssumption
  <2>4. Cardinality(Joints) + (IF Open /\ ~Ending THEN 1 ELSE 0) <= mishaps
    BY DanglingFacts DEF LogInv
  <2>5. Cardinality(Joints') + 1 <= mishaps'
    BY <1>0, <2>2, <2>3, <2>4
  <2>6. Cardinality(Joints') \in Nat /\ mishaps' \in Nat
    BY <1>0, <2>2, <2>3
  <2>7. Cardinality(Joints') + (IF Dangling' THEN 1 ELSE 0) <= mishaps'
    BY <2>5, <2>6
  <2>. QED
    BY <2>7 DEF LogInv
<1>. QED
  BY <1>1, <1>2

(* A power cut takes the end of the log, and no joint comes of it.         *)
LEMMA LogCut ==
    ASSUME Books, LogInv, PowerLoss
    PROVE  LogInv'
<1>. DEFINE S == Entries \cup {NL, Torn}
<1>0. /\ history \in Seq(S) /\ Torn \in S /\ mishaps \in Nat /\ mishaps' = mishaps + 1
  BY DEF Books, PowerLoss
<1>1. PICK n \in 0..Len(history) : history' \in Cut(n)
  BY DEF PowerLoss
<1>. HIDE DEF S
<1>2. /\ history' \in Seq(S) /\ \A i \in 1..n : history'[i] = history[i]
      /\ \/ Len(history') = n
         \/ Len(history') = n + 1 /\ n + 1 \in 1..Len(history) /\ history[n + 1] # NL
  BY <1>0, <1>1, CutFacts
<1>3. Len(history) \in Nat /\ Len(history') \in Nat /\ n \in Nat /\ n <= Len(history)
  BY <1>0, <1>2
<1>4. ASSUME NEW k \in Joints' PROVE k \in Joints
  <2>1. k \in 1..(Len(history') - 1) /\ history'[k] # NL /\ history'[k + 1] # NL
    BY <1>4 DEF Joints
  <2>2. k \in 1..n /\ k \in 1..(Len(history) - 1) /\ (k + 1 \in 1..n \/ k + 1 = n + 1)
    BY <1>2, <1>3, <2>1
  <2>3. history[k] # NL
    BY <1>2, <2>1, <2>2
  <2>4. history[k + 1] # NL
    <3>1. CASE k + 1 \in 1..n
      BY <1>2, <2>1, <3>1
    <3>2. CASE k + 1 = n + 1 /\ k + 1 \notin 1..n
      <4>1. Len(history') = n + 1
        BY <1>3, <2>1, <3>2, <1>2
      <4>2. Len(history') # n
        BY <1>3, <4>1
      <4>3. history[n + 1] # NL
        BY <1>2, <4>2
      <4>. QED
        BY <3>2, <4>3
    <3>. QED
      BY <2>2, <3>1, <3>2
  <2>. QED
    BY <2>2, <2>3, <2>4 DEF Joints
<1>5. Joints' \subseteq Joints
  BY <1>4
<1>6. IsFiniteSet(Joints) /\ Cardinality(Joints) \in Nat
  BY <1>0, JointsFinite
<1>7. Cardinality(Joints') <= Cardinality(Joints) /\ Cardinality(Joints') \in Nat
  BY <1>5, <1>6, FS_Subset, FS_CardinalityType
<1>8. Cardinality(Joints) <= mishaps
  BY <1>0, <1>6 DEF LogInv
<1>9. Cardinality(Joints') + (IF Dangling' THEN 1 ELSE 0) <= mishaps'
  BY <1>0, <1>6, <1>7, <1>8
<1>. QED
  BY <1>9 DEF LogInv

(* A process that is killed between the two writes leaves its line open.   *)
LEMMA LogKilled ==
    ASSUME Books, LogInv, NEW p \in Procs, Killed(p)
    PROVE  LogInv'
<1>1. /\ UNCHANGED history /\ mishaps \in Nat /\ writing' = [writing EXCEPT ![p] = <<>>]
      /\ mishaps' = mishaps + IF writing[p] = <<NL>> THEN 1 ELSE 0
  BY DEF Killed, Books
<1>2. CASE writing[p] = <<NL>>
  <2>1. mishaps' = mishaps + 1
    BY <1>1, <1>2
  <2>2. mishaps' \in Nat /\ mishaps' >= mishaps + 1
    BY <1>1, <2>1
  <2>. QED
    BY <1>1, <2>2, LogKept
<1>3. CASE writing[p] # <<NL>>
  <2>1. mishaps' = mishaps
    BY <1>1, <1>3
  <2>2. Ending => Ending'
    BY <1>1, <1>3 DEF Ending, Books
  <2>. QED
    BY <1>1, <2>1, <2>2, LogKept
<1>. QED
  BY <1>2, <1>3

(* An event is logged by a node that was not in the middle of an append.   *)
LEMMA LogEvents ==
    ASSUME Books, LogInv, NEW p \in Procs,
           \/ SessionEstablished(p)
           \/ \E t \in Texts : AckReceived(p, t)
           \/ \E t \in Inbox : MessageReceived(p, t)
    PROVE  LogInv'
<1>1. /\ UNCHANGED <<history, mishaps>> /\ writing[p] = <<>>
      /\ \E e : writing' = [writing EXCEPT ![p] = <<e, NL>>]
  <2>1. CASE SessionEstablished(p)
    BY <2>1, Zenon DEF SessionEstablished, Polls, AppendHistory
  <2>2. CASE \E t \in Texts : AckReceived(p, t)
    BY <2>2, Zenon DEF AckReceived, Polls, AppendHistory
  <2>3. CASE \E t \in Inbox : MessageReceived(p, t)
    BY <2>3, Zenon DEF MessageReceived, Polls, AppendHistory
  <2>. QED
    BY <2>1, <2>2, <2>3
<1>2. Ending => Ending'
  <2>1. \A q \in Procs : q # p => writing'[q] = writing[q]
    BY <1>1 DEF Books
  <2>2. <<>> # <<NL>>
    OBVIOUS
  <2>. QED
    BY <1>1, <2>1, <2>2 DEF Ending
<1>3. mishaps' = mishaps /\ mishaps' \in Nat
  BY <1>1 DEF Books
<1>. QED
  BY <1>1, <1>2, <1>3, LogKept

(* Every step pays for the damage it does.                                 *)
LEMMA LogStep ==
    ASSUME Books, LogInv, [Next]_vars
    PROVE  LogInv'
<1>1. CASE UNCHANGED <<history, writing, mishaps>>
  <2>1. (Ending => Ending') /\ mishaps' = mishaps /\ mishaps' \in Nat
    BY <1>1 DEF Ending, Books
  <2>. QED
    BY <1>1, <2>1, LogKept
<1>2. ASSUME NEW p \in Procs, Starts(p) PROVE UNCHANGED <<history, writing, mishaps>>
  BY <1>2 DEF Starts, StartInit, StartNode
<1>3. ASSUME NEW p \in Procs, Runs(p), ~HistoryWrite(p)
      PROVE  UNCHANGED <<history, writing, mishaps>>
  BY <1>3 DEF Runs, WriteAtomic, SayCreated, SendText, SayDelivered, SessionTimeout, AckTimeout
<1>4. ASSUME NEW p \in Procs,
             \/ Quit(p)
             \/ \E t \in Texts : SendCommand(p, t)
             \/ \E t \in Inbox : TextArrives(p, t)
      PROVE  UNCHANGED <<history, writing, mishaps>>
  BY <1>4 DEF Quit, SendCommand, TextArrives
<1>5. ASSUME (\E t \in Texts : Taken(t)) \/ Settle
      PROVE  UNCHANGED <<history, writing, mishaps>>
  BY <1>5 DEF Taken, Settle
<1>6. CASE UNCHANGED vars
  BY <1>1, <1>6 DEF vars
<1>. QED
  BY <1>1, <1>2, <1>3, <1>4, <1>5, <1>6, LogWrite, LogError, LogCut, LogKilled, LogEvents DEF Next

(* The log has no more spoilt lines than appends were cut short or begun   *)
(* inside another (append_history), however many processes share it.       *)
THEOREM LogDamage ==
    Spec => []LogDamageIsBounded
<1>1. Init => LogInv
  <2>. SUFFICES ASSUME Init PROVE LogInv
    OBVIOUS
  <2>1. history = <<>> /\ mishaps = 0 /\ ~Dangling
    BY DEF Init, Dangling
  <2>2. Joints = {}
    BY <2>1 DEF Joints
  <2>. QED
    BY <2>1, <2>2, FS_EmptySet DEF LogInv
<1>2. FilesInv /\ LogInv /\ [Next]_vars => LogInv'
  BY LogStep DEF FilesInv
<1>3. FilesInv /\ LogInv => LogDamageIsBounded
  <2>. SUFFICES ASSUME FilesInv, LogInv PROVE LogDamageIsBounded
    OBVIOUS
  <2>1. Cardinality(Joints) \in Nat /\ mishaps \in Nat
    BY JointsFinite DEF FilesInv, Books
  <2>2. Cardinality(Joints) + (IF Dangling THEN 1 ELSE 0) <= mishaps
    BY DEF LogInv
  <2>3. Cardinality(Joints) <= mishaps
    BY <2>1, <2>2
  <2>. QED
    BY <2>3 DEF LogDamageIsBounded
<1>. QED
  BY <1>1, <1>2, <1>3, FilesInvariant, PTL DEF Spec
=============================================================================
