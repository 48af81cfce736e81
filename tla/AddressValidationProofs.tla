---------------------- MODULE AddressValidationProofs ----------------------
(***************************************************************************)
(* For any number of addresses and probers and any timeouts: the tables of *)
(* the owner agree with each other and with its record, and what it        *)
(* believes to be reachable was reached, or credited with a session.       *)
(***************************************************************************)
EXTENDS AddressValidation, FiniteSetTheorems, SequenceTheorems, TLAPS

(* The shapes of the tables.                                               *)
Candidates ==
    [state : {"Pending", "Validated", "Rejected"}, prober : Probers,
     age : 0..RevalidateInterval, attempts : 0..MaxAttempts]

Probes == [addr : Addrs, age : 0..ProbeTimeout]

(* Where a prober has answered for: reached, or credited with a session.   *)
Earned == reached \cup credited

(* Frames to the owner: a result is about a candidate, and a good one is   *)
(* about an address that was reached, or credited with a session.          *)
Frames ==
    {f \in [type : {"Observed", "DialBackRes"}, addr : Addrs \cup {LocalAddr}, ok : BOOLEAN] :
        /\ f.type = "DialBackRes" => f.addr \in Addrs
        /\ f.ok => f.type = "DialBackRes" /\ f.addr \in Earned}

OwnerTypes ==
    /\ cand \in [Addrs -> Candidates \cup {None}]
    /\ \A a \in Addrs :
          cand[a] # None => ((cand[a].attempts > 0) <=> (cand[a].state = "Rejected"))
    /\ validated \subseteq Addrs /\ record \subseteq Addrs /\ local \in 0..MaxAddrs

NetTypes ==
    /\ session \in [Probers -> BOOLEAN]
    /\ toProber \in [Probers -> Seq(Addrs)]
    /\ toOwner \in [Probers -> Seq(Frames)]
    /\ probe \in [Probers -> Probes \cup {None}]
    /\ dials \in [Probers -> [Addrs -> 0..MaxDials]]
    /\ reached \subseteq Addrs /\ credited \subseteq Addrs /\ others \in Nat

(* Without a session there is nothing on the way and nothing pending.      *)
Closed == \A p \in Probers : ~session[p] => toProber[p] = <<>> /\ toOwner[p] = <<>> /\ probe[p] = None

Agreed ==
    /\ \A a \in Addrs :
        /\ InState(a, "Validated") => a \in validated
        /\ a \in validated => InState(a, "Validated") \/ InState(a, "Pending")
    /\ validated \subseteq record \/ Full(local, record)

OwnerInv == OwnerTypes /\ Agreed /\ validated \subseteq Earned

(* A session that did not reach the address it was taken for replaced      *)
(* another one, or was dialed for an earlier probe.                        *)
Credits == \A a \in credited : others > 0 \/ \E b \in reached : b # a

NetInv == NetTypes /\ Closed /\ Credits

-----------------------------------------------------------------------------
(* Facts about candidates, frames and queues.                              *)

(* The absence of a candidate or of a probe is none of them.               *)
LEMMA NoneFacts == None \notin Candidates /\ None \notin Probes
<1>1. ASSUME NEW c \in Candidates 
      PROVE  c \in [state : {"Pending", "Validated", "Rejected"}, prober : Probers,
                    age : Nat, attempts : Nat]
  BY DEF Candidates
<1>2. ASSUME NEW b \in Probes PROVE b \in [addr : Addrs, age : Nat]
  BY DEF Probes
<1>. QED
  BY <1>1, <1>2, NamesAssumption

(* A candidate that is asked for or validated starts afresh.               *)
LEMMA CandidateFacts ==
    ASSUME NEW s \in {"Pending", "Validated"}, NEW p \in Probers
    PROVE  /\ Candidate(s, p, 0) \in Candidates /\ Candidate(s, p, 0) # None
           /\ Candidate(s, p, 0).state = s /\ Candidate(s, p, 0).attempts = 0
<1>1. 0 \in 0..RevalidateInterval /\ 0 \in 0..MaxAttempts
  BY TimesAssumption, LimitsAssumption
<1>2. Candidate(s, p, 0) \in Candidates
  BY <1>1 DEF Candidate, Candidates
<1>. QED
  BY <1>2, NoneFacts DEF Candidate

(* A rejection is counted, and the count stops at the limit.               *)
LEMMA RejectionFacts ==
    ASSUME NEW c \in Candidates
    PROVE  /\ Rejection(c) \in Candidates /\ Rejection(c) # None
           /\ Rejection(c).state = "Rejected" /\ Rejection(c).attempts > 0
<1>. DEFINE n == IF c.state = "Rejected" THEN Lesser(c.attempts + 1, MaxAttempts) ELSE 1
<1>1. c.prober \in Probers /\ c.attempts \in 0..MaxAttempts
  BY DEF Candidates
<1>2. MaxAttempts \in Nat \ {0} /\ RevalidateInterval \in Nat
  BY TimesAssumption, LimitsAssumption
<1>3. n \in 0..MaxAttempts /\ n > 0
  BY <1>1, <1>2 DEF Lesser
<1>4. Rejection(c) = [state |-> "Rejected", prober |-> c.prober, age |-> 0, attempts |-> n]
  BY DEF Rejection, Candidate
<1>. HIDE DEF n
<1>5. Rejection(c) \in Candidates
  BY <1>1, <1>2, <1>3, <1>4 DEF Candidates
<1>. QED
  BY <1>3, <1>4, <1>5, NoneFacts

(* The first frame of a queue, and the rest.                               *)
LEMMA HeadFacts ==
    ASSUME NEW S, NEW q \in Seq(S), q # <<>>
    PROVE  Head(q) \in S /\ Tail(q) \in Seq(S)
OBVIOUS

(* A queue of one.                                                         *)
LEMMA SingleFacts ==
    ASSUME NEW S, NEW f \in S
    PROVE  <<f>> \in Seq(S)
OBVIOUS

(* A frame for the owner when a session is there to carry it.              *)
LEMMA SendFacts ==
    ASSUME NEW S, NEW queues \in [Probers -> Seq(S)], NEW p \in Probers, NEW f \in S
    PROVE  /\ SendTo(queues, p, f) \in [Probers -> Seq(S)]
           /\ ~session[p] => SendTo(queues, p, f) = queues
           /\ \A q \in Probers : q # p => SendTo(queues, p, f)[q] = queues[q]
BY AppendProperties DEF SendTo

(* More addresses reached make no frame bad.                               *)
LEMMA FramesGrow ==
    ASSUME Earned \subseteq Earned', NEW q \in Seq(Frames)
    PROVE  q \in Seq(Frames')
<1>1. Frames \subseteq Frames'
  BY DEF Frames
<1>2. \A i \in 1..Len(q) : q[i] \in Frames'
  BY <1>1
<1>. QED
  BY <1>2

(* The frames that are sent.                                               *)
LEMMA FrameFacts ==
    /\ \A a \in Addrs : ResultFrame(a, FALSE) \in Frames
    /\ \A a \in Addrs : a \in Earned => ResultFrame(a, TRUE) \in Frames
    /\ \A a \in Addrs \cup {LocalAddr} : ObservedFrame(a) \in Frames
BY DEF ResultFrame, ObservedFrame, Frames

(* The requests that a tick sends to a prober.                             *)
LEMMA AskedFacts ==
    ASSUME NEW T, T \subseteq Addrs, NEW q \in SetToSeqs(T)
    PROVE  q \in Seq(Addrs)
<1>1. IsFiniteSet(T)
  BY NamesAssumption, FS_Subset
<1>2. Cardinality(T) \in Nat
  BY <1>1, FS_CardinalityType
<1>3. q \in [1..Cardinality(T) -> T]
  BY DEF SetToSeqs
<1>4. q \in [1..Cardinality(T) -> Addrs]
  BY <1>3
<1>. QED
  BY <1>2, <1>4

-----------------------------------------------------------------------------
(* The owner's tables.                                                     *)

(* What an answer of a prober is about.                                    *)
LEMMA ResultFacts ==
    ASSUME OwnerTypes, NetTypes, NEW p \in Probers, Arrives(p, "DialBackRes")
    PROVE  /\ Head(toOwner[p]).addr \in Addrs /\ Head(toOwner[p]).ok \in BOOLEAN
           /\ Head(toOwner[p]).ok => Head(toOwner[p]).addr \in Earned
<1>1. Head(toOwner[p]) \in Frames
  BY HeadFacts DEF Arrives, NetTypes
<1>. QED
  BY <1>1 DEF Arrives, Frames

(* A new state for one candidate.                                          *)
LEMMA CandSet ==
    ASSUME OwnerTypes, NEW a \in Addrs, NEW c \in Candidates,
           (c.attempts > 0) <=> (c.state = "Rejected"),
           cand' = [cand EXCEPT ![a] = c],
           validated' \subseteq Addrs, record' \subseteq Addrs, local' \in 0..MaxAddrs
    PROVE  /\ OwnerTypes' /\ cand'[a] = c /\ c # None
           /\ \A b \in Addrs : b # a => cand'[b] = cand[b]
<1>1. cand' \in [Addrs -> Candidates \cup {None}] /\ cand'[a] = c
  BY DEF OwnerTypes
<1>2. \A b \in Addrs : b # a => cand'[b] = cand[b]
  BY DEF OwnerTypes
<1>3. ASSUME NEW b \in Addrs, cand'[b] # None
      PROVE  (cand'[b].attempts > 0) <=> (cand'[b].state = "Rejected")
  <2>1. CASE b = a
    BY <1>1, <2>1
  <2>2. CASE b # a
    BY <1>2, <1>3, <2>2 DEF OwnerTypes
  <2>. QED
    BY <2>1, <2>2
<1>. QED
  BY <1>1, <1>2, <1>3, NoneFacts DEF OwnerTypes

(* A record holds every validated address unless it is full.               *)
LEMMA PublishedFacts ==
    ASSUME OwnerTypes, NEW v, v \subseteq Addrs, NEW l \in 0..MaxAddrs, NEW r \in Published(v, l)
    PROVE  r \subseteq Addrs /\ (v \subseteq r \/ Full(l, r))
<1>1. CASE v = {} /\ l = 0
  BY <1>1 DEF OwnerTypes, Published
<1>2. CASE ~(v = {} /\ l = 0)
  <2>1. r \subseteq v /\ Cardinality(r) = Lesser(Cardinality(v), MaxAddrs - l)
    BY <1>2 DEF Published, Truncations
  <2>2. IsFiniteSet(v) /\ Cardinality(v) \in Nat
    BY NamesAssumption, FS_Subset, FS_CardinalityType
  <2>3. CASE Cardinality(r) = Cardinality(v)
    BY <2>1, <2>2, <2>3, FS_Subset
  <2>4. CASE Cardinality(r) = MaxAddrs - l
    BY <2>1, <2>4, LimitsAssumption DEF Full
  <2>. QED
    BY <2>1, <2>3, <2>4 DEF Lesser
<1>. QED
  BY <1>1, <1>2

(* More listen addresses leave a full record full.                         *)
LEMMA FullGrows ==
    ASSUME NEW r, r \subseteq Addrs, NEW l \in 0..MaxAddrs, NEW m \in 0..MaxAddrs,
           m >= l, Full(l, r)
    PROVE  Full(m, r)
<1>1. Cardinality(r) \in Nat
  BY NamesAssumption, FS_Subset, FS_CardinalityType
<1>. QED
  BY <1>1, LimitsAssumption DEF Full

(* The state of a and of no other candidate becomes that of c.             *)
LEMMA AgreedSet ==
    ASSUME OwnerTypes, Agreed, NEW a \in Addrs, NEW c, c # None, cand'[a] = c,
           \A b \in Addrs : b # a => cand'[b] = cand[b],
           \/ c.state = "Validated" /\ validated' = validated \cup {a}
           \/ c.state = "Pending" /\ validated' = validated
           \/ c.state = "Rejected" /\ validated' = validated \ {a},
           validated' \subseteq record' \/ Full(local', record')
    PROVE  Agreed'
<1>1. ASSUME NEW b \in Addrs
      PROVE  /\ InState(b, "Validated")' => b \in validated'
             /\ b \in validated' => InState(b, "Validated")' \/ InState(b, "Pending")'
  <2>1. CASE b = a
    BY <2>1 DEF InState
  <2>2. CASE b # a
    BY <2>2 DEF InState, Agreed
  <2>. QED
    BY <2>1, <2>2
<1>. QED
  BY <1>1 DEF Agreed

-----------------------------------------------------------------------------
(* The steps of the owner.                                                 *)

(* A step that leaves the owner alone, and answers for no fewer addresses, *)
(* keeps its invariant.                                                    *)
LEMMA OwnerKept ==
    ASSUME OwnerInv, UNCHANGED owner, Earned \subseteq Earned'
    PROVE  OwnerInv'
BY DEF OwnerInv, owner, OwnerTypes, Agreed, InState, Full

(* What has been reached and credited stays so.                            *)
LEMMA EarnedKept ==
    ASSUME UNCHANGED <<reached, credited>>
    PROVE  Earned' = Earned /\ Frames' = Frames
BY DEF Earned, Frames

(* A step that leaves sessions, frames and probers alone keeps theirs.     *)
LEMMA NetKept ==
    ASSUME NetInv, UNCHANGED <<session, frames, prober, reached, credited, others>>
    PROVE  NetInv'
BY EarnedKept DEF NetInv, NetTypes, Closed, Credits, frames, prober

(* The owner takes a frame, and may send a request to the same peer.       *)
LEMMA NetTaken ==
    ASSUME NetInv, NEW p \in Probers, toOwner[p] # <<>>, TakeResult(p),
           UNCHANGED <<session, prober, reached, credited, others>>,
           toProber' \in [Probers -> Seq(Addrs)],
           \A q \in Probers : q # p => toProber'[q] = toProber[q]
    PROVE  NetInv'
<1>1. session[p]
  BY DEF NetInv, NetTypes, Closed
<1>2. Tail(toOwner[p]) \in Seq(Frames)
  BY HeadFacts DEF NetInv, NetTypes
<1>3. toOwner' \in [Probers -> Seq(Frames)] /\ \A q \in Probers : q # p => toOwner'[q] = toOwner[q]
  BY <1>2 DEF NetInv, NetTypes, TakeResult
<1>4. toOwner' \in [Probers -> Seq(Frames')]
  <2>1. Frames' = Frames
    BY EarnedKept
  <2>. QED
    BY <1>3, <2>1
<1>5. NetTypes'
  BY <1>4 DEF NetInv, NetTypes, prober
<1>6. Closed'
  BY <1>1, <1>3 DEF NetInv, Closed, prober
<1>. QED
  BY <1>5, <1>6 DEF NetInv, Credits

(* An observed address becomes a candidate and is sent to be dialed.       *)
LEMMA StepObserved ==
    ASSUME OwnerInv, NetInv, NEW p \in Probers, OnObservedAddr(p)
    PROVE  OwnerInv' /\ NetInv'
<1>. DEFINE a == Head(toOwner[p]).addr
<1>1. /\ toOwner[p] # <<>> /\ WorthValidating(a)
      /\ cand' = [cand EXCEPT ![a] = Candidate("Pending", p, 0)]
      /\ toProber' = SendTo(toProber, p, a) /\ TakeResult(p)
      /\ UNCHANGED <<validated, local, record, session, prober, world>>
  BY DEF OnObservedAddr, Arrives
<1>2. a \in Addrs
  BY <1>1 DEF WorthValidating
<1>. HIDE DEF a
<1>3. UNCHANGED <<validated, local, record, session, probe, dials, reached, credited, others>>
  BY <1>1 DEF prober, world
<1>4. NetInv'
  <2>1. /\ SendTo(toProber, p, a) \in [Probers -> Seq(Addrs)]
        /\ \A q \in Probers : q # p => SendTo(toProber, p, a)[q] = toProber[q]
    <3>1. toProber \in [Probers -> Seq(Addrs)]
      BY DEF NetInv, NetTypes
    <3>. QED
      BY <1>2, <3>1, SendFacts
  <2>. QED
    BY <1>1, <1>3, <2>1, NetTaken DEF prober
<1>5. PICK c \in Candidates : /\ c = Candidate("Pending", p, 0) /\ c # None
                              /\ c.state = "Pending" /\ c.attempts = 0
  BY CandidateFacts
<1>6. /\ OwnerTypes' /\ cand'[a] = c /\ \A b \in Addrs : b # a => cand'[b] = cand[b]
  BY <1>1, <1>2, <1>3, <1>5, CandSet DEF OwnerInv, OwnerTypes
<1>7. Agreed'
  BY <1>2, <1>3, <1>5, <1>6, AgreedSet DEF OwnerInv, Agreed
<1>. QED
  BY <1>3, <1>4, <1>6, <1>7 DEF OwnerInv, Earned

(* The answer of a dial-back validates or rejects its candidate.           *)
LEMMA StepResult ==
    ASSUME OwnerInv, NetInv, NEW p \in Probers, OnReachable(p) \/ OnUnreachable(p)
    PROVE  OwnerInv' /\ NetInv'
<1>. DEFINE a == Head(toOwner[p]).addr
<1>1. /\ Arrives(p, "DialBackRes") /\ Awaited(p, a) /\ TakeResult(p)
      /\ record' \in Published(validated', local)
      /\ UNCHANGED <<local, session, toProber, prober, world>>
  BY DEF OnReachable, OnUnreachable
<1>2. a \in Addrs /\ (OnReachable(p) => a \in Earned)
  BY <1>1, ResultFacts DEF OwnerInv, NetInv, OnReachable
<1>3. \/ OnReachable(p) /\ cand' = [cand EXCEPT ![a] = Candidate("Validated", p, 0)] /\ validated' = validated \cup {a}
      \/ cand' = [cand EXCEPT ![a] = Rejection(cand[a])] /\ validated' = validated \ {a}
  BY DEF OnReachable, OnUnreachable, Without
<1>. HIDE DEF a
<1>4. UNCHANGED <<local, session, probe, dials, reached, credited, others>>
  BY <1>1 DEF prober, world
<1>5. NetInv'
  BY <1>1, <1>4, NetTaken DEF NetInv, NetTypes, prober, Arrives
<1>6. PICK c \in Candidates :
         /\ cand' = [cand EXCEPT ![a] = c] /\ c # None
         /\ (c.attempts > 0) <=> (c.state = "Rejected")
         /\ \/ c.state = "Validated" /\ validated' = validated \cup {a} /\ OnReachable(p)
            \/ c.state = "Rejected" /\ validated' = validated \ {a}
  <2>1. CASE OnReachable(p) /\ cand' = [cand EXCEPT ![a] = Candidate("Validated", p, 0)] /\ validated' = validated \cup {a}
    <3>1. /\ Candidate("Validated", p, 0) \in Candidates /\ Candidate("Validated", p, 0) # None
          /\ Candidate("Validated", p, 0).state = "Validated"
          /\ ~(Candidate("Validated", p, 0).attempts > 0)
      BY CandidateFacts
    <3>. QED
      BY <2>1, <3>1
  <2>2. CASE cand' = [cand EXCEPT ![a] = Rejection(cand[a])] /\ validated' = validated \ {a}
    <3>1. cand[a] \in Candidates
      BY <1>1, <1>2 DEF Awaited, OwnerInv, OwnerTypes
    <3>. QED
      BY <2>2, <3>1, RejectionFacts
  <2>. QED
    BY <1>3, <2>1, <2>2
<1>7. /\ validated' \subseteq Addrs /\ record' \subseteq Addrs
      /\ validated' \subseteq record' \/ Full(local', record')
  <2>1. validated' \subseteq Addrs /\ local \in 0..MaxAddrs
    BY <1>2, <1>6 DEF OwnerInv, OwnerTypes
  <2>. QED
    BY <1>1, <1>4, <2>1, PublishedFacts DEF OwnerInv
<1>8. /\ OwnerTypes' /\ cand'[a] = c /\ \A b \in Addrs : b # a => cand'[b] = cand[b]
  BY <1>2, <1>4, <1>6, <1>7, CandSet DEF OwnerInv, OwnerTypes
<1>9. Agreed'
  BY <1>2, <1>6, <1>7, <1>8, AgreedSet DEF OwnerInv
<1>10. validated' \subseteq Earned'
  BY <1>2, <1>4, <1>6, EarnedKept DEF OwnerInv
<1>. QED
  BY <1>5, <1>8, <1>9, <1>10 DEF OwnerInv

(* A frame of no consequence is dropped.                                   *)
LEMMA StepIgnored ==
    ASSUME OwnerInv, NetInv, NEW p \in Probers, IgnoreObservedAddr(p) \/ IgnoreResult(p)
    PROVE  OwnerInv' /\ NetInv'
<1>1. toOwner[p] # <<>> /\ TakeResult(p) /\ UNCHANGED <<owner, session, toProber, prober, world>>
  BY DEF IgnoreObservedAddr, IgnoreResult, Arrives
<1>2. OwnerInv'
  BY <1>1, OwnerKept, EarnedKept DEF world
<1>. QED
  BY <1>1, <1>2, NetTaken DEF NetInv, NetTypes, world

(* Publishing and changes of the network touch no candidate.               *)
LEMMA StepPublish ==
    ASSUME OwnerInv, NetInv, PublishRecord \/ LocalAddrsChange \/ NetworkChanges
    PROVE  OwnerInv' /\ NetInv'
<1>1. NetInv'
  BY NetKept DEF PublishRecord, LocalAddrsChange, NetworkChanges, world
<1>2. CASE NetworkChanges
  BY <1>1, <1>2, OwnerKept, EarnedKept DEF NetworkChanges
<1>3. CASE PublishRecord \/ LocalAddrsChange
  <2>1. /\ UNCHANGED <<cand, validated, reached, credited, others>>
        /\ local \in 0..MaxAddrs /\ local' \in 0..MaxAddrs
        /\ validated \subseteq Addrs /\ record \subseteq Addrs
    BY <1>3 DEF PublishRecord, LocalAddrsChange, world, OwnerInv, OwnerTypes
  <2>2. \/ record' \in Published(validated, local')
        \/ record' = record /\ local' > local
    BY <1>3 DEF PublishRecord, LocalAddrsChange
  <2>3. record' \subseteq Addrs /\ (validated' \subseteq record' \/ Full(local', record'))
    <3>1. CASE record' \in Published(validated, local')
      BY <2>1, <3>1, PublishedFacts DEF OwnerInv
    <3>2. CASE record' = record /\ local' > local
      <4>1. local' >= local
        BY <2>1, <3>2, LimitsAssumption
      <4>2. validated \subseteq record \/ Full(local, record)
        BY DEF OwnerInv, Agreed
      <4>. QED
        BY <2>1, <3>2, <4>1, <4>2, FullGrows
    <3>. QED
      BY <2>2, <3>1, <3>2
  <2>4. OwnerTypes'
    BY <2>1, <2>3 DEF OwnerInv, OwnerTypes
  <2>5. Agreed'
    BY <2>1, <2>3 DEF OwnerInv, Agreed, InState
  <2>. QED
    BY <1>1, <2>1, <2>4, <2>5, EarnedKept DEF OwnerInv
<1>. QED
  BY <1>2, <1>3

(* A tick: late validations are rejected, aged addresses asked for again.  *)
LEMMA StepMaintenance ==
    ASSUME OwnerInv, NetInv, CandidateMaintenance
    PROVE  OwnerInv' /\ NetInv'
<1>. DEFINE late == {a \in Addrs : TimedOut(a)}
            due == {a \in Addrs : Due(a)}
<1>1. PICK who \in [due -> Probers],
           asked \in [Probers -> UNION {SetToSeqs(s) : s \in SUBSET due}] :
        /\ cand' = [a \in Addrs |->
                        IF a \in late THEN Rejection(cand[a])
                        ELSE IF a \in due THEN Candidate("Pending", who[a], 0)
                        ELSE cand[a]]
        /\ toProber' = [p \in Probers |->
                            IF session[p] THEN toProber[p] \o asked[p] ELSE toProber[p]]
        /\ \A p \in Probers : asked[p] \in SetToSeqs({a \in due : who[a] = p})
  BY DEF CandidateMaintenance
<1>2. /\ validated' = validated \ late
      /\ UNCHANGED <<local, record, session, toOwner, probe, dials, reached, credited, others>>
  BY DEF CandidateMaintenance, Without, prober, world
<1>3. \A a \in late : InState(a, "Pending") /\ cand[a] \in Candidates
  BY DEF TimedOut, InState, OwnerInv, OwnerTypes
<1>4. \A a \in due : InState(a, "Validated") /\ who[a] \in Probers
  BY DEF Due
<1>5. late \subseteq Addrs /\ due \subseteq Addrs /\ late \cap due = {}
  BY DEF TimedOut, Due, InState
<1>6. \A p \in Probers : asked[p] \in Seq(Addrs)
  <2>. SUFFICES ASSUME NEW p \in Probers PROVE asked[p] \in Seq(Addrs)
    OBVIOUS
  <2>1. {a \in due : who[a] = p} \subseteq Addrs
    OBVIOUS
  <2>. QED
    BY <1>1, <2>1, AskedFacts
<1>. HIDE DEF late, due
<1>7. toProber' \in [Probers -> Seq(Addrs)]
  <2>1. \A p \in Probers : toProber[p] \o asked[p] \in Seq(Addrs)
    BY <1>6, ConcatProperties DEF NetInv, NetTypes
  <2>. QED
    BY <1>1, <2>1 DEF NetInv, NetTypes
<1>8. NetInv'
  <2>1. NetTypes'
    BY <1>2, <1>7, EarnedKept DEF NetInv, NetTypes
  <2>2. Closed'
    BY <1>1, <1>2 DEF NetInv, NetTypes, Closed
  <2>. QED
    BY <1>2, <2>1, <2>2 DEF NetInv, Credits
<1>9. ASSUME NEW a \in Addrs
      PROVE  \/ /\ a \in late /\ cand'[a] \in Candidates /\ cand'[a] # None
                /\ cand'[a].state = "Rejected" /\ cand'[a].attempts > 0
             \/ /\ a \notin late /\ InState(a, "Validated")
                /\ cand'[a] \in Candidates /\ cand'[a] # None
                /\ cand'[a].state = "Pending" /\ cand'[a].attempts = 0
             \/ a \notin late /\ cand'[a] = cand[a]
  <2>1. CASE a \in late
    <3>1. cand'[a] = Rejection(cand[a]) /\ cand[a] \in Candidates
      BY <1>1, <1>3, <2>1
    <3>. QED
      BY <2>1, <3>1, RejectionFacts
  <2>2. CASE a \notin late /\ a \in due
    <3>1. /\ cand'[a] = Candidate("Pending", who[a], 0) /\ who[a] \in Probers
          /\ InState(a, "Validated")
      BY <1>1, <1>4, <2>2
    <3>. QED
      BY <2>2, <3>1, CandidateFacts
  <2>3. CASE a \notin late /\ a \notin due
    BY <1>1, <2>3
  <2>. QED
    BY <2>1, <2>2, <2>3
<1>10. OwnerTypes'
  <2>1. cand' \in [Addrs -> Candidates \cup {None}]
    <3>1. \A a \in Addrs : cand'[a] \in Candidates \cup {None}
      BY <1>9 DEF OwnerInv, OwnerTypes
    <3>2. cand' = [a \in Addrs |-> cand'[a]]
      BY <1>1
    <3>. QED
      BY <3>1, <3>2
  <2>2. ASSUME NEW a \in Addrs, cand'[a] # None
        PROVE  (cand'[a].attempts > 0) <=> (cand'[a].state = "Rejected")
    BY <1>9, <2>2 DEF OwnerInv, OwnerTypes
  <2>. QED
    BY <1>2, <2>1, <2>2 DEF OwnerInv, OwnerTypes
<1>11. Agreed'
  <2>1. ASSUME NEW a \in Addrs
        PROVE  /\ InState(a, "Validated")' => a \in validated'
               /\ a \in validated' => InState(a, "Validated")' \/ InState(a, "Pending")'
    BY <1>2, <1>9 DEF InState, OwnerInv, Agreed
  <2>. QED
    BY <1>2, <2>1 DEF Agreed, OwnerInv
<1>. QED
  BY <1>2, <1>8, <1>10, <1>11, EarnedKept DEF OwnerInv

(* Time passes.                                                            *)
LEMMA StepTick ==
    ASSUME OwnerInv, NetInv, Tick
    PROVE  OwnerInv' /\ NetInv'
<1>1. UNCHANGED <<validated, local, record, session, toProber, toOwner, dials, reached, credited, others>>
  BY DEF Tick, frames, world
<1>2. ASSUME NEW n \in Nat, NEW m \in Nat PROVE Lesser(n + 1, m) \in 0..m
  BY DEF Lesser
<1>3. ASSUME NEW a \in Addrs
      PROVE  /\ cand'[a] \in Candidates \cup {None} /\ (cand[a] = None <=> cand'[a] = None)
             /\ cand[a] # None => cand'[a].state = cand[a].state /\ cand'[a].attempts = cand[a].attempts
  <2>1. CASE cand[a] = None
    BY <2>1 DEF Tick
  <2>2. CASE cand[a] # None
    <3>. DEFINE n == Lesser(cand[a].age + 1, Deadline(cand[a]))
    <3>1. cand[a] \in Candidates
      BY <2>2 DEF OwnerInv, OwnerTypes
    <3>2. cand'[a] = [cand[a] EXCEPT !.age = n]
      BY <2>2 DEF Tick
    <3>3. n \in 0..RevalidateInterval
      <4>1. cand[a].age \in Nat
        BY <3>1 DEF Candidates
      <4>2. Deadline(cand[a]) \in 0..RevalidateInterval
        <5>1. /\ ValidationTimeout \in Nat /\ RevalidateInterval \in Nat /\ ProbeTimeout \in Nat
              /\ ValidationTimeout <= RevalidateInterval
          BY TimesAssumption
        <5>2. cand[a].state \in {"Pending", "Validated", "Rejected"}
          BY <3>1 DEF Candidates
        <5>. QED
          BY <5>1, <5>2 DEF Deadline
      <4>3. n \in 0..Deadline(cand[a])
        BY <1>2, <4>1, <4>2
      <4>. HIDE DEF n
      <4>. QED
        BY <4>2, <4>3, TimesAssumption
    <3>. HIDE DEF n
    <3>4. /\ cand'[a] \in Candidates /\ cand'[a].state = cand[a].state
          /\ cand'[a].attempts = cand[a].attempts
      BY <3>1, <3>2, <3>3 DEF Candidates
    <3>. QED
      BY <2>2, <3>4, NoneFacts
  <2>. QED
    BY <2>1, <2>2
<1>4. OwnerTypes'
  <2>1. cand' \in [Addrs -> Candidates \cup {None}]
    BY <1>3 DEF Tick
  <2>2. ASSUME NEW a \in Addrs, cand'[a] # None
        PROVE  (cand'[a].attempts > 0) <=> (cand'[a].state = "Rejected")
    BY <1>3, <2>2 DEF OwnerInv, OwnerTypes
  <2>. QED
    BY <1>1, <2>1, <2>2 DEF OwnerInv, OwnerTypes
<1>5. Agreed'
  BY <1>1, <1>3 DEF OwnerInv, Agreed, InState
<1>6. \A p \in Probers : probe'[p] \in Probes \cup {None} /\ (probe[p] = None => probe'[p] = None)
  <2>. SUFFICES ASSUME NEW p \in Probers, probe[p] # None PROVE probe'[p] \in Probes
    BY DEF Tick
  <2>. DEFINE n == Lesser(probe[p].age + 1, ProbeTimeout)
  <2>1. probe[p] \in Probes
    BY DEF NetInv, NetTypes
  <2>2. n \in 0..ProbeTimeout
    BY <1>2, <2>1, TimesAssumption DEF Probes
  <2>3. probe'[p] = [probe[p] EXCEPT !.age = n]
    BY DEF Tick
  <2>. HIDE DEF n
  <2>. QED
    BY <2>1, <2>2, <2>3 DEF Probes
<1>7. NetTypes'
  <2>1. probe' \in [Probers -> Probes \cup {None}]
    BY <1>6 DEF Tick
  <2>. QED
    BY <1>1, <2>1, EarnedKept DEF NetInv, NetTypes
<1>8. Closed'
  BY <1>1, <1>6 DEF NetInv, Closed
<1>. QED
  BY <1>1, <1>4, <1>5, <1>7, <1>8, EarnedKept DEF OwnerInv, NetInv, Credits

-----------------------------------------------------------------------------
(* The steps of the probers, and sessions.                                 *)

(* A counter of dials is set.                                              *)
LEMMA DialsSet ==
    ASSUME dials \in [Probers -> [Addrs -> 0..MaxDials]], NEW p \in Probers, NEW a \in Addrs,
           NEW n \in 0..MaxDials, dials' = [dials EXCEPT ![p] = [dials[p] EXCEPT ![a] = n]]
    PROVE  dials' \in [Probers -> [Addrs -> 0..MaxDials]]
<1>1. [dials[p] EXCEPT ![a] = n] \in [Addrs -> 0..MaxDials]
  OBVIOUS
<1>. QED
  BY <1>1

(* One dial of p is over, or none.                                         *)
DialOver(p) ==
    \/ UNCHANGED dials
    \/ \E a \in Addrs : dials[p][a] > 0 /\ dials' = [dials EXCEPT ![p][a] = @ - 1]

(* A dial that is over leaves the counters within their bounds.            *)
LEMMA DialOverFacts ==
    ASSUME dials \in [Probers -> [Addrs -> 0..MaxDials]], NEW p \in Probers, DialOver(p)
    PROVE  dials' \in [Probers -> [Addrs -> 0..MaxDials]]
<1>1. ASSUME NEW a \in Addrs, dials[p][a] > 0, dials' = [dials EXCEPT ![p][a] = @ - 1]
      PROVE  dials' \in [Probers -> [Addrs -> 0..MaxDials]]
  <2>1. dials[p][a] \in 0..MaxDials
    OBVIOUS
  <2>2. PICK n \in 0..MaxDials : n = dials[p][a] - 1
    BY <1>1, <2>1, LimitsAssumption
  <2>3. dials' = [dials EXCEPT ![p] = [dials[p] EXCEPT ![a] = n]]
    BY <1>1, <2>2
  <2>. QED
    BY <2>3, DialsSet
<1>. QED
  BY <1>1 DEF DialOver

(* A prober takes a request.                                               *)
LEMMA StepRequest ==
    ASSUME OwnerInv, NetInv, NEW p \in Probers, ProberReceives(p)
    PROVE  OwnerInv' /\ NetInv'
<1>. DEFINE a == Head(toProber[p])
<1>1. /\ toProber[p] # <<>> /\ TakeRequest(p) /\ UNCHANGED <<owner, session, toOwner, reached, credited, others>>
      /\ \/ UNCHANGED <<probe, dials>>
         \/ /\ probe' = [probe EXCEPT ![p] = [addr |-> a, age |-> 0]]
            /\ dials' = [dials EXCEPT ![p][a] = Lesser(@ + 1, MaxDials)]
  BY DEF ProberReceives, OnDialBackReq, IgnoreDialBackReq, prober, world
<1>2. OwnerInv'
  BY <1>1, OwnerKept, EarnedKept
<1>3. a \in Addrs /\ Tail(toProber[p]) \in Seq(Addrs)
  BY <1>1, HeadFacts DEF NetInv, NetTypes
<1>4. session[p]
  BY <1>1 DEF NetInv, NetTypes, Closed
<1>. HIDE DEF a
<1>5. /\ toProber' \in [Probers -> Seq(Addrs)]
      /\ \A q \in Probers : q # p => toProber'[q] = toProber[q]
  BY <1>1, <1>3 DEF TakeRequest, NetInv, NetTypes
<1>6. /\ probe' \in [Probers -> Probes \cup {None}]
      /\ \A q \in Probers : q # p => probe'[q] = probe[q]
  <2>1. [addr |-> a, age |-> 0] \in Probes
    BY <1>3, TimesAssumption DEF Probes
  <2>. QED
    BY <1>1, <2>1 DEF NetInv, NetTypes
<1>7. dials' \in [Probers -> [Addrs -> 0..MaxDials]]
  <2>1. dials[p] \in [Addrs -> 0..MaxDials] /\ dials[p][a] \in 0..MaxDials
    BY <1>3 DEF NetInv, NetTypes
  <2>2. Lesser(dials[p][a] + 1, MaxDials) \in 0..MaxDials
    BY <2>1, LimitsAssumption DEF Lesser
  <2>3. CASE UNCHANGED dials
    BY <2>3 DEF NetInv, NetTypes
  <2>4. CASE dials' = [dials EXCEPT ![p][a] = Lesser(@ + 1, MaxDials)]
    <3>1. PICK n \in 0..MaxDials : n = Lesser(dials[p][a] + 1, MaxDials)
      BY <2>2
    <3>2. dials' = [dials EXCEPT ![p] = [dials[p] EXCEPT ![a] = n]]
      BY <2>4, <3>1
    <3>3. dials \in [Probers -> [Addrs -> 0..MaxDials]]
      BY DEF NetInv, NetTypes
    <3>. QED
      BY <1>3, <3>2, <3>3, DialsSet
  <2>. QED
    BY <1>1, <2>3, <2>4
<1>8. NetTypes'
  BY <1>1, <1>5, <1>6, <1>7, EarnedKept DEF NetInv, NetTypes
<1>9. Closed'
  BY <1>1, <1>4, <1>5, <1>6 DEF NetInv, Closed
<1>. QED
  BY <1>1, <1>2, <1>8, <1>9 DEF NetInv, Credits

(* A probe ends without success, and its prober says so or nothing.        *)
LEMMA StepProbeEnds ==
    ASSUME OwnerInv, NetInv, NEW p \in Probers,
           \/ ProbeMaintenance(p)
           \/ \E a \in Addrs : ProbeFails(p, a) \/ ProbeHandshakeFails(p, a)
    PROVE  OwnerInv' /\ NetInv'
<1>1. /\ UNCHANGED <<owner, session, toProber, reached, credited, others>>
      /\ \/ UNCHANGED <<probe, toOwner>>
         \/ \E a \in Addrs : /\ probe' = [probe EXCEPT ![p] = None]
                             /\ toOwner' = SendTo(toOwner, p, ResultFrame(a, FALSE))
      /\ DialOver(p)
  <2>1. CASE ProbeMaintenance(p)
    <3>1. probe[p].addr \in Addrs
      BY <2>1 DEF ProbeMaintenance, ProbeExpired, NetInv, NetTypes, Probes
    <3>. QED
      BY <2>1, <3>1 DEF ProbeMaintenance, world, DialOver
  <2>. QED
    BY <2>1 DEF ProbeFails, ProbeHandshakeFails, FailureResult, frames, world, DialOver
<1>2. OwnerInv'
  BY <1>1, OwnerKept, EarnedKept
<1>3. dials' \in [Probers -> [Addrs -> 0..MaxDials]]
  BY <1>1, DialOverFacts DEF NetInv, NetTypes
<1>4. probe' \in [Probers -> Probes \cup {None}] /\ \A q \in Probers : probe'[q] \in {probe[q], None}
  BY <1>1 DEF NetInv, NetTypes
<1>5. /\ toOwner' \in [Probers -> Seq(Frames)]
      /\ \A q \in Probers : ~session[q] => toOwner'[q] = toOwner[q]
  <2>1. toOwner \in [Probers -> Seq(Frames)]
    BY DEF NetInv, NetTypes
  <2>2. CASE UNCHANGED toOwner
    BY <2>1, <2>2
  <2>3. ASSUME NEW a \in Addrs, toOwner' = SendTo(toOwner, p, ResultFrame(a, FALSE))
        PROVE  /\ toOwner' \in [Probers -> Seq(Frames)]
               /\ \A q \in Probers : ~session[q] => toOwner'[q] = toOwner[q]
    <3>1. PICK f \in Frames : f = ResultFrame(a, FALSE)
      BY FrameFacts
    <3>a. toOwner' = SendTo(toOwner, p, f)
      BY <2>3, <3>1
    <3>2. /\ toOwner' \in [Probers -> Seq(Frames)]
          /\ ~session[p] => toOwner' = toOwner
          /\ \A q \in Probers : q # p => toOwner'[q] = toOwner[q]
      <4>1. /\ SendTo(toOwner, p, f) \in [Probers -> Seq(Frames)]
            /\ ~session[p] => SendTo(toOwner, p, f) = toOwner
            /\ \A q \in Probers : q # p => SendTo(toOwner, p, f)[q] = toOwner[q]
        BY <2>1, SendFacts
      <4>. QED
        BY <3>a, <4>1
    <3>. QED
      BY <3>2
  <2>. QED
    BY <1>1, <2>2, <2>3
<1>6. NetTypes'
  <2>1. Frames' = Frames
    BY <1>1, EarnedKept
  <2>. QED
    BY <1>1, <1>3, <1>4, <1>5, <2>1 DEF NetInv, NetTypes
<1>7. Closed'
  BY <1>1, <1>4, <1>5 DEF NetInv, Closed
<1>. QED
  BY <1>1, <1>2, <1>6, <1>7 DEF NetInv, Credits

(* A session that replaces another while a probe is pending is counted.    *)
Replaces(p) == others' = others + (IF session[p] /\ probe[p] # None THEN 1 ELSE 0)

(* A session comes up, and answers for whatever probe is pending: its      *)
(* address was reached, or is credited.                                    *)
LEMMA StepSession ==
    ASSUME OwnerInv, NetInv, NEW p \in Probers,
           SessionUp(p) \/ \E a \in Addrs : ProbeReaches(p, a)
    PROVE  OwnerInv' /\ NetInv'
<1>1. /\ UNCHANGED <<owner, toProber>> /\ DialOver(p)
      /\ session' = [session EXCEPT ![p] = TRUE]
      /\ probe' = [probe EXCEPT ![p] = None]
  BY DEF SessionUp, ProbeReaches, EstablishSession, DialOver
<1>2. PICK report, dialed :
         /\ dialed \subseteq Addrs
         /\ report = <<>> \/ \E a \in Addrs \cup {LocalAddr} : report = <<ObservedFrame(a)>>
         /\ EstablishSession(p, report, dialed)
         /\ Replaces(p) \/ (others' = others /\ dialed # {})
  <2>1. CASE SessionUp(p)
    <3>1. PICK report \in {<<>>} \cup {<<ObservedFrame(a)>> : a \in Addrs \cup {LocalAddr}} :
             EstablishSession(p, report, {})
      BY <2>1 DEF SessionUp
    <3>2. report = <<>> \/ \E a \in Addrs \cup {LocalAddr} : report = <<ObservedFrame(a)>>
      OBVIOUS
    <3>3. Replaces(p)
      BY <2>1 DEF SessionUp, Replaces
    <3>4. PICK d : d = {}
      OBVIOUS
    <3>5. d \subseteq Addrs /\ EstablishSession(p, report, d)
      BY <3>1, <3>4
    <3>. QED
      BY <3>2, <3>3, <3>5
  <2>2. CASE \E a \in Addrs : ProbeReaches(p, a)
    <3>1. PICK a \in Addrs : EstablishSession(p, <<>>, {a}) /\ others' = others
      BY <2>2 DEF ProbeReaches
    <3>2. {a} \subseteq Addrs /\ {a} # {}
      OBVIOUS
    <3>. QED
      BY <3>1, <3>2, Zenon
  <2>. QED
    BY <2>1, <2>2
<1>a. /\ toOwner' = [toOwner EXCEPT ![p] = @ \o Answers(p, report)]
      /\ reached' = reached \cup dialed
      /\ credited' = credited \cup {a \in Addrs \ dialed : probe[p] # None /\ probe[p].addr = a}
  BY <1>2 DEF EstablishSession
<1>b. others \in Nat /\ others' \in Nat /\ others' >= others /\ (others' > 0 \/ ~session[p] \/ probe[p] = None \/ dialed # {})
  BY <1>2 DEF NetInv, NetTypes, Replaces
<1>3. /\ Earned \subseteq Earned' /\ reached \subseteq reached'
      /\ reached' \subseteq Addrs /\ credited' \subseteq Addrs
  BY <1>2, <1>a DEF NetInv, NetTypes, Earned
<1>4. OwnerInv'
  BY <1>1, <1>3, OwnerKept
<1>5. Answers(p, report) \in Seq(Frames')
  <2>1. report \in Seq(Frames')
    <3>1. \A a \in Addrs \cup {LocalAddr} : ObservedFrame(a) \in Frames'
      BY DEF ObservedFrame, Frames
    <3>2. CASE report = <<>>
      BY <3>2
    <3>3. ASSUME NEW a \in Addrs \cup {LocalAddr}, report = <<ObservedFrame(a)>>
          PROVE  report \in Seq(Frames')
      BY <3>1, <3>3
    <3>. QED
      BY <1>2, <3>2, <3>3
  <2>2. ASSUME probe[p] # None PROVE <<ResultFrame(probe[p].addr, TRUE)>> \in Seq(Frames')
    <3>1. probe[p].addr \in Addrs /\ probe[p].addr \in Earned'
      BY <1>a, <2>2 DEF NetInv, NetTypes, Probes, Earned
    <3>2. ResultFrame(probe[p].addr, TRUE) \in Frames'
      BY <3>1 DEF ResultFrame, Frames
    <3>. QED
      BY <3>2, SingleFacts
  <2>3. <<>> \in Seq(Frames')
    OBVIOUS
  <2>. QED
    BY <2>1, <2>2, <2>3, ConcatProperties DEF Answers
<1>6. toOwner' \in [Probers -> Seq(Frames')] /\ \A q \in Probers : q # p => toOwner'[q] = toOwner[q]
  <2>1. \A q \in Probers : toOwner[q] \in Seq(Frames')
    BY <1>3, FramesGrow DEF NetInv, NetTypes
  <2>2. toOwner[p] \o Answers(p, report) \in Seq(Frames')
    BY <1>5, <2>1, ConcatProperties
  <2>. QED
    BY <1>a, <2>1, <2>2 DEF NetInv, NetTypes
<1>7. NetTypes'
  <2>1. dials' \in [Probers -> [Addrs -> 0..MaxDials]]
    BY <1>1, DialOverFacts DEF NetInv, NetTypes
  <2>. QED
    BY <1>1, <1>3, <1>6, <1>b, <2>1 DEF NetInv, NetTypes
<1>8. Closed'
  BY <1>1, <1>6 DEF NetInv, NetTypes, Closed
<1>9. Credits'
  <2>. SUFFICES ASSUME NEW a \in credited' PROVE others' > 0 \/ \E b \in reached' : b # a
    BY DEF Credits
  <2>2. CASE a \in credited
    <3>1. others > 0 \/ \E b \in reached : b # a
      BY <2>2 DEF NetInv, Credits
    <3>. QED
      BY <1>3, <1>b, <3>1
  <2>3. CASE a \notin credited
    <3>1. a \notin dialed /\ probe[p] # None
      BY <1>a, <2>3
    <3>2. session[p]
      BY <3>1 DEF NetInv, Closed
    <3>. QED
      BY <1>2, <1>a, <1>b, <3>1, <3>2
  <2>. QED
    BY <2>2, <2>3
<1>. QED
  BY <1>4, <1>7, <1>8, <1>9 DEF NetInv

(* A session goes, with everything on its way.                             *)
LEMMA StepDown ==
    ASSUME OwnerInv, NetInv, NEW p \in Probers, SessionDown(p)
    PROVE  OwnerInv' /\ NetInv'
<1>1. /\ UNCHANGED <<owner, dials, reached, credited, others>>
      /\ session' = [session EXCEPT ![p] = FALSE]
      /\ toProber' = [toProber EXCEPT ![p] = <<>>]
      /\ toOwner' = [toOwner EXCEPT ![p] = <<>>]
      /\ probe' = [probe EXCEPT ![p] = None]
  BY DEF SessionDown, world
<1>2. OwnerInv'
  BY <1>1, OwnerKept, EarnedKept
<1>3. <<>> \in Seq(Addrs) /\ <<>> \in Seq(Frames) /\ Frames' = Frames
  BY <1>1, EarnedKept
<1>4. NetTypes'
  BY <1>1, <1>3 DEF NetInv, NetTypes
<1>5. Closed'
  BY <1>1 DEF NetInv, NetTypes, Closed
<1>. QED
  BY <1>1, <1>2, <1>4, <1>5 DEF NetInv, Credits

-----------------------------------------------------------------------------
(* The invariant, and what it says.                                        *)

(* Every step keeps the invariant of the owner and that of the net.        *)
LEMMA StepAny ==
    ASSUME OwnerInv, NetInv, [Next]_vars
    PROVE  OwnerInv' /\ NetInv'
<1>1. CASE UNCHANGED vars
  BY <1>1, OwnerKept, NetKept, EarnedKept DEF vars, world
<1>2. ASSUME NEW p \in Probers, OwnerReceives(p) PROVE OwnerInv' /\ NetInv'
  BY <1>2, StepObserved, StepResult, StepIgnored DEF OwnerReceives
<1>3. ASSUME NEW p \in Probers, NEW a \in Addrs, DialEnds(p, a) PROVE OwnerInv' /\ NetInv'
  BY <1>3, StepSession, StepProbeEnds DEF DialEnds
<1>. QED
  BY <1>1, <1>2, <1>3, StepMaintenance, StepPublish, StepTick, StepRequest, StepProbeEnds,
     StepSession, StepDown DEF Next

(* The inductive invariant: the table of candidates agrees with the        *)
(* validated list, and every positive answer on its way was earned by a    *)
(* connection (on_dial_back_res, SessionEstablished).                      *)
THEOREM AddressInvariant == Spec => [](OwnerInv /\ NetInv)
<1>1. Init => OwnerInv /\ NetInv
  <2>. SUFFICES ASSUME Init PROVE OwnerInv /\ NetInv
    OBVIOUS
  <2>1. 0 \in 0..MaxDials
    BY LimitsAssumption
  <2>2. <<>> \in Seq(Addrs) /\ <<>> \in Seq(Frames)
    OBVIOUS
  <2>3. \A a \in Addrs : cand[a] = None
    BY DEF Init
  <2>4. OwnerInv
    BY <2>3 DEF Init, OwnerInv, OwnerTypes, Agreed, InState
  <2>5. NetInv
    BY <2>1, <2>2 DEF Init, NetInv, NetTypes, Closed, Credits
  <2>. QED
    BY <2>4, <2>5
<1>2. (OwnerInv /\ NetInv) /\ [Next]_vars => (OwnerInv /\ NetInv)'
  BY StepAny
<1>. QED
  BY <1>1, <1>2, PTL DEF Spec

(* Through late, repeated and crossing answers, timeouts and lost          *)
(* sessions, the candidates, validated_public_addrs and the record agree   *)
(* (on_dial_back_res, public_addr_maintenance, publish_record).            *)
THEOREM TablesAgree == Spec => []ValidatedAgrees
<1>1. OwnerInv /\ NetInv => ValidatedAgrees
  <2>. SUFFICES ASSUME OwnerInv, NetInv PROVE ValidatedAgrees
    OBVIOUS
  <2>1. ASSUME NEW a \in Addrs, cand[a] # None
        PROVE  /\ cand[a].state \in {"Pending", "Validated", "Rejected"}
               /\ cand[a].prober \in Probers
               /\ cand[a].age \in 0..RevalidateInterval
               /\ cand[a].attempts \in 0..MaxAttempts
               /\ (cand[a].attempts > 0) <=> (cand[a].state = "Rejected")
    <3>1. cand[a] \in Candidates
      BY <2>1 DEF OwnerInv, OwnerTypes
    <3>. QED
      BY <2>1, <3>1 DEF Candidates, OwnerInv, OwnerTypes
  <2>2. ASSUME NEW p \in Probers
        PROVE  /\ probe[p] # None => probe[p].addr \in Addrs /\ probe[p].age \in 0..ProbeTimeout
               /\ \A a \in Addrs : dials[p][a] \in 0..MaxDials
               /\ ~session[p] => toProber[p] = <<>> /\ toOwner[p] = <<>> /\ probe[p] = None
    BY DEF NetInv, NetTypes, Closed, Probes
  <2>3. TypeOK
    BY <2>1, <2>2 DEF TypeOK, OwnerInv, OwnerTypes
  <2>. QED
    BY <2>3 DEF ValidatedAgrees, OwnerInv, Agreed
<1>. QED
  BY <1>1, AddressInvariant, PTL

(* Every address in validated_public_addrs was reached by a probe dial, or *)
(* credited with a session that did not reach it; and that takes a session *)
(* which replaces another, or a late dial that reaches another address     *)
(* (on_dial_back_res, SessionEstablished).                                 *)
THEOREM ValidatedMeansReached == Spec => []ValidatedWasReached
<1>1. OwnerInv /\ NetInv => ValidatedWasReached
  BY DEF OwnerInv, NetInv, Earned, Credits, ValidatedWasReached
<1>. QED
  BY <1>1, AddressInvariant, PTL
=============================================================================
