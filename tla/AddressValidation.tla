------------------------- MODULE AddressValidation -------------------------
(***************************************************************************)
(* External address discovery and dial-back validation (node.rs, M2.3):    *)
(* one device that learns its public addresses from what its peers observe *)
(* (the owner) and the peers that probe them for it (the probers).         *)
(*                                                                         *)
(* Frames between the owner and a prober travel in order over their        *)
(* session and are lost with it.  Whether an address can be reached is the *)
(* network's business and changes at any time.  Ages are in coarse units   *)
(* and stop at the age that a deadline compares them with.                 *)
(***************************************************************************)
EXTENDS SequencesExt, Naturals

CONSTANTS
    Addrs,               \* external candidates: observed IP + own listen port
    LocalAddr,           \* an observed address that on_observed_addr ignores
    Probers,             \* the peers
    None,                \* no candidate, no probe
    ValidationTimeout,   \* VALIDATION_TIMEOUT
    ProbeTimeout,        \* PROBE_TIMEOUT
    RevalidateInterval,  \* PUBLIC_REVALIDATE_INTERVAL
    MaxAttempts,         \* MAX_VALIDATION_ATTEMPTS
    MaxAddrs,            \* MAX_ADDRS, the addresses a record has place for
    MaxQueue, MaxDials,  \* bounds: frames in flight when a session comes up, dials per address
    MaxOthers            \* bound: sessions that replace another while a probe is pending

ASSUME TimesAssumption ==
    /\ {ValidationTimeout, ProbeTimeout, RevalidateInterval} \subseteq Nat \ {0}
    /\ ValidationTimeout <= ProbeTimeout /\ ProbeTimeout < RevalidateInterval
ASSUME NamesAssumption ==
    /\ None \notin Addrs /\ LocalAddr \notin Addrs /\ IsFiniteSet(Addrs)
    /\ None \notin [state : {"Pending", "Validated", "Rejected"}, prober : Probers,
                   age : Nat, attempts : Nat]
    /\ None \notin [addr : Addrs, age : Nat]
ASSUME LimitsAssumption ==
    {MaxAttempts, MaxAddrs} \subseteq Nat \ {0} /\ {MaxDials, MaxOthers} \subseteq Nat

VARIABLES
    cand,       \* candidates[a] of the owner: state, age, attempts, prober; or None
    validated,  \* validated_public_addrs
    local,      \* how many current_addrs there are, up to MAX_ADDRS
    record,     \* the public addresses in our_record, as last published
    session,    \* session[p]: the owner and p have a session
    toProber,   \* toProber[p]: DialBackReq frames on their way to p
    toOwner,    \* toOwner[p]: ObservedAddr and DialBackRes frames to the owner
    probe,      \* pending_probes[owner] of p: address and age; or None
    dials,      \* dials[p][a]: probe dials of p still in flight
    reach,      \* addresses at which the owner can be reached now
    reached,    \* history: addresses a probe dial has reached
    credited,   \* history: addresses reported reachable on a session that did not reach them
    others      \* history: sessions that replaced another while a probe was pending

owner == <<cand, validated, local, record>>
prober == <<probe, dials>>
frames == <<toProber, toOwner>>
world == <<reach, reached, credited, others>>
vars == <<owner, session, frames, prober, world>>

Init ==
    /\ cand = [a \in Addrs |-> None]
    /\ validated = {}
    /\ local \in 0..MaxAddrs
    /\ record = {}
    /\ session = [p \in Probers |-> FALSE]
    /\ toProber = [p \in Probers |-> <<>>]
    /\ toOwner = [p \in Probers |-> <<>>]
    /\ probe = [p \in Probers |-> None]
    /\ dials = [p \in Probers |-> [a \in Addrs |-> 0]]
    /\ reach \in SUBSET Addrs
    /\ reached = {} /\ credited = {} /\ others = 0

-----------------------------------------------------------------------------
(* Candidates and the record.                                              *)

Candidate(state, p, n) == [state |-> state, prober |-> p, age |-> 0, attempts |-> n]

InState(a, state) == cand[a] # None /\ cand[a].state = state

Lesser(m, n) == IF m < n THEN m ELSE n

(* A rejection counts on only from a rejection.  Only `>= MAX` is ever     *)
(* asked of the count, so it may stop there.                               *)
Rejection(c) ==
    Candidate("Rejected", c.prober,
              IF c.state = "Rejected" THEN Lesser(c.attempts + 1, MaxAttempts) ELSE 1)

KeepsValidated(gone) == validated

Without(gone) == validated \ gone

(* sign_addr_record cuts the list off at MAX_ADDRS.  The public addresses  *)
(* come last, in the order in which they were validated, which is not kept *)
(* here: any of them may be the ones cut off.                              *)
Truncations(v, l) ==
    {t \in SUBSET v : Cardinality(t) = Lesser(Cardinality(v), MaxAddrs - l)}

(* publish_record: nothing to publish leaves the old record in place.      *)
Published(v, l) == IF v = {} /\ l = 0 THEN {record} ELSE Truncations(v, l)

SendTo(queues, p, f) == IF session[p] THEN [queues EXCEPT ![p] = Append(@, f)] ELSE queues

(* request_dial_back: the candidate's own prober if it has a session, else *)
(* any peer with one, else nobody.                                         *)
MayProbe(p) ==
    IF session[p] THEN {p} ELSE {q \in Probers : session[q]}

-----------------------------------------------------------------------------
(* The owner.                                                              *)

ObservedFrame(a) == [type |-> "Observed", addr |-> a, ok |-> FALSE]

ResultFrame(a, ok) == [type |-> "DialBackRes", addr |-> a, ok |-> ok]

Arrives(p, type) == toOwner[p] # <<>> /\ Head(toOwner[p]).type = type

TakeResult(p) == toOwner' = [toOwner EXCEPT ![p] = Tail(@)]

(* Worth a validation: not local, and new or rejected fewer than           *)
(* MAX_VALIDATION_ATTEMPTS times.                                          *)
WorthValidating(a) ==
    /\ a \in Addrs
    /\ cand[a] = None \/ (InState(a, "Rejected") /\ cand[a].attempts < MaxAttempts)

(* The reporting peer has a session, so the request goes to it.            *)
OnObservedAddr(p) ==
    LET a == Head(toOwner[p]).addr IN
    /\ Arrives(p, "Observed")
    /\ WorthValidating(a)
    /\ cand' = [cand EXCEPT ![a] = Candidate("Pending", p, 0)]
    /\ toProber' = SendTo(toProber, p, a)
    /\ TakeResult(p)
    /\ UNCHANGED <<validated, local, record, session, prober, world>>

IgnoreObservedAddr(p) ==
    /\ Arrives(p, "Observed")
    /\ ~WorthValidating(Head(toOwner[p]).addr)
    /\ TakeResult(p)
    /\ UNCHANGED <<owner, session, toProber, prober, world>>

(* Only the prober we asked may answer for a candidate.                    *)
Awaited(p, a) == cand[a] # None /\ cand[a].prober = p

OnReachable(p) ==
    LET a == Head(toOwner[p]).addr IN
    /\ Arrives(p, "DialBackRes") /\ Head(toOwner[p]).ok
    /\ Awaited(p, a) /\ ~InState(a, "Validated")
    /\ cand' = [cand EXCEPT ![a] = Candidate("Validated", p, 0)]
    /\ validated' = validated \cup {a}
    /\ record' \in Published(validated', local)
    /\ TakeResult(p)
    /\ UNCHANGED <<local, session, toProber, prober, world>>

OnUnreachable(p) ==
    LET a == Head(toOwner[p]).addr IN
    /\ Arrives(p, "DialBackRes") /\ ~Head(toOwner[p]).ok
    /\ Awaited(p, a)
    /\ cand' = [cand EXCEPT ![a] = Rejection(@)]
    /\ validated' = Without({a})
    /\ record' \in Published(validated', local)
    /\ TakeResult(p)
    /\ UNCHANGED <<local, session, toProber, prober, world>>

IgnoreResult(p) ==
    LET f == Head(toOwner[p]) IN
    /\ Arrives(p, "DialBackRes")
    /\ ~Awaited(p, f.addr) \/ (f.ok /\ InState(f.addr, "Validated"))
    /\ TakeResult(p)
    /\ UNCHANGED <<owner, session, toProber, prober, world>>

(* public_addr_maintenance, the owner's half: late validations are         *)
(* rejected (without publishing), aged addresses validated again, their    *)
(* requests sent in the order of a hash map.                               *)
TimedOutWithProber(a) ==
    InState(a, "Pending") /\ cand[a].age >= ValidationTimeout /\ session[cand[a].prober]

TimedOut(a) == InState(a, "Pending") /\ cand[a].age >= ValidationTimeout

DueWithProber(a) ==
    InState(a, "Validated") /\ cand[a].age >= RevalidateInterval /\ session[cand[a].prober]

Due(a) == InState(a, "Validated") /\ cand[a].age >= RevalidateInterval

CandidateMaintenance ==
    LET late == {a \in Addrs : TimedOut(a)}
        due == {a \in Addrs : Due(a)}
    IN
    /\ late \cup due # {}
    /\ \E who \in [due -> Probers],
          asked \in [Probers -> UNION {SetToSeqs(s) : s \in SUBSET due}] :
        /\ \A a \in due : IF MayProbe(cand[a].prober) = {} THEN who[a] = cand[a].prober
                                                         ELSE who[a] \in MayProbe(cand[a].prober)
        /\ cand' = [a \in Addrs |->
                        IF a \in late THEN Rejection(cand[a])
                        ELSE IF a \in due THEN Candidate("Pending", who[a], 0)
                        ELSE cand[a]]
        /\ toProber' = [p \in Probers |->
                            IF session[p] THEN toProber[p] \o asked[p] ELSE toProber[p]]
        /\ \A p \in Probers : asked[p] \in SetToSeqs({a \in due : who[a] = p})
    /\ validated' = Without(late)
    /\ UNCHANGED <<local, record, session, toOwner, prober, world>>

(* maintenance, every PUBLISH_INTERVAL.                                    *)
PublishRecord ==
    /\ record' \in Published(validated, local)
    /\ UNCHANGED <<cand, validated, local, session, frames, prober, world>>

(* Listen addresses appear, expire or leave the interfaces: published at   *)
(* once, except where the scan finds a listener it did not know of.        *)
LocalAddrsChange ==
    /\ local' \in 0..MaxAddrs /\ local' # local
    /\ \/ record' \in Published(validated, local')
       \/ local' > local /\ UNCHANGED record
    /\ UNCHANGED <<cand, validated, session, frames, prober, world>>

-----------------------------------------------------------------------------
(* The probers.                                                            *)

TakeRequest(p) == toProber' = [toProber EXCEPT ![p] = Tail(@)]

(* on_dial_back_req: one probe at a time per owner; another is ignored.    *)
OnDialBackReq(p) ==
    LET a == Head(toProber[p]) IN
    /\ toProber[p] # <<>>
    /\ probe[p] = None
    /\ probe' = [probe EXCEPT ![p] = [addr |-> a, age |-> 0]]
    /\ dials' = [dials EXCEPT ![p][a] = Lesser(@ + 1, MaxDials)]
    /\ TakeRequest(p)
    /\ UNCHANGED <<owner, session, toOwner, world>>

IgnoreDialBackReq(p) ==
    /\ toProber[p] # <<>>
    /\ probe[p] # None
    /\ TakeRequest(p)
    /\ UNCHANGED <<owner, session, toOwner, prober, world>>

(* SessionEstablished answers for whatever probe is pending, `report` being *)
(* the observed address an accepted connection makes p send first.         *)
Answers(p, report) ==
    report \o (IF probe[p] = None THEN <<>> ELSE <<ResultFrame(probe[p].addr, TRUE)>>)

(* `dialed` is what the session's connection has reached, if anything.     *)
(* pending_probes is looked up by device, so the pending probe's address   *)
(* is credited with the session even when it is another one.               *)
EstablishSession(p, report, dialed) ==
    /\ session' = [session EXCEPT ![p] = TRUE]
    /\ toOwner' = [toOwner EXCEPT ![p] = @ \o Answers(p, report)]
    /\ probe' = [probe EXCEPT ![p] = None]
    /\ reached' = reached \cup dialed
    /\ credited' = credited \cup {a \in Addrs \ dialed : probe[p] # None /\ probe[p].addr = a}

(* A probe dial reaches the owner and the handshake on it completes.       *)
ProbeReaches(p, a) ==
    /\ dials[p][a] > 0
    /\ a \in reach
    /\ EstablishSession(p, <<>>, {a})
    /\ dials' = [dials EXCEPT ![p][a] = @ - 1]
    /\ UNCHANGED <<owner, toProber, reach, others>>

FailureReported(a) == ResultFrame(a, TRUE)

FailureResult(a) == ResultFrame(a, FALSE)

(* OutgoingConnectionError and handle_probe_failure.                       *)
ProbeFails(p, a) ==
    /\ dials[p][a] > 0
    /\ dials' = [dials EXCEPT ![p][a] = @ - 1]
    /\ IF probe[p] # None /\ probe[p].addr = a
       THEN /\ probe' = [probe EXCEPT ![p] = None]
            /\ toOwner' = SendTo(toOwner, p, FailureResult(a))
       ELSE UNCHANGED <<probe, toOwner>>
    /\ UNCHANGED <<owner, session, toProber, world>>

(* A connection whose handshake fails reports nothing; the timeout does.   *)
ProbeHandshakeFails(p, a) ==
    /\ dials[p][a] > 0
    /\ dials' = [dials EXCEPT ![p][a] = @ - 1]
    /\ UNCHANGED <<owner, session, frames, probe, world>>

ProbeExpired(p) == probe[p] # None /\ probe[p].age >= ProbeTimeout

(* public_addr_maintenance, the prober's half.                             *)
ProbeMaintenance(p) ==
    /\ ProbeExpired(p)
    /\ probe' = [probe EXCEPT ![p] = None]
    /\ toOwner' = SendTo(toOwner, p, ResultFrame(probe[p].addr, FALSE))
    /\ UNCHANGED <<owner, session, toProber, dials, world>>

-----------------------------------------------------------------------------
(* Sessions, the network and time.                                         *)

Room == \A q \in Probers : Len(toProber[q]) + Len(toOwner[q]) < MaxQueue

(* One of the two dials the other; if p was dialed it reports the address  *)
(* it sees.  This happens also while they have a session, which the new    *)
(* one then replaces; only with a probe pending does it need a bound.      *)
SessionUp(p) ==
    /\ others' = others + IF session[p] /\ probe[p] # None THEN 1 ELSE 0
    /\ others' <= MaxOthers
    /\ Room
    /\ \E report \in {<<>>} \cup {<<ObservedFrame(a)>> : a \in Addrs \cup {LocalAddr}} :
        EstablishSession(p, report, {})
    /\ UNCHANGED <<owner, toProber, dials, reach>>

(* PeerDisconnected: frames are lost, and p forgets the probe.             *)
SessionDown(p) ==
    /\ session[p]
    /\ session' = [session EXCEPT ![p] = FALSE]
    /\ toProber' = [toProber EXCEPT ![p] = <<>>]
    /\ toOwner' = [toOwner EXCEPT ![p] = <<>>]
    /\ probe' = [probe EXCEPT ![p] = None]
    /\ UNCHANGED <<owner, dials, world>>

NetworkChanges ==
    /\ \E a \in Addrs : reach' = IF a \in reach THEN reach \ {a} ELSE reach \cup {a}
    /\ UNCHANGED <<owner, session, frames, prober, reached, credited, others>>

Deadline(c) ==
    CASE c.state = "Pending" -> ValidationTimeout
      [] c.state = "Validated" -> RevalidateInterval
      [] c.state = "Rejected" -> 0

Tick ==
    /\ cand' = [a \in Addrs |->
                    IF cand[a] = None THEN None
                    ELSE [cand[a] EXCEPT !.age = Lesser(@ + 1, Deadline(cand[a]))]]
    /\ probe' = [p \in Probers |->
                    IF probe[p] = None THEN None
                    ELSE [probe[p] EXCEPT !.age = Lesser(@ + 1, ProbeTimeout)]]
    /\ UNCHANGED <<validated, local, record, session, frames, dials, world>>

OwnerReceives(p) ==
    OnObservedAddr(p) \/ IgnoreObservedAddr(p)
        \/ OnReachable(p) \/ OnUnreachable(p) \/ IgnoreResult(p)

ProberReceives(p) == OnDialBackReq(p) \/ IgnoreDialBackReq(p)

DialEnds(p, a) == ProbeReaches(p, a) \/ ProbeFails(p, a) \/ ProbeHandshakeFails(p, a)

Next ==
    \/ CandidateMaintenance \/ PublishRecord \/ LocalAddrsChange \/ NetworkChanges \/ Tick
    \/ \E p \in Probers :
        \/ OwnerReceives(p) \/ ProberReceives(p) \/ ProbeMaintenance(p)
        \/ SessionUp(p) \/ SessionDown(p)
        \/ \E a \in Addrs : DialEnds(p, a)

Spec == Init /\ [][Next]_vars

(* Time passes, both run loops go through maintenance on every turn, and   *)
(* frames of a session are handled as long as it lasts.  Nothing is        *)
(* assumed of the network, of sessions, or of how soon a dial ends.        *)
FairSpec ==
    /\ Spec
    /\ WF_vars(Tick) /\ WF_vars(CandidateMaintenance) /\ WF_vars(PublishRecord)
    /\ \A p \in Probers :
        WF_vars(OwnerReceives(p)) /\ WF_vars(ProberReceives(p)) /\ WF_vars(ProbeMaintenance(p))

-----------------------------------------------------------------------------
(* Properties.                                                             *)

(* Every table keeps its shape; exactly the rejected candidates have an    *)
(* attempt count, and it starts at one.                                    *)
TypeOK ==
    /\ \A a \in Addrs : cand[a] # None =>
        /\ cand[a].state \in {"Pending", "Validated", "Rejected"}
        /\ cand[a].prober \in Probers
        /\ cand[a].age \in 0..RevalidateInterval
        /\ cand[a].attempts \in 0..MaxAttempts
        /\ (cand[a].attempts > 0) <=> (cand[a].state = "Rejected")
    /\ validated \subseteq Addrs /\ record \subseteq Addrs
    /\ \A p \in Probers :
        /\ probe[p] # None => probe[p].addr \in Addrs /\ probe[p].age \in 0..ProbeTimeout
        /\ \A a \in Addrs : dials[p][a] \in 0..MaxDials
        /\ ~session[p] => toProber[p] = <<>> /\ toOwner[p] = <<>> /\ probe[p] = None

(* The record has as many addresses as it has place for.                   *)
Full(l, r) == l + Cardinality(r) >= MaxAddrs

(* The two tables of the owner agree through late, repeated and crossing   *)
(* answers: a validated candidate is in validated_public_addrs, and what   *)
(* is in it is validated or being validated again, never rejected.  None   *)
(* of it is missing from the published record, also while the device has   *)
(* no listen address of its own left, unless the record is full.  Exactly  *)
(* the rejected candidates have an attempt count (TypeOK).                 *)
ValidatedAgrees ==
    /\ TypeOK
    /\ \A a \in Addrs :
        /\ InState(a, "Validated") => a \in validated
        /\ a \in validated => InState(a, "Validated") \/ InState(a, "Pending")
    /\ validated \subseteq record \/ Full(local, record)

(* What is in validated_public_addrs was reached by a probe dial, unless   *)
(* its prober reported it on a session that never reached it: the code     *)
(* takes any session with the owner for the pending probe's own            *)
(* (SessionEstablished, node.rs:1202).  So the comment on the field        *)
(* ("proven reachable by a dial-back probe", node.rs:364) holds of the     *)
(* addresses outside `credited` only; and an address gets there in no      *)
(* other way than by a session that replaces one the prober still has, or  *)
(* by the late dial of an earlier probe that reaches another address.      *)
ValidatedWasReached ==
    /\ validated \subseteq reached \cup credited
    /\ \A a \in credited : others > 0 \/ \E b \in reached : b # a

(* No candidate waits forever for an answer, whatever becomes of its       *)
(* prober, the request, the probe and the result; and a prober's only slot *)
(* for an owner is freed again, even when the dial's handshake fails and   *)
(* nobody reports it.                                                      *)
CandidateIsDecided ==
    /\ \A a \in Addrs : []<>~InState(a, "Pending")
    /\ \A p \in Probers : []<>(probe[p] = None)

(* An address at which the device can no longer be reached leaves its      *)
(* record for good, with probers or without, as long as the device has     *)
(* some address of its own to publish (and other sessions do not go on     *)
(* being taken for probes of it).                                          *)
StaleAddressLeavesRecord ==
    \A a \in Addrs :
        (<>[](a \notin reach) /\ <>[](local # 0)) => <>[](a \notin record)
=============================================================================
