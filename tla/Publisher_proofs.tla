-------------------------- MODULE Publisher_proofs --------------------------
(***************************************************************************)
(* Proofs about the publisher daemon: types, what the health snapshot      *)
(* says, and what is kept over reconnects and crashes, for any contracts,  *)
(* nodes and bounds.                                                       *)
(***************************************************************************)
EXTENDS Publisher, FiniteSetTheorems, SequenceTheorems, TLAPS

(***************************************************************************)
(* Helpers: what is put in the inbox, the backoff and the payload.         *)
(***************************************************************************)
LEMMA AnswersAreResponses ==
    /\ \A q \in Queries, cs \in SUBSET Contracts : [what |-> q, contracts |-> cs] \in Response
    /\ \A w \in {"other", "refused", "error"} : Reply(w) \in Response
  BY DEF Response, Reply

LEMMA DoubleType ==
    ASSUME NEW b \in BackoffMin .. BackoffMax
    PROVE  Double(b) \in BackoffMin .. BackoffMax
  BY PublisherAssumption DEF Double

LEMMA PayloadType ==
    ASSUME TypeOK
    PROVE  /\ Payload \in [sent : BOOLEAN, contracts : SUBSET Contracts]
           /\ Payload.sent = TRUE
           /\ Cardinality(Payload.contracts) \in Nat
           /\ Cardinality(Webapps) \in Nat
  <1>1. diag # NoAnswer => Named \subseteq Contracts
    BY DEF Named, TypeOK, Response, NoAnswer
  <1>2. Payload \in [sent : BOOLEAN, contracts : SUBSET Contracts] /\ Payload.sent = TRUE
    BY <1>1 DEF Payload
  <1>3. IsFiniteSet(Payload.contracts) /\ IsFiniteSet(Webapps)
    BY <1>2, FS_Subset, PublisherAssumption DEF Webapps
  <1> QED
    BY <1>2, <1>3, FS_CardinalityType

LEMMA TailType ==
    ASSUME TypeOK, inbox # <<>>
    PROVE  /\ Head(inbox) \in Response
           /\ Tail(inbox) \in Seq(Response)
           /\ Len(Tail(inbox)) <= MaxInbox
  <1>1. Head(inbox) \in Response /\ Tail(inbox) \in Seq(Response)
    BY HeadTailProperties DEF TypeOK
  <1>2. Len(Tail(inbox)) = Len(inbox) - 1 /\ Len(inbox) \in Nat
    BY HeadTailProperties DEF TypeOK
  <1> QED
    BY <1>1, <1>2, PublisherAssumption DEF TypeOK

-----------------------------------------------------------------------------
(***************************************************************************)
(* Type correctness, action by action.                                     *)
(***************************************************************************)
LEMMA TypeInit == Init => TypeOK
  <1> SUFFICES ASSUME Init PROVE TypeOK
    OBVIOUS
  <1>1. inbox \in Seq(Response) /\ Len(inbox) <= MaxInbox
    BY PublisherAssumption DEF Init
  <1>2. 0 \in 0 .. DrainLimit /\ BackoffMin \in BackoffMin .. BackoffMax
    BY PublisherAssumption
  <1> QED
    BY <1>1, <1>2, FS_EmptySet DEF Init, TypeOK, Verdicts, NoPayload, NoKeyFile, NoHealth

LEMMA DeliverType ==
    ASSUME TypeOK, NEW r \in Response, Deliver(r), owed' \subseteq Requests
    PROVE  TypeOK'
  <1>1. inbox' \in Seq(Response) /\ Len(inbox') = Len(inbox) + 1 /\ Len(inbox) \in Nat
    BY AppendProperties DEF Deliver, TypeOK
  <1>2. Len(inbox') <= MaxInbox
    BY <1>1, PublisherAssumption DEF Deliver
  <1> QED
    BY <1>1, <1>2 DEF Deliver, TypeOK, node, process, cycle

LEMMA NodeType ==
    ASSUME TypeOK, NodeNext
    PROVE  TypeOK'
  <1>1. ASSUME NEW q \in Requests, Answer(q)
        PROVE  TypeOK'
    <2>1. owed' \subseteq Requests
      BY <1>1 DEF Answer, TypeOK
    <2>2. PICK r \in Response : Deliver(r)
      <3>1. ASSUME behaviour[q] = "answers", q \in Queries
            PROVE  \E r \in Response : Deliver(r)
        BY <1>1, <3>1, AnswersAreResponses DEF Answer
      <3>2. ASSUME behaviour[q] = "answers", q \notin Queries
            PROVE  \E r \in Response : Deliver(r)
        BY <1>1, <3>2, AnswersAreResponses DEF Answer
      <3>3. ASSUME behaviour[q] = "refuses"
            PROVE  \E r \in Response : Deliver(r)
        BY <1>1, <3>3, AnswersAreResponses DEF Answer
      <3> QED
        BY <1>1, <3>1, <3>2, <3>3 DEF Answer
    <2> QED
      BY <2>1, <2>2, DeliverType
  <1>2. CASE Notify
    BY <1>2, DeliverType, AnswersAreResponses DEF Notify, TypeOK
  <1>3. CASE Disconnect
    BY <1>3 DEF Disconnect, TypeOK, process, cycle
  <1>4. CASE Restart
    BY <1>4 DEF Restart, TypeOK, process, cycle, wire
  <1>5. CASE Stabilize
    BY <1>5 DEF Stabilize, TypeOK, process, cycle, wire
  <1> QED
    BY <1>1, <1>2, <1>3, <1>4, <1>5 DEF NodeNext

LEMMA EndSessionType ==
    ASSUME TypeOK, EndSession
    PROVE  TypeOK'
  <1>1. inbox' \in Seq(Response) /\ Len(inbox') <= MaxInbox
    BY PublisherAssumption DEF EndSession
  <1>2. diag' \in Response \cup {NoAnswer} /\ hosting' \in Response \cup {NoAnswer}
        /\ drained' \in 0 .. DrainLimit
    BY PublisherAssumption DEF EndSession, ForgetCycle
  <1>3. health' \in [published : BOOLEAN, alive : BOOLEAN, contracts : Nat, webapps : Nat]
    BY DEF EndSession, SnapshotDown, TypeOK
  <1> QED
    BY <1>1, <1>2, <1>3 DEF EndSession, TypeOK, SupportKept, node, process, Running

LEMMA StartType ==
    ASSUME TypeOK, Start \/ StartFails \/ WriteKey
    PROVE  TypeOK'
  <1>1. CASE Start
    <2>1. FreshSeed \in Nat
      BY FS_CardinalityType DEF FreshSeed, TypeOK
    <2>2. /\ keyFile' \in [is : {"absent", "partial", "written"}, seed : Nat]
          /\ identity' \in Nat
          /\ phase' \in {"connect", "writing"}
      BY <1>1, <2>1 DEF Start, TypeOK
    <2> QED
      BY <1>1, <2>2 DEF Start, TypeOK, Running, node, wire, cycle
  <1>2. CASE StartFails
    BY <1>2 DEF StartFails, TypeOK, vars
  <1>3. CASE WriteKey
    BY <1>3 DEF WriteKey, TypeOK, Running, node, wire, cycle
  <1> QED
    BY <1>1, <1>2, <1>3

LEMMA CrashType ==
    ASSUME TypeOK, Crash
    PROVE  TypeOK'
  <1>1. inbox' \in Seq(Response) /\ Len(inbox') <= MaxInbox /\ owed' \subseteq Requests
    BY PublisherAssumption DEF Crash
  <1>2. diag' \in Response \cup {NoAnswer} /\ hosting' \in Response \cup {NoAnswer}
        /\ drained' \in 0 .. DrainLimit
    BY PublisherAssumption DEF Crash, ForgetCycle
  <1>3. backoff' \in BackoffMin .. BackoffMax /\ probeCache' \in [Contracts -> Verdicts]
    BY PublisherAssumption DEF Crash, Verdicts
  <1> QED
    BY <1>1, <1>2, <1>3 DEF Crash, TypeOK, NoHealth, NoPayload, node

LEMMA DaemonType ==
    ASSUME TypeOK, DaemonNext
    PROVE  TypeOK'
  <1> USE DEF Running
  <1>0. CASE Start \/ StartFails \/ WriteKey
    BY <1>0, StartType
  <1>1. CASE Connect
    <2>1. inbox' \in Seq(Response) /\ Len(inbox') <= MaxInbox
      BY <1>1, PublisherAssumption DEF Connect
    <2> QED
      BY <1>1, <2>1 DEF Connect, TypeOK, node, process, cycle, InSession, Requests
  <1>2. CASE ConnectFails \/ SendFails \/ CollectFails \/ DrainFails
    BY <1>2, EndSessionType DEF ConnectFails, SendFails, CollectFails, DrainFails
  <1>3. CASE BackoffDone
    <2>1. backoff' \in BackoffMin .. BackoffMax
      BY <1>3, DoubleType DEF BackoffDone, TypeOK
    <2> QED
      BY <1>3, <2>1 DEF BackoffDone, TypeOK, node, process, wire, cycle
  <1>4. CASE StartCycle
    <2>1. owed' \subseteq Requests /\ phase' \in InSession
      BY <1>4 DEF StartCycle, Delivered, TypeOK, Requests, InSession
    <2> QED
      BY <1>4, <2>1 DEF StartCycle, TypeOK, node, process, cycle
  <1>5. CASE CollectAnswer
    <2>1. inbox # <<>>
      BY <1>5 DEF CollectAnswer
    <2>2. inbox' \in Seq(Response) /\ Len(inbox') <= MaxInbox
      BY <1>5, <2>1, TailType DEF CollectAnswer
    <2>3. diag' \in Response \cup {NoAnswer} /\ hosting' \in Response \cup {NoAnswer}
      BY <1>5, <2>1, TailType DEF CollectAnswer, TypeOK
    <2>4. phase' \in InSession
      BY <1>5 DEF CollectAnswer, StopCollecting, InSession
    <2> QED
      BY <1>5, <2>2, <2>3, <2>4 DEF CollectAnswer, TypeOK, node, process
  <1>6. CASE CollectRefusal
    <2>1. inbox' \in Seq(Response) /\ Len(inbox') <= MaxInbox
      BY <1>6, TailType DEF CollectRefusal
    <2>2. phase' \in InSession
      BY <1>6 DEF CollectRefusal, StopCollecting, InSession
    <2> QED
      BY <1>6, <2>1, <2>2 DEF CollectRefusal, TypeOK, node, process, cycle
  <1>7. CASE Deadline
    BY <1>7 DEF Deadline, StopCollecting, TypeOK, InSession, node, process, wire, cycle
  <1>8. CASE Probe
    <2>1. PICK found \in [Named -> Verdicts] :
              probeCache' = [c \in Contracts |-> Refreshed(found, c)]
      BY <1>8 DEF Probe
    <2>2. \A c \in Contracts : Refreshed(found, c) \in Verdicts
      BY <2>1 DEF Refreshed, TypeOK
    <2>3. probeCache' \in [Contracts -> Verdicts]
      BY <2>1, <2>2
    <2> QED
      BY <1>8, <2>3 DEF Probe, TypeOK, InSession, node, process, wire, cycle
  <1>9. CASE Publish
    <2>1. /\ lastPayload' \in [sent : BOOLEAN, contracts : SUBSET Contracts]
          /\ health' \in [published : BOOLEAN, alive : BOOLEAN, contracts : Nat, webapps : Nat]
      BY <1>9, PayloadType DEF Publish
    <2>2. diag' \in Response \cup {NoAnswer} /\ hosting' \in Response \cup {NoAnswer}
          /\ drained' \in 0 .. DrainLimit
      BY <1>9, PublisherAssumption DEF Publish, ForgetCycle
    <2>3. owed' \subseteq Requests
      BY <1>9 DEF Publish, Delivered, TypeOK, Requests
    <2>4. slots' \subseteq Nat /\ IsFiniteSet(slots')
      BY <1>9, FS_AddElement DEF Publish, TypeOK
    <2> QED
      BY <1>9, <2>1, <2>2, <2>3, <2>4 DEF Publish, TypeOK, InSession, node
  <1>10. CASE Drain
    <2>1. inbox' \in Seq(Response) /\ Len(inbox') <= MaxInbox
      BY <1>10, TailType DEF Drain
    <2>2. drained' \in 0 .. DrainLimit
      BY <1>10, PublisherAssumption DEF Drain, TypeOK
    <2> QED
      BY <1>10, <2>1, <2>2 DEF Drain, TypeOK, node, process
  <1>11. CASE DrainDone
    <2>1. diag' \in Response \cup {NoAnswer} /\ hosting' \in Response \cup {NoAnswer}
          /\ drained' \in 0 .. DrainLimit
      BY <1>11, PublisherAssumption DEF DrainDone, ForgetCycle
    <2> QED
      BY <1>11, <2>1 DEF DrainDone, TypeOK, InSession, node, process, wire
  <1> QED
    BY <1>0, <1>1, <1>2, <1>3, <1>4, <1>5, <1>6, <1>7, <1>8, <1>9, <1>10, <1>11 DEF DaemonNext

LEMMA TypeStep ==
    ASSUME TypeOK, [Next]_vars
    PROVE  TypeOK'
  <1>1. CASE Next
    BY <1>1, NodeType, DaemonType, CrashType DEF Next
  <1>2. CASE UNCHANGED vars
    BY <1>2 DEF vars, TypeOK
  <1> QED
    BY <1>1, <1>2

(***************************************************************************)
(* The daemon's state stays in its type, whatever the node answers, in any *)
(* order, and however often sessions fail: in particular the backoff stays *)
(* between its two bounds, and a drain counts to DrainLimit at most        *)
(* (main.rs, main and run_session).                                        *)
(***************************************************************************)
THEOREM TypeCorrect == Spec => []TypeOK
  BY TypeInit, TypeStep, PTL DEF Spec

-----------------------------------------------------------------------------
(***************************************************************************)
(* The health snapshot.  It says "alive" by the phase alone only because   *)
(* no step but EndSession leaves a session and no step but Connect begins  *)
(* one.                                                                    *)
(***************************************************************************)
AliveByPhase == (health.alive <=> phase \in InSession) /\ (link => phase \in InSession)

SnapshotInv == AliveByPhase /\ HealthMatchesPayload

(* What the node does disturbs nothing of the snapshot, and it never asks  *)
(* itself a query.                                                         *)
LEMMA NodeStep ==
    ASSUME NodeNext
    PROVE  /\ UNCHANGED <<process, phase, diagnosticsSupported, probeCache, health, lastPayload>>
           /\ owed' \subseteq owed /\ (link' => link)
  <1>1. ASSUME NEW q \in Requests, Answer(q)
        PROVE  /\ UNCHANGED <<process, phase, diagnosticsSupported, probeCache, health,
                              lastPayload>>
               /\ owed' \subseteq owed /\ (link' => link)
    BY <1>1 DEF Answer, Deliver
  <1>2. CASE Notify
    BY <1>2 DEF Notify, Deliver
  <1>3. CASE Disconnect \/ Restart \/ Stabilize
    BY <1>3 DEF Disconnect, Restart, Stabilize, wire
  <1> QED
    BY <1>1, <1>2, <1>3 DEF NodeNext

LEMMA SnapshotInit == Init => SnapshotInv
  BY FS_EmptySet DEF Init, SnapshotInv, AliveByPhase, HealthMatchesPayload, InSession, NoPayload,
                     NoHealth

LEMMA EndSessionSnapshot ==
    ASSUME TypeOK, SnapshotInv, EndSession
    PROVE  SnapshotInv'
  BY DEF EndSession, SnapshotDown, TypeOK, SnapshotInv, AliveByPhase, HealthMatchesPayload,
         InSession

LEMMA SnapshotStep ==
    ASSUME TypeOK, SnapshotInv, [Next]_vars
    PROVE  SnapshotInv'
  <1> USE DEF SnapshotInv, AliveByPhase, HealthMatchesPayload
  <1>0. CASE Start \/ StartFails \/ WriteKey
    BY <1>0 DEF Start, StartFails, WriteKey, InSession, vars, wire
  <1>1. CASE NodeNext
    BY <1>1, NodeStep
  <1>2. CASE Connect
    BY <1>2 DEF Connect, TypeOK, InSession
  <1>3. CASE ConnectFails \/ SendFails \/ CollectFails \/ DrainFails
    BY <1>3, EndSessionSnapshot DEF ConnectFails, SendFails, CollectFails, DrainFails
  <1>4. CASE BackoffDone
    BY <1>4 DEF BackoffDone, InSession, wire
  <1>5. CASE StartCycle
    BY <1>5 DEF StartCycle, InSession
  <1>6. CASE CollectAnswer
    BY <1>6 DEF CollectAnswer, StopCollecting, InSession
  <1>7. CASE CollectRefusal \/ Deadline
    BY <1>7 DEF CollectRefusal, Deadline, StopCollecting, InSession, wire
  <1>8. CASE Probe
    BY <1>8 DEF Probe, InSession, wire
  <1>9. CASE Publish
    <2>1. health'.alive = TRUE /\ phase' \in InSession
      BY <1>9 DEF Publish, InSession
    <2>2. /\ health'.published = lastPayload'.sent
          /\ health'.contracts = Cardinality(lastPayload'.contracts)
      BY <1>9, PayloadType DEF Publish
    <2> QED
      BY <2>1, <2>2
  <1>10. CASE Drain \/ DrainDone
    BY <1>10 DEF Drain, DrainDone, InSession, wire
  <1>11. CASE Crash
    BY <1>11, FS_EmptySet DEF Crash, NoHealth, NoPayload, InSession
  <1>12. CASE UNCHANGED vars
    BY <1>12 DEF vars
  <1> QED
    BY <1>0, <1>1, <1>2, <1>3, <1>4, <1>5, <1>6, <1>7, <1>8, <1>9, <1>10, <1>11, <1>12
       DEF Next, DaemonNext

(***************************************************************************)
(* /healthz says the session is alive only while there is one, so that the *)
(* whole of a backoff shows, and always while its connection is up         *)
(* (main.rs:570-575, 615-623 and 648-656).                                 *)
(***************************************************************************)
THEOREM SnapshotIsLive == Spec => []AliveInSession
  <1>1. SnapshotInv => AliveInSession
    BY DEF SnapshotInv, AliveByPhase, AliveInSession
  <1> QED
    BY <1>1, TypeInit, TypeStep, SnapshotInit, SnapshotStep, PTL DEF Spec

(***************************************************************************)
(* The contract count it serves is that of the last payload sent, and it   *)
(* reports a publication iff there was one, over any number of sessions.   *)
(***************************************************************************)
THEOREM SnapshotIsOfLastPayload == Spec => []HealthMatchesPayload
  <1>1. SnapshotInv => HealthMatchesPayload
    BY DEF SnapshotInv
  <1> QED
    BY <1>1, TypeInit, TypeStep, SnapshotInit, SnapshotStep, PTL DEF Spec

-----------------------------------------------------------------------------
(***************************************************************************)
(* What outlives a session.                                                *)
(***************************************************************************)
LEMMA VerdictKept ==
    ASSUME TypeOK, [Next]_vars, phase' # "down", NEW c \in Contracts, probeCache[c] # "unknown"
    PROVE  probeCache'[c] # "unknown"
  <1>0. CASE Start \/ WriteKey
    BY <1>0 DEF Start, WriteKey
  <1>1. CASE NodeNext
    BY <1>1, NodeStep
  <1>2. CASE Probe
    BY <1>2 DEF Probe, Refreshed
  <1>3. CASE ConnectFails \/ SendFails \/ CollectFails \/ DrainFails
    BY <1>3 DEF ConnectFails, SendFails, CollectFails, DrainFails, EndSession
  <1>4. CASE Connect \/ BackoffDone \/ StartCycle \/ CollectAnswer
    BY <1>4 DEF Connect, BackoffDone, StartCycle, CollectAnswer
  <1>5. CASE CollectRefusal \/ Deadline \/ Publish \/ Drain \/ DrainDone
    BY <1>5 DEF CollectRefusal, Deadline, Publish, Drain, DrainDone
  <1>6. CASE StartFails \/ UNCHANGED vars
    BY <1>6 DEF StartFails, vars
  <1>7. ~Crash
    BY DEF Crash
  <1> QED
    BY <1>0, <1>1, <1>2, <1>3, <1>4, <1>5, <1>6, <1>7 DEF Next, DaemonNext

(***************************************************************************)
(* What a probe found out is never forgotten while the daemon runs, not by *)
(* a probe that fails later nor by a reconnect (probe.rs, refresh_cache;   *)
(* main.rs, main, which owns the cache).                                   *)
(***************************************************************************)
THEOREM VerdictsAreKept == Spec => VerdictsSurvive
  <1>1. ASSUME TypeOK, [Next]_vars
        PROVE  [phase' # "down" =>
                    \A c \in Contracts : probeCache[c] # "unknown" => probeCache'[c] # "unknown"]_vars
    BY <1>1, VerdictKept
  <1> QED
    BY <1>1, TypeCorrect, PTL DEF Spec, VerdictsSurvive

LEMMA NoQuerySent ==
    ASSUME [Next]_vars, ~diagnosticsSupported, phase' # "down"
    PROVE  ~diagnosticsSupported' /\ owed' \cap Queries \subseteq owed
  <1>0. CASE Start \/ WriteKey
    BY <1>0 DEF Start, WriteKey, wire
  <1>1. CASE NodeNext
    BY <1>1, NodeStep
  <1>2. CASE Connect
    BY <1>2 DEF Connect, Queries
  <1>3. CASE ConnectFails \/ SendFails \/ CollectFails \/ DrainFails
    BY <1>3 DEF ConnectFails, SendFails, CollectFails, DrainFails, EndSession, SupportKept
  <1>4. CASE Publish
    BY <1>4 DEF Publish, Delivered, Queries
  <1>5. CASE BackoffDone \/ StartCycle \/ CollectAnswer \/ Probe
    BY <1>5 DEF BackoffDone, StartCycle, CollectAnswer, Probe, wire
  <1>6. CASE CollectRefusal \/ Deadline \/ Drain \/ DrainDone
    BY <1>6 DEF CollectRefusal, Deadline, Drain, DrainDone, wire
  <1>7. CASE StartFails \/ UNCHANGED vars
    BY <1>7 DEF StartFails, vars
  <1>8. ~Crash
    BY DEF Crash
  <1> QED
    BY <1>0, <1>1, <1>2, <1>3, <1>4, <1>5, <1>6, <1>7, <1>8 DEF Next, DaemonNext

(***************************************************************************)
(* A node that has refused a query once is never asked again, in this      *)
(* session or a later one (main.rs: diagnostics_supported outlives         *)
(* run_session).                                                           *)
(***************************************************************************)
THEOREM RefusalIsRemembered == Spec => NotAskedAgain
  <1>1. ASSUME [Next]_vars
        PROVE  [~diagnosticsSupported /\ phase' # "down" =>
                    /\ ~diagnosticsSupported'
                    /\ owed' \cap Queries \subseteq owed]_vars
    BY <1>1, NoQuerySent
  <1> QED
    BY <1>1, PTL DEF Spec, NotAskedAgain

-----------------------------------------------------------------------------
(***************************************************************************)
(* The slot.  OneSlot is not inductive: what is in the key file must be    *)
(* the seed already published under, a process that runs must sign with    *)
(* what is in the file, and nothing may be published before it is there.   *)
(***************************************************************************)
SlotInv ==
    /\ keyFile.is # "written" => slots = {}
    /\ slots \subseteq {keyFile.seed}
    /\ phase \in Running => keyFile.is = "written" /\ identity = keyFile.seed
    /\ phase = "writing" => keyFile.is = "partial"

LEMMA SlotInit == Init => SlotInv
  BY DEF Init, SlotInv, NoKeyFile, Running, InSession

LEMMA EndSessionSlot ==
    ASSUME SlotInv, EndSession, phase \in Running
    PROVE  SlotInv'
  BY DEF EndSession, SlotInv, process, Running

LEMMA SlotStep ==
    ASSUME TypeOK, SlotInv, [Next]_vars
    PROVE  SlotInv'
  <1> USE DEF SlotInv, Running
  <1>1. CASE NodeNext
    BY <1>1, NodeStep DEF process
  <1>2. CASE Start
    BY <1>2 DEF Start, TypeOK, InSession
  <1>3. CASE WriteKey
    BY <1>3 DEF WriteKey, TypeOK
  <1>4. CASE ConnectFails \/ SendFails \/ CollectFails \/ DrainFails
    BY <1>4, EndSessionSlot DEF ConnectFails, SendFails, CollectFails, DrainFails, InSession
  <1>5. CASE Connect \/ BackoffDone \/ StartCycle \/ CollectAnswer
    BY <1>5 DEF Connect, BackoffDone, StartCycle, CollectAnswer, StopCollecting, process,
                InSession
  <1>6. CASE CollectRefusal \/ Deadline \/ Probe \/ Drain \/ DrainDone
    BY <1>6 DEF CollectRefusal, Deadline, Probe, Drain, DrainDone, StopCollecting, process,
                InSession
  <1>7. CASE Publish
    BY <1>7 DEF Publish, InSession
  <1>8. CASE Crash
    BY <1>8 DEF Crash, InSession
  <1>9. CASE StartFails \/ UNCHANGED vars
    BY <1>9 DEF StartFails, vars
  <1> QED
    BY <1>1, <1>2, <1>3, <1>4, <1>5, <1>6, <1>7, <1>8, <1>9 DEF Next, DaemonNext

(***************************************************************************)
(* Whenever the process is killed, also while it writes its key file, all  *)
(* its payloads are signed with one seed: it keeps its slot (main.rs,      *)
(* load_or_create_key).                                                    *)
(***************************************************************************)
THEOREM KeepsItsSlot == Spec => []OneSlot
  <1>1. SlotInv => OneSlot
    BY DEF SlotInv, OneSlot
  <1> QED
    BY <1>1, TypeInit, TypeStep, SlotInit, SlotStep, PTL DEF Spec
=============================================================================
