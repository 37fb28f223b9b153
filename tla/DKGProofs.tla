----------------------------- MODULE DKGProofs ------------------------------
(***************************************************************************)
(* Proofs about module DKG, for any number of participants, any number of  *)
(* inconsistent ones, and any faults.                                      *)
(*                                                                         *)
(* The echo broadcast does what it is for.  The argument: a participant's  *)
(* collected Round 1 Packages never change once it has those of all the    *)
(* others; an echo in transit repeats what its sender collected; so a      *)
(* participant who has accepted the echoes of everybody about everybody    *)
(* collected what all of them did (EchoInv).                               *)
(*                                                                         *)
(* Nobody is accused without cause, and no key is made before everybody    *)
(* has passed the echo broadcast.  The argument: what a participant still  *)
(* has to send, what is on its way and what has been accepted exclude each *)
(* other, so nothing is handled twice, and the server's queues keep Round 1*)
(* Packages before Round 2 Packages; so a message that is out of place is  *)
(* from a participant who is a round ahead.  What is on its way was        *)
(* published by its sender, and a consistent participant publishes one     *)
(* version (CauseInv).                                                     *)
(***************************************************************************)
EXTENDS DKG, FiniteSetTheorems, SequenceTheorems, TLAPS

Own(x) == [from |-> x, version |-> OwnVersion]

\* p has the Round 1 Packages of all the others.
Full(p) == DOMAIN collected[p] = Others(p)

\* What is true of a message in the queue or the inbox of r.
MsgOK(m, r) ==
    /\ m \in Message
    /\ m.sender \in Others(r)
    /\ m.type = "round1" /\ m.sender \in Consistent => m.package = Own(m.sender)
    /\ m.type = "broadcast" =>
          /\ Full(m.sender)
          /\ m.original \in Others(m.sender)
          /\ m.package = collected[m.sender][m.original]

\* An echo that p has accepted, by original sender and broadcaster.
EchoOK(p, k) ==
    /\ k \in Others(p) \X Others(p)
    /\ k[1] # k[2]
    /\ Full(k[2])
    /\ collected[k[2]][k[1]] = collected[p][k[1]]

\* Everybody collected what p did.
Agreed(p) ==
    \A q \in Others(p) : \A x \in Others(p) \ {q} :
        Full(q) /\ collected[q][x] = collected[p][x]

Types ==
    /\ queue \in [Participants -> Seq(Message)]
    /\ inbox \in [Participants -> Seq(Message)]
    /\ pc \in [Participants -> Stages]
    /\ DOMAIN todo = Participants
    /\ DOMAIN state = Participants
    /\ DOMAIN round1_packages = Participants
    /\ DOMAIN collected = Participants
    /\ \A p \in Participants :
          /\ IsDKGSessionState(state[p])
          /\ IsMap(collected[p], Participants, Round1Package)

MessagesOK ==
    \A r \in Participants :
        /\ \A i \in DOMAIN queue[r] : MsgOK(queue[r][i], r)
        /\ \A i \in DOMAIN inbox[r] : MsgOK(inbox[r][i], r)

\* What p has collected, and how its state relates to it.
CollectedOK(p) ==
    /\ state[p].tag = "WaitingForRound1Packages" =>
          /\ collected[p] = EmptyMap
          /\ DOMAIN state[p].round1 \subseteq Others(p)
          /\ \A x \in DOMAIN state[p].round1 \cap Consistent :
                state[p].round1[x] = Own(x)
    /\ state[p].tag # "WaitingForRound1Packages" =>
          /\ Full(p)
          /\ \A x \in Others(p) \cap Consistent : collected[p][x] = Own(x)
    /\ state[p].tag \in {"WaitingForRound1PackagesBroadcast",
                         "WaitingForRound2Packages"} =>
          state[p].round1 = collected[p]

EchoedOK(p) ==
    /\ state[p].tag = "WaitingForRound1PackagesBroadcast" =>
          \A k \in DOMAIN state[p].echoed : EchoOK(p, k)
    /\ /\ state[p].tag \in {"WaitingForRound2Packages", "Round2PackagesReady"}
       /\ Cardinality(Participants) > 2
       => Agreed(p)

ReturnedOK(p) ==
    round1_packages[p] # EmptyMap =>
        /\ state[p].tag \in {"WaitingForRound2Packages", "Round2PackagesReady"}
        /\ round1_packages[p] = collected[p]

SendingOK(p) ==
    pc[p] = "sendb" =>
        /\ state[p].tag = "WaitingForRound1PackagesBroadcast"
        /\ todo[p] \subseteq ToEcho(p)

EchoInv ==
    /\ Types
    /\ MessagesOK
    /\ \A p \in Participants :
          CollectedOK(p) /\ EchoedOK(p) /\ ReturnedOK(p) /\ SendingOK(p)

-----------------------------------------------------------------------------

\* Everybody has another participant, and Others is one smaller than all.
LEMMA OthersFacts ==
    ASSUME NEW p \in Participants
    PROVE  /\ IsFiniteSet(Others(p))
           /\ Cardinality(Others(p)) = Cardinality(Participants) - 1
           /\ Others(p) # {}
<1>1. /\ IsFiniteSet(Others(p))
      /\ Cardinality(Others(p)) = Cardinality(Participants) - 1
  BY SizeAssumption, FS_RemoveElement DEF Others
<1>2. Cardinality(Participants) \in Nat
  BY SizeAssumption, FS_CardinalityType
<1>3. Cardinality(Others(p)) # 0
  BY <1>1, <1>2, SizeAssumption
<1> QED
  BY <1>1, <1>3, FS_EmptySet

\* A set of other participants with as many members as all the others is all
\* the others: the count that handle_round1_package makes is enough.
LEMMA CountingSuffices ==
    ASSUME NEW p \in Participants, NEW S, S \subseteq Others(p),
           Cardinality(S) = Cardinality(Participants) - 1
    PROVE  S = Others(p)
  BY OthersFacts, FS_Subset

\* What recv leaves behind when it accepts a message has the right types.
LEMMA RecvType ==
    ASSUME NEW st, IsDKGSessionState(st), NEW p \in Participants,
           NEW m \in Message, RecvResult(st, p, m) = "Ok"
    PROVE  /\ IsDKGSessionState(Recv(st, m))
           /\ m.type = Expected(st.tag)
           /\ m.type # "none"
<1>1. m.type = Expected(st.tag) /\ m.type # "none"
  BY DEF RecvResult, Message, Expected
<1>2. CASE m.type = "round1"
  <2>1. m.sender \in Participants /\ m.package \in Round1Package
    BY <1>2 DEF Message
  <2>2. IsMap(Insert(st.round1, m.sender, m.package), Participants, Round1Package)
    BY <2>1 DEF Insert, IsMap, IsDKGSessionState
  <2> QED
    BY <1>1, <1>2, <2>2 DEF Recv, HandleRound1Package, IsDKGSessionState, Tags, IsMap, EmptyMap
<1>3. CASE m.type = "broadcast"
  <2>1. /\ m.sender \in Participants /\ m.original \in Participants
        /\ m.package \in Round1Package
    BY <1>3 DEF Message
  <2>2. IsMap(Insert(st.echoed, <<m.original, m.sender>>, m.package),
              Participants \X Participants, Round1Package)
    BY <2>1 DEF Insert, IsMap, IsDKGSessionState
  <2> QED
    BY <1>1, <1>3, <2>2
    DEF Recv, HandleRound1PackageBroadcast, IsDKGSessionState, Tags, IsMap, EmptyMap
<1>4. CASE m.type = "round2"
  <2>1. m.sender \in Participants /\ m.package \in Round2Package
    BY <1>4 DEF Message
  <2>2. IsMap(Insert(st.round2, m.sender, m.package), Participants, Round2Package)
    BY <2>1 DEF Insert, IsMap, IsDKGSessionState
  <2> QED
    BY <1>1, <1>4, <2>2 DEF Recv, HandleRound2Package, IsDKGSessionState, Tags, IsMap, EmptyMap
<1> QED
  BY <1>2, <1>3, <1>4 DEF Message

-----------------------------------------------------------------------------
(* What recv does with an accepted message, state by state.                *)

\* Round 1 Packages are collected until their number is that of the others.
LEMMA RecvRound1 ==
    ASSUME NEW st, NEW p, NEW m \in Message, RecvResult(st, p, m) = "Ok",
           st.tag = "WaitingForRound1Packages"
    PROVE  LET new == Recv(st, m) IN
           /\ m.type = "round1"
           /\ new.round1 = Insert(st.round1, m.sender, m.package)
           /\ new.echoed = EmptyMap
           /\ new.tag # "Round2PackagesReady"
           /\ new.tag # "WaitingForRound1Packages" =>
                 Cardinality(DOMAIN new.round1) = Cardinality(Participants) - 1
           /\ new.tag = "WaitingForRound2Packages" => ~(Cardinality(Participants) > 2)
<1>1. m.type = "round1"
  BY DEF RecvResult, Expected
<1>2. Recv(st, m) = HandleRound1Package(st, m)
  BY <1>1 DEF Recv
<1> QED
  BY <1>1, <1>2 DEF HandleRound1Package

\* An accepted echo is about a third participant, and equals its package.
LEMMA RecvBroadcast ==
    ASSUME NEW st, NEW p, NEW m \in Message, RecvResult(st, p, m) = "Ok",
           st.tag = "WaitingForRound1PackagesBroadcast"
    PROVE  LET new    == Recv(st, m)
               echoes == Insert(st.echoed, <<m.original, m.sender>>, m.package)
           IN
           /\ m.type = "broadcast"
           /\ m.original # p /\ m.original # m.sender
           /\ m.original \in DOMAIN st.round1
           /\ st.round1[m.original] = m.package
           /\ new.round1 = st.round1
           /\ \/ new.tag = "WaitingForRound1PackagesBroadcast" /\ new.echoed = echoes
              \/ new.tag = "WaitingForRound2Packages" /\ EchoesComplete(st.round1, echoes)
<1>1. m.type = "broadcast"
  BY DEF RecvResult, Expected
<1>2. BroadcastResult(st, p, m) = "Ok"
  BY <1>1 DEF RecvResult, Expected
<1>3. Recv(st, m) = HandleRound1PackageBroadcast(st, m)
  BY <1>1 DEF Recv
<1> QED
  BY <1>1, <1>2, <1>3 DEF HandleRound1PackageBroadcast, BroadcastResult

\* Round 2 Packages leave the Round 1 Packages alone until they are complete.
LEMMA RecvRound2 ==
    ASSUME NEW st, NEW p, NEW m \in Message, RecvResult(st, p, m) = "Ok",
           st.tag = "WaitingForRound2Packages"
    PROVE  LET new == Recv(st, m) IN
           \/ new.tag = "WaitingForRound2Packages" /\ new.round1 = st.round1
           \/ new.tag = "Round2PackagesReady"
<1>1. m.type = "round2"
  BY DEF RecvResult, Expected
<1>2. Recv(st, m) = HandleRound2Package(st, m)
  BY <1>1 DEF Recv
<1> QED
  BY <1>2 DEF HandleRound2Package

\* Nothing is accepted once all packages are there.
LEMMA RecvReady ==
    ASSUME NEW st, NEW p, NEW m, st.tag = "Round2PackagesReady"
    PROVE  RecvResult(st, p, m) # "Ok"
  BY DEF RecvResult, Expected

\* A complete set of echoes, each of them as it should be, is agreement.
LEMMA EchoesAgree ==
    ASSUME NEW p \in Participants, Full(p), NEW echoes,
           \A k \in DOMAIN echoes : EchoOK(p, k),
           EchoesComplete(collected[p], echoes)
    PROVE  Agreed(p)
<1> SUFFICES ASSUME NEW q \in Others(p), NEW x \in Others(p) \ {q}
             PROVE  Full(q) /\ collected[q][x] = collected[p][x]
  BY DEF Agreed
<1>1. {k[2] : k \in {y \in DOMAIN echoes : y[1] = x}} \cup {x} = Others(p)
  BY DEF EchoesComplete, Full
<1>2. PICK k \in DOMAIN echoes : k[1] = x /\ k[2] = q
  BY <1>1
<1> QED
  BY <1>2 DEF EchoOK

-----------------------------------------------------------------------------
(* What steps preserve.                                                    *)

\* Collecting is over once all packages are there.
Settled == \A q \in Participants : Full(q) => collected'[q] = collected[q]

\* Facts about collected packages outlive a step that leaves them settled.
LEMMA FactsSettled ==
    ASSUME Settled, NEW r \in Participants
    PROVE  /\ \A m : MsgOK(m, r) => MsgOK(m, r)'
           /\ Full(r) => Full(r)'
           /\ \A k : Full(r) /\ EchoOK(r, k) => EchoOK(r, k)'
           /\ Full(r) /\ Agreed(r) => Agreed(r)'
<1>1. \A q \in Participants : Full(q) => Full(q)' /\ collected'[q] = collected[q]
  BY DEF Settled, Full
<1>2. ASSUME NEW m, MsgOK(m, r) PROVE MsgOK(m, r)'
  BY <1>1, <1>2 DEF MsgOK, Others
<1>3. ASSUME NEW k, Full(r), EchoOK(r, k) PROVE EchoOK(r, k)'
  <2>1. k[2] \in Participants
    BY <1>3 DEF EchoOK, Others
  <2> QED
    BY <1>1, <1>3, <2>1 DEF EchoOK
<1>4. ASSUME Full(r), Agreed(r) PROVE Agreed(r)'
  BY <1>1, <1>4 DEF Agreed, Others
<1> QED
  BY <1>1, <1>2, <1>3, <1>4

\* A step that handles no message has only to keep messages and send loops in
\* order.
LEMMA QuietStep ==
    ASSUME EchoInv, UNCHANGED <<state, collected, round1_packages>>,
           queue' \in [Participants -> Seq(Message)],
           inbox' \in [Participants -> Seq(Message)],
           pc' \in [Participants -> Stages], DOMAIN todo' = Participants,
           \A r \in Participants :
              /\ \A i \in DOMAIN queue'[r] : MsgOK(queue'[r][i], r)
              /\ \A i \in DOMAIN inbox'[r] : MsgOK(inbox'[r][i], r)
              /\ pc'[r] = "sendb" => pc[r] = "sendb" /\ todo'[r] \subseteq todo[r]
    PROVE  EchoInv'
<1>1. Settled
  BY DEF Settled
<1>2. Types'
  BY DEF EchoInv, Types
<1>3. MessagesOK'
  BY <1>1, FactsSettled DEF MessagesOK
<1>4. ASSUME NEW p \in Participants
      PROVE  (CollectedOK(p) /\ EchoedOK(p) /\ ReturnedOK(p) /\ SendingOK(p))'
  <2>1. CollectedOK(p) /\ EchoedOK(p) /\ ReturnedOK(p) /\ SendingOK(p)
    BY DEF EchoInv
  <2>2. CollectedOK(p)'
    BY <2>1 DEF CollectedOK, Full
  <2>3. EchoedOK(p)'
    BY <2>1 DEF EchoedOK, EchoOK, Agreed, Full
  <2>4. ReturnedOK(p)'
    BY <2>1 DEF ReturnedOK
  <2>5. SendingOK(p)'
    BY <2>1 DEF SendingOK
  <2> QED
    BY <2>2, <2>3, <2>4, <2>5
<1> QED
  BY <1>2, <1>3, <1>4 DEF EchoInv

-----------------------------------------------------------------------------
(* The actions.                                                            *)

\* An empty queue or inbox.
LEMMA NoMessages == <<>> \in Seq(Message) /\ DOMAIN <<>> = {}
<1>1. <<>> \in Seq(Message) /\ Len(<<>>) = 0
  OBVIOUS
<1>2. DOMAIN <<>> = 1..0
  OBVIOUS
<1> QED
  BY <1>1, <1>2

\* Init has the invariant.
LEMMA InitEcho == Init => EchoInv
<1> SUFFICES ASSUME Init PROVE EchoInv
  OBVIOUS
<1>1. /\ DOMAIN EmptyMap = {}
      /\ \A K, V : IsMap(EmptyMap, K, V)
  BY DEF EmptyMap, IsMap
<1>2. IsDKGSessionState(Default)
  BY <1>1 DEF IsDKGSessionState, Default, Tags
<1>3. Types
  BY <1>1, <1>2, NoMessages DEF Types, Init, Stages
<1>4. MessagesOK
  BY NoMessages DEF MessagesOK, Init
<1>5. ASSUME NEW p \in Participants
      PROVE  CollectedOK(p) /\ EchoedOK(p) /\ ReturnedOK(p) /\ SendingOK(p)
  BY <1>1 DEF Init, Default, CollectedOK, EchoedOK, ReturnedOK, SendingOK
<1> QED
  BY <1>3, <1>4, <1>5 DEF EchoInv

\* Steps that change where participants are, and drop messages or none.
LEMMA DroppingStep ==
    ASSUME EchoInv, UNCHANGED <<state, collected, round1_packages>>,
           NEW p \in Participants, NEW stage \in Stages \ {"sendb"},
           pc' = [pc EXCEPT ![p] = stage],
           queue' = queue \/ queue' = [q \in Participants |-> <<>>],
           inbox' = inbox \/ inbox' = [inbox EXCEPT ![p] = <<>>],
           NEW sends, todo' = todo \/ todo' = [todo EXCEPT ![p] = sends]
    PROVE  EchoInv'
<1>0. /\ queue \in [Participants -> Seq(Message)]
      /\ inbox \in [Participants -> Seq(Message)]
      /\ pc \in [Participants -> Stages]
      /\ DOMAIN todo = Participants
  BY DEF EchoInv, Types
<1>1. /\ queue' \in [Participants -> Seq(Message)]
      /\ inbox' \in [Participants -> Seq(Message)]
      /\ pc' \in [Participants -> Stages]
      /\ DOMAIN todo' = Participants
  <2>1. queue' \in [Participants -> Seq(Message)]
    BY <1>0, NoMessages
  <2>2. inbox' \in [Participants -> Seq(Message)]
    BY <1>0, NoMessages
  <2> QED
    BY <1>0, <2>1, <2>2
<1>2. ASSUME NEW r \in Participants
      PROVE  /\ \A i \in DOMAIN queue'[r] : MsgOK(queue'[r][i], r)
             /\ \A i \in DOMAIN inbox'[r] : MsgOK(inbox'[r][i], r)
  <2>1. queue'[r] = queue[r] \/ queue'[r] = <<>>
    OBVIOUS
  <2>2. inbox'[r] = inbox[r] \/ inbox'[r] = <<>>
    BY <1>0
  <2> QED
    BY <2>1, <2>2, NoMessages DEF EchoInv, MessagesOK
<1>3. ASSUME NEW r \in Participants, pc'[r] = "sendb"
      PROVE  pc[r] = "sendb" /\ todo'[r] \subseteq todo[r]
  BY <1>3 DEF EchoInv, Types
<1> QED
  BY <1>1, <1>2, <1>3, QuietStep

\* Every step but a send, a receive and an accepted message.
LEMMA OtherSteps ==
    ASSUME EchoInv, NEW p \in Participants,
           \/ Create(p) \/ Join(p)
           \/ HandleFails(p) \/ CallFails(p) \/ Cleanup(p) \/ Close(p)
           \/ LogoutAndFinish(p) \/ TokenExpires(p) \/ Fault(p) \/ Crash(p)
    PROVE  EchoInv'
<1>1. CASE Create(p) \/ Join(p)
  BY <1>1, DroppingStep DEF Create, Join, Enter, Stages, Running, Sending
<1>2. CASE HandleFails(p) \/ CallFails(p)
  BY <1>2, DroppingStep DEF HandleFails, CallFails, Abort, Stages
<1>3. CASE Cleanup(p)
  BY <1>3, DroppingStep DEF Cleanup, Stages, Ended
<1>4. CASE Close(p)
  BY <1>4, DroppingStep DEF Close, Stages, Running
<1>5. CASE LogoutAndFinish(p)
  <2>1. PICK stage \in Ended : pc' = [pc EXCEPT ![p] = stage]
    BY <1>5 DEF LogoutAndFinish, Ended
  <2> QED
    BY <1>5, <2>1, DroppingStep DEF LogoutAndFinish, Stages, Ended
<1>6. CASE TokenExpires(p)
  BY <1>6, QuietStep DEF TokenExpires, EchoInv, Types, MessagesOK
<1>7. CASE Fault(p)
  BY <1>7, DroppingStep DEF Fault, Stages
<1>8. CASE Crash(p)
  BY <1>8, DroppingStep DEF Crash, Stages, Ended
<1> QED
  BY <1>1, <1>2, <1>3, <1>4, <1>5, <1>6, <1>7, <1>8

\* What a send loop sends is in order; an echo repeats what was collected.
LEMMA OutgoingOK ==
    ASSUME EchoInv, NEW p \in Participants, NEW r \in Others(p),
           NEW s \in Participants, NEW v \in Versions, SendOne(p, r, s, v)
    PROVE  MsgOK(Outgoing(p, r, s, v), r)
<1>0. /\ r \in Participants /\ p \in Others(r)
      /\ p \in Consistent => v = OwnVersion
  BY DEF Others, SendOne, Consistent
<1>1. CASE pc[p] = "send1"
  <2>1. Outgoing(p, r, s, v) = [type |-> "round1", sender |-> p,
                                package |-> [from |-> p, version |-> v]]
    BY <1>1 DEF Outgoing
  <2> QED
    BY <1>0, <2>1 DEF MsgOK, Message, Round1Package, Own
<1>2. CASE pc[p] = "sendb"
  <2>1. Outgoing(p, r, s, v) = [type |-> "broadcast", sender |-> p, original |-> s,
                                package |-> state[p].round1[s]]
    BY <1>2 DEF Outgoing
  <2>2. /\ state[p].tag = "WaitingForRound1PackagesBroadcast"
        /\ todo[p] \subseteq ToEcho(p)
        /\ CollectedOK(p)
        /\ IsMap(collected[p], Participants, Round1Package)
    BY <1>2 DEF EchoInv, SendingOK, Types
  <2>3. Full(p) /\ state[p].round1 = collected[p]
    BY <2>2 DEF CollectedOK
  <2>4. s \in Others(p)
    BY <2>2 DEF SendOne, ToEcho
  <2>5. collected[p][s] \in Round1Package
    BY <2>2, <2>3, <2>4 DEF IsMap, Full
  <2> QED
    BY <1>0, <2>1, <2>3, <2>4, <2>5 DEF MsgOK, Message
<1>3. CASE pc[p] = "send2"
  <2>1. Outgoing(p, r, s, v) = [type |-> "round2", sender |-> p,
                  package |-> [from |-> p, version |-> v, to |-> r]]
    BY <1>3 DEF Outgoing
  <2> QED
    BY <1>0, <2>1 DEF MsgOK, Message, Round2Package
<1> QED
  BY <1>1, <1>2, <1>3 DEF SendOne, Sending

\* A send puts one message in order at the end of a queue.
LEMMA SendOneEcho ==
    ASSUME EchoInv, NEW p \in Participants, NEW r \in Others(p),
           NEW s \in Participants, NEW v \in Versions, SendOne(p, r, s, v)
    PROVE  EchoInv'
<1> DEFINE out == Outgoing(p, r, s, v)
<1>0. r \in Participants /\ queue \in [Participants -> Seq(Message)]
      /\ pc \in [Participants -> Stages] /\ DOMAIN todo = Participants
  BY DEF Others, EchoInv, Types
<1>1. MsgOK(out, r)
  BY OutgoingOK
<1>2. out \in Message
  BY <1>1 DEF MsgOK
<1> HIDE DEF out
<1>3. queue' = [queue EXCEPT ![r] = Append(@, out)]
  BY DEF SendOne, out
<1>4. queue' \in [Participants -> Seq(Message)]
  BY <1>0, <1>2, <1>3
<1>5. ASSUME NEW q \in Participants, NEW i \in DOMAIN queue'[q]
      PROVE  MsgOK(queue'[q][i], q)
  <2>1. CASE q = r
    <3>1. queue'[q] = Append(queue[r], out) /\ queue[r] \in Seq(Message)
      BY <1>0, <1>3, <2>1
    <3>2. CASE i = Len(queue[r]) + 1
      BY <1>1, <2>1, <3>1, <3>2
    <3>3. CASE i # Len(queue[r]) + 1
      BY <2>1, <3>1, <3>3 DEF EchoInv, MessagesOK
    <3> QED
      BY <3>2, <3>3
  <2>2. CASE q # r
    BY <1>0, <1>3, <2>2 DEF EchoInv, MessagesOK
  <2> QED
    BY <2>1, <2>2
<1>6. /\ inbox' \in [Participants -> Seq(Message)]
      /\ \A q \in Participants : \A i \in DOMAIN inbox'[q] : MsgOK(inbox'[q][i], q)
  BY DEF SendOne, EchoInv, Types, MessagesOK
<1>7. pc[p] \in Sending /\ NextStage(pc[p]) \in Waiting
  BY DEF SendOne, Sending, NextStage, Waiting
<1>8. /\ pc' \in [Participants -> Stages]
      /\ DOMAIN todo' = Participants
      /\ \A q \in Participants :
            pc'[q] = "sendb" => pc[q] = "sendb" /\ todo'[q] \subseteq todo[q]
  BY <1>0, <1>7 DEF SendOne, Stages, Running, Waiting
<1>9. UNCHANGED <<state, collected, round1_packages>>
  BY DEF SendOne
<1> QED
  BY <1>4, <1>5, <1>6, <1>8, <1>9, QuietStep

\* A receive moves a queue to an inbox.
LEMMA ReceiveEcho ==
    ASSUME EchoInv, NEW p \in Participants, Receive(p)
    PROVE  EchoInv'
<1>1. /\ queue' = [queue EXCEPT ![p] = <<>>]
      /\ inbox' = [inbox EXCEPT ![p] = queue[p]]
      /\ UNCHANGED <<pc, todo, state, collected, round1_packages>>
  BY DEF Receive
<1>2. /\ queue' \in [Participants -> Seq(Message)]
      /\ inbox' \in [Participants -> Seq(Message)]
      /\ pc' \in [Participants -> Stages]
      /\ DOMAIN todo' = Participants
  BY <1>1 DEF EchoInv, Types
<1>3. ASSUME NEW r \in Participants
      PROVE  /\ \A i \in DOMAIN queue'[r] : MsgOK(queue'[r][i], r)
             /\ \A i \in DOMAIN inbox'[r] : MsgOK(inbox'[r][i], r)
  BY <1>1 DEF EchoInv, Types, MessagesOK
<1> QED
  BY <1>1, <1>2, <1>3, QuietStep

-----------------------------------------------------------------------------
(* An accepted message.                                                    *)

\* Where the loops go after a batch: to the echo broadcast, or to round 2,
\* only in the state that is for it.
LEMMA AfterBatchOK ==
    ASSUME NEW p, NEW st, pc[p] \in Waiting
    PROVE  /\ AfterBatch(p, st) \in Stages
           /\ AfterBatch(p, st) = "sendb" =>
                 st.tag = "WaitingForRound1PackagesBroadcast"
           /\ AfterBatch(p, st) = "send2" => st.tag = "WaitingForRound2Packages"
  BY DEF AfterBatch, HasRound1Packages, HasRound1BroadcastPackages,
         HasRound2Packages, Waiting, Sending, Running, Stages

\* p accepts m and is left in state st: HandleOne, as far as the echo broadcast
\* is concerned.
Accepts(p, m, st) ==
    /\ m = Head(inbox[p])
    /\ m \in Message /\ MsgOK(m, p)
    /\ RecvResult(state[p], p, m) = "Ok"
    /\ st = Recv(state[p], m)
    /\ IsDKGSessionState(st)
    /\ inbox[p] # <<>> /\ inbox' = [inbox EXCEPT ![p] = Tail(@)]
    /\ queue' = queue
    /\ state' = [state EXCEPT ![p] = st]
    /\ collected' = [collected EXCEPT ![p] =
          IF /\ state[p].tag = "WaitingForRound1Packages"
             /\ st.tag # "WaitingForRound1Packages"
          THEN st.round1 ELSE @]
    /\ \E to \in Stages, sends \in SUBSET (Participants \X Participants) :
          /\ pc' = [pc EXCEPT ![p] = to]
          /\ todo' = [todo EXCEPT ![p] = sends]
          /\ to = "sendb" => /\ st.tag = "WaitingForRound1PackagesBroadcast"
                             /\ sends = ToEcho(p)
          /\ to = "send2" => st.tag = "WaitingForRound2Packages"
          /\ round1_packages' = [round1_packages EXCEPT ![p] =
                IF to = "send2" THEN st.round1 ELSE @]

\* HandleOne, with its local definitions resolved.
LEMMA HandleOneAccepts ==
    ASSUME EchoInv, NEW p \in Participants, HandleOne(p)
    PROVE  \E m, st : Accepts(p, m, st)
<1> DEFINE m  == Head(inbox[p])
           st == Recv(state[p], m)
           to == IF Len(inbox[p]) = 1 THEN AfterBatch(p, st) ELSE pc[p]
           sends == IF to = "sendb" THEN ToEcho(p)
                    ELSE IF to = "send2" THEN ToAll(p) ELSE {}
<1>1. inbox[p] \in Seq(Message) /\ inbox[p] # <<>>
  BY DEF EchoInv, Types, HandleOne
<1>2. 1 \in DOMAIN inbox[p] /\ m = inbox[p][1]
  BY <1>1
<1>3. MsgOK(m, p)
  BY <1>2 DEF EchoInv, MessagesOK
<1>4. m \in Message
  BY <1>3 DEF MsgOK
<1>5. RecvResult(state[p], p, m) = "Ok"
  BY DEF HandleOne
<1>6. IsDKGSessionState(st)
  BY <1>4, <1>5, RecvType DEF EchoInv, Types
<1>7. pc[p] \in Waiting
  BY DEF HandleOne
<1>8. /\ to \in Stages
      /\ to = "sendb" => st.tag = "WaitingForRound1PackagesBroadcast"
      /\ to = "send2" => st.tag = "WaitingForRound2Packages"
  <2> HIDE DEF st
  <2>1. CASE Len(inbox[p]) = 1
    BY <1>7, <2>1, AfterBatchOK
  <2>2. CASE Len(inbox[p]) # 1
    BY <1>7, <2>2 DEF Waiting, Stages, Running
  <2> QED
    BY <2>1, <2>2
<1>9. /\ inbox' = [inbox EXCEPT ![p] = Tail(@)]
      /\ state' = [state EXCEPT ![p] = st]
      /\ queue' = queue
      /\ collected' = [collected EXCEPT ![p] =
            IF /\ state[p].tag = "WaitingForRound1Packages"
               /\ st.tag # "WaitingForRound1Packages"
            THEN st.round1 ELSE @]
      /\ pc' = [pc EXCEPT ![p] = to]
      /\ todo' = [todo EXCEPT ![p] = sends]
      /\ round1_packages' = [round1_packages EXCEPT ![p] =
            IF to = "send2" THEN st.round1 ELSE @]
  BY DEF HandleOne
<1>10. /\ m = Head(inbox[p]) /\ st = Recv(state[p], m)
       /\ to = "sendb" => sends = ToEcho(p)
       /\ sends \subseteq Participants \X Participants
  <2> HIDE DEF to
  <2> QED
    BY DEF ToEcho, ToAll, Others
<1> HIDE DEF m, st, to, sends
<1> QED
  BY <1>1, <1>3, <1>4, <1>5, <1>6, <1>8, <1>9, <1>10 DEF Accepts

\* Accepting a message leaves complete collections alone.
LEMMA AcceptSettles ==
    ASSUME EchoInv, NEW p \in Participants, NEW m, NEW st, Accepts(p, m, st)
    PROVE  Settled
<1> SUFFICES ASSUME NEW q \in Participants, Full(q)
             PROVE  collected'[q] = collected[q]
  BY DEF Settled
<1>1. CASE q = p /\ state[p].tag = "WaitingForRound1Packages"
  <2>1. DOMAIN collected[p] = {}
    BY <1>1 DEF EchoInv, CollectedOK, EmptyMap
  <2> QED
    BY <1>1, <2>1, OthersFacts DEF Full
<1>2. CASE ~(q = p /\ state[p].tag = "WaitingForRound1Packages")
  BY <1>2 DEF Accepts, EchoInv, Types
<1> QED
  BY <1>1, <1>2

\* The types, and the messages still to be handled.
LEMMA AcceptMessages ==
    ASSUME EchoInv, NEW p \in Participants, NEW m, NEW st, Accepts(p, m, st)
    PROVE  Types' /\ MessagesOK'
<1>1. inbox \in [Participants -> Seq(Message)] /\ Settled
  BY AcceptSettles DEF EchoInv, Types
<1>2. inbox[p] \in Seq(Message) /\ inbox[p] # <<>>
  BY <1>1 DEF Accepts
<1>3. /\ Tail(inbox[p]) \in Seq(Message)
      /\ \A i \in DOMAIN Tail(inbox[p]) :
            i + 1 \in DOMAIN inbox[p] /\ Tail(inbox[p])[i] = inbox[p][i + 1]
  BY <1>2
<1>4. inbox'[p] = Tail(inbox[p])
  BY <1>1 DEF Accepts
<1>5. ASSUME NEW r \in Participants, NEW i \in DOMAIN inbox'[r]
      PROVE  MsgOK(inbox'[r][i], r)
  <2>1. CASE r = p
    BY <1>3, <1>4, <2>1 DEF EchoInv, MessagesOK
  <2>2. CASE r # p
    BY <1>1, <2>2 DEF EchoInv, MessagesOK, Accepts
  <2> QED
    BY <2>1, <2>2
<1>6. MessagesOK'
  BY <1>1, <1>5, FactsSettled DEF MessagesOK, EchoInv, Accepts
<1>7. ASSUME NEW q \in Participants
      PROVE  /\ IsDKGSessionState(state'[q])
             /\ IsMap(collected'[q], Participants, Round1Package)
  <2>1. IsMap(st.round1, Participants, Round1Package)
    BY DEF Accepts, IsDKGSessionState
  <2> QED
    BY <2>1 DEF Accepts, EchoInv, Types
<1>8. Types'
  BY <1>1, <1>3, <1>7 DEF Types, EchoInv, Accepts
<1> QED
  BY <1>6, <1>8

\* The participants who do not handle the message.
LEMMA AcceptOthers ==
    ASSUME EchoInv, NEW p \in Participants, NEW m, NEW st, Accepts(p, m, st),
           NEW q \in Participants, q # p
    PROVE  (CollectedOK(q) /\ EchoedOK(q) /\ ReturnedOK(q) /\ SendingOK(q))'
<1>1. /\ state'[q] = state[q] /\ collected'[q] = collected[q]
      /\ pc'[q] = pc[q] /\ todo'[q] = todo[q]
      /\ round1_packages'[q] = round1_packages[q]
  BY DEF Accepts, EchoInv, Types
<1>2. CollectedOK(q) /\ EchoedOK(q) /\ ReturnedOK(q) /\ SendingOK(q)
  BY DEF EchoInv
<1>3. CollectedOK(q)'
  BY <1>1, <1>2 DEF CollectedOK, Full
<1>4. EchoedOK(q)'
  <2>1. Settled /\ (state[q].tag # "WaitingForRound1Packages" => Full(q))
    BY <1>2, AcceptSettles DEF CollectedOK
  <2> QED
    BY <1>1, <1>2, <2>1, FactsSettled DEF EchoedOK
<1>5. ReturnedOK(q)' /\ SendingOK(q)'
  BY <1>1, <1>2 DEF ReturnedOK, SendingOK
<1> QED
  BY <1>3, <1>4, <1>5

\* A Round 1 Package: the last one completes what p collects.
LEMMA AcceptRound1 ==
    ASSUME EchoInv, NEW p \in Participants, NEW m, NEW st, Accepts(p, m, st),
           state[p].tag = "WaitingForRound1Packages"
    PROVE  CollectedOK(p)' /\ EchoedOK(p)' /\ round1_packages[p] = EmptyMap
<1>1. /\ state'[p] = st
      /\ collected'[p] = IF st.tag # "WaitingForRound1Packages"
                         THEN st.round1 ELSE collected[p]
  BY DEF Accepts, EchoInv, Types
<1>2. /\ m.type = "round1"
      /\ st.round1 = Insert(state[p].round1, m.sender, m.package)
      /\ st.echoed = EmptyMap
      /\ st.tag # "Round2PackagesReady"
      /\ st.tag # "WaitingForRound1Packages" =>
            Cardinality(DOMAIN st.round1) = Cardinality(Participants) - 1
      /\ st.tag = "WaitingForRound2Packages" => ~(Cardinality(Participants) > 2)
  BY RecvRound1 DEF Accepts
<1>3. /\ collected[p] = EmptyMap
      /\ DOMAIN state[p].round1 \subseteq Others(p)
      /\ \A x \in DOMAIN state[p].round1 \cap Consistent : state[p].round1[x] = Own(x)
  BY DEF EchoInv, CollectedOK
<1>4. m.sender \in Others(p) /\ (m.sender \in Consistent => m.package = Own(m.sender))
  BY <1>2 DEF Accepts, MsgOK
<1>5. /\ DOMAIN st.round1 \subseteq Others(p)
      /\ \A x \in DOMAIN st.round1 \cap Consistent : st.round1[x] = Own(x)
  BY <1>2, <1>3, <1>4 DEF Insert
<1>6. st.tag # "WaitingForRound1Packages" => DOMAIN st.round1 = Others(p)
  BY <1>2, <1>5, CountingSuffices
<1>7. CollectedOK(p)'
  BY <1>1, <1>3, <1>5, <1>6 DEF CollectedOK, Full
<1>8. EchoedOK(p)'
  BY <1>1, <1>2 DEF EchoedOK, EmptyMap
<1>9. round1_packages[p] = EmptyMap
  BY DEF EchoInv, ReturnedOK
<1> QED
  BY <1>7, <1>8, <1>9

\* An echo: it repeats what its sender collected, so the last one is agreement.
LEMMA AcceptBroadcast ==
    ASSUME EchoInv, NEW p \in Participants, NEW m, NEW st, Accepts(p, m, st),
           state[p].tag = "WaitingForRound1PackagesBroadcast"
    PROVE  CollectedOK(p)' /\ EchoedOK(p)' /\ round1_packages[p] = EmptyMap
<1> DEFINE echoes == Insert(state[p].echoed, <<m.original, m.sender>>, m.package)
<1>1. state'[p] = st /\ \A q \in Participants : collected'[q] = collected[q]
  BY DEF Accepts, EchoInv, Types
<1>2. /\ m.type = "broadcast"
      /\ m.original # p /\ m.original # m.sender
      /\ m.original \in DOMAIN state[p].round1
      /\ state[p].round1[m.original] = m.package
      /\ st.round1 = state[p].round1
      /\ \/ st.tag = "WaitingForRound1PackagesBroadcast" /\ st.echoed = echoes
         \/ st.tag = "WaitingForRound2Packages" /\ EchoesComplete(state[p].round1, echoes)
  BY RecvBroadcast DEF Accepts
<1>3. CollectedOK(p) /\ Full(p) /\ state[p].round1 = collected[p]
  BY DEF EchoInv, CollectedOK
<1>4. EchoOK(p, <<m.original, m.sender>>)
  <2>1. /\ m.sender \in Others(p) /\ Full(m.sender)
        /\ m.package = collected[m.sender][m.original]
    BY <1>2 DEF Accepts, MsgOK
  <2>2. m.original \in Others(p)
    BY <1>2, <1>3 DEF Full
  <2> QED
    BY <1>2, <1>3, <2>1, <2>2 DEF EchoOK
<1>5. \A k \in DOMAIN state[p].echoed : EchoOK(p, k)
  BY DEF EchoInv, EchoedOK
<1>6. \A k \in DOMAIN echoes : EchoOK(p, k)
  BY <1>4, <1>5 DEF Insert
<1> HIDE DEF echoes
<1>7. EchoesComplete(state[p].round1, echoes) => Agreed(p)
  BY <1>3, <1>6, EchoesAgree
<1>8. /\ (Full(p) <=> Full(p)') /\ (Agreed(p) => Agreed(p)')
      /\ \A k : EchoOK(p, k) => EchoOK(p, k)'
  BY <1>1 DEF Full, Agreed, EchoOK, Others
<1>9. CollectedOK(p)'
  BY <1>1, <1>2, <1>3, <1>8 DEF CollectedOK
<1>10. EchoedOK(p)'
  BY <1>1, <1>2, <1>6, <1>7, <1>8 DEF EchoedOK
<1>11. round1_packages[p] = EmptyMap
  BY DEF EchoInv, ReturnedOK
<1> QED
  BY <1>9, <1>10, <1>11

\* A Round 2 Package.
LEMMA AcceptRound2 ==
    ASSUME EchoInv, NEW p \in Participants, NEW m, NEW st, Accepts(p, m, st),
           state[p].tag = "WaitingForRound2Packages"
    PROVE  /\ CollectedOK(p)' /\ EchoedOK(p)' /\ collected'[p] = collected[p]
           /\ st.tag \in {"WaitingForRound2Packages", "Round2PackagesReady"}
<1>1. state'[p] = st /\ \A q \in Participants : collected'[q] = collected[q]
  BY DEF Accepts, EchoInv, Types
<1>2. \/ st.tag = "WaitingForRound2Packages" /\ st.round1 = state[p].round1
      \/ st.tag = "Round2PackagesReady"
  BY RecvRound2 DEF Accepts
<1>3. CollectedOK(p) /\ EchoedOK(p)
  BY DEF EchoInv
<1>4. (Full(p) <=> Full(p)') /\ (Agreed(p) => Agreed(p)')
  BY <1>1 DEF Full, Agreed, Others
<1>5. CollectedOK(p)'
  BY <1>1, <1>2, <1>3, <1>4 DEF CollectedOK
<1>6. EchoedOK(p)'
  BY <1>1, <1>2, <1>3, <1>4 DEF EchoedOK
<1> QED
  BY <1>1, <1>2, <1>5, <1>6

\* An accepted message preserves the invariant.
LEMMA HandleOneEcho ==
    ASSUME EchoInv, NEW p \in Participants, HandleOne(p)
    PROVE  EchoInv'
<1>1. PICK m, st : Accepts(p, m, st)
  BY HandleOneAccepts
<1>2. PICK to \in Stages, sends \in SUBSET (Participants \X Participants) :
          /\ pc' = [pc EXCEPT ![p] = to]
          /\ todo' = [todo EXCEPT ![p] = sends]
          /\ to = "sendb" => /\ st.tag = "WaitingForRound1PackagesBroadcast"
                             /\ sends = ToEcho(p)
          /\ to = "send2" => st.tag = "WaitingForRound2Packages"
          /\ round1_packages' = [round1_packages EXCEPT ![p] =
                IF to = "send2" THEN st.round1 ELSE @]
  BY <1>1 DEF Accepts
<1>3. /\ state'[p] = st /\ pc'[p] = to /\ todo'[p] = sends
      /\ round1_packages'[p] = IF to = "send2" THEN st.round1 ELSE round1_packages[p]
  BY <1>1, <1>2 DEF Accepts, EchoInv, Types
<1>4. /\ CollectedOK(p)' /\ EchoedOK(p)'
      /\ \/ round1_packages[p] = EmptyMap
         \/ /\ collected'[p] = collected[p]
            /\ st.tag \in {"WaitingForRound2Packages", "Round2PackagesReady"}
            /\ ReturnedOK(p)
  <2>1. state[p].tag \in Tags \ {"Round2PackagesReady"}
    BY <1>1, RecvReady DEF Accepts, EchoInv, Types, IsDKGSessionState
  <2>2. CASE state[p].tag = "WaitingForRound1Packages"
    BY <1>1, <2>2, AcceptRound1
  <2>3. CASE state[p].tag = "WaitingForRound1PackagesBroadcast"
    BY <1>1, <2>3, AcceptBroadcast
  <2>4. CASE state[p].tag = "WaitingForRound2Packages"
    BY <1>1, <2>4, AcceptRound2 DEF EchoInv
  <2> QED
    BY <2>1, <2>2, <2>3, <2>4 DEF Tags
<1>5. ReturnedOK(p)'
  <2>1. CASE to = "send2"
    BY <1>2, <1>3, <1>4, <2>1 DEF ReturnedOK, CollectedOK
  <2>2. CASE to # "send2"
    BY <1>3, <1>4, <2>2 DEF ReturnedOK
  <2> QED
    BY <2>1, <2>2
<1>6. SendingOK(p)'
  BY <1>2, <1>3 DEF SendingOK, ToEcho, Others
<1>7. \A q \in Participants :
          (CollectedOK(q) /\ EchoedOK(q) /\ ReturnedOK(q) /\ SendingOK(q))'
  BY <1>1, <1>4, <1>5, <1>6, AcceptOthers
<1> QED
  BY <1>1, <1>7, AcceptMessages DEF EchoInv

-----------------------------------------------------------------------------

\* Every step preserves the invariant.
LEMMA NextEcho == EchoInv /\ [Next]_vars => EchoInv'
<1> SUFFICES ASSUME EchoInv, [Next]_vars PROVE EchoInv'
  OBVIOUS
<1>1. CASE UNCHANGED vars
  BY <1>1, QuietStep DEF vars, EchoInv, Types, MessagesOK
<1>2. ASSUME NEW p \in Participants, Step(p) PROVE EchoInv'
  <2>1. CASE Send(p)
    BY <2>1, SendOneEcho DEF Send
  <2>2. CASE Receive(p)
    BY <2>2, ReceiveEcho
  <2>3. CASE HandleOne(p)
    BY <2>3, HandleOneEcho
  <2>4. CASE \/ HandleFails(p) \/ CallFails(p) \/ Cleanup(p) \/ Close(p)
             \/ LogoutAndFinish(p)
    BY <2>4, OtherSteps
  <2> QED
    BY <1>2, <2>1, <2>2, <2>3, <2>4 DEF Step
<1>3. ASSUME NEW p \in Participants,
             \/ Create(p) \/ Join(p) \/ TokenExpires(p) \/ Fault(p) \/ Crash(p)
      PROVE  EchoInv'
  BY <1>3, OtherSteps
<1>4. CASE Next
  BY <1>1, <1>2, <1>3, <1>4 DEF Next, JoinFails, Finished
<1> QED
  BY <1>1, <1>4

\* EchoInv is what EchoAgreement needs.
LEMMA EchoInvAgrees == EchoInv => EchoAgreement
<1> SUFFICES ASSUME EchoInv, Cardinality(Participants) > 2,
                    NEW p \in Consistent, NEW q \in Consistent,
                    Validated(p), Validated(q), p # q
             PROVE  /\ \A x \in Participants \ {p, q} :
                          round1_packages[p][x] = round1_packages[q][x]
                    /\ round1_packages[p][q] = [from |-> q, version |-> OwnVersion]
  BY DEF EchoAgreement
<1>1. p \in Participants /\ q \in Participants
  BY DEF Consistent
<1>2. /\ round1_packages[p] = collected[p] /\ round1_packages[q] = collected[q]
      /\ state[p].tag \in {"WaitingForRound2Packages", "Round2PackagesReady"}
  BY <1>1 DEF EchoInv, ReturnedOK, Validated
<1>3. Agreed(p) /\ collected[p][q] = Own(q)
  BY <1>1, <1>2 DEF EchoInv, EchoedOK, CollectedOK, Others
<1> QED
  BY <1>1, <1>2, <1>3 DEF Agreed, Others, Own

\* Any two consistent participants who passed the echo broadcast of
\* get_round1_packages hold the same Round 1 Packages of everybody else, with
\* any number of participants, of inconsistent ones among them, and of faults,
\* and in whatever order messages are sent, received and handled.
THEOREM EchoBroadcastAgrees == Spec => []EchoAgreement
<1>1. Init => EchoInv
  BY InitEcho
<1>2. EchoInv /\ [Next]_vars => EchoInv'
  BY NextEcho
<1>3. EchoInv => EchoAgreement
  BY EchoInvAgrees
<1> QED
  BY <1>1, <1>2, <1>3, PTL DEF Spec

-----------------------------------------------------------------------------
(* Accusations and keys.                                                   *)

\* What s still has to send to r: its Round 1 Package, its echo of the one of
\* o, its Round 2 Package.
Left1(s, r) == pc[s] = "start" \/ (pc[s] = "send1" /\ <<r, s>> \in todo[s])
LeftB(s, r, o) ==
    \/ pc[s] \in {"start", "send1", "wait1"}
    \/ pc[s] = "sendb" /\ <<r, o>> \in todo[s]
Left2(s, r) ==
    \/ pc[s] \in {"start", "send1", "wait1", "sendb", "waitb"}
    \/ pc[s] = "send2" /\ <<r, s>> \in todo[s]

\* What r has accepted from s of these.
Has1(r, s) ==
    s \in DOMAIN state[r].round1 \/ state[r].tag # "WaitingForRound1Packages"
HasB(r, s, o) ==
    \/ <<o, s>> \in DOMAIN state[r].echoed
    \/ state[r].tag \in {"WaitingForRound2Packages", "Round2PackagesReady"}
Has2(r, s) ==
    s \in DOMAIN state[r].round2 \/ state[r].tag = "Round2PackagesReady"

\* What is on its way to r, in the order in which it will be handled.
Pending(r) == inbox[r] \o queue[r]

\* x has sent package as its own.
PublishedBy(x, package) == package.from = x /\ package.version \in published[x]

PendingOK(m, r) ==
    /\ m.type = "round1" =>
          /\ ~Left1(m.sender, r) /\ ~Has1(r, m.sender)
          /\ PublishedBy(m.sender, m.package)
    /\ m.type = "broadcast" =>
          /\ ~LeftB(m.sender, r, m.original) /\ ~HasB(r, m.sender, m.original)
          /\ m.original # r
    /\ m.type = "round2" =>
          /\ ~Left2(m.sender, r) /\ ~Has2(r, m.sender)
          /\ PublishedBy(m.sender, m.package) /\ m.package.to = r
          /\ Validated(m.sender)

SameKind(m, n) ==
    /\ m.type = n.type /\ m.sender = n.sender
    /\ m.type = "broadcast" => m.original = n.original

\* p may still handle messages.
Going(p) == pc[p] \in {"start"} \cup Running

\* No two messages of msgs are of one kind, and before a Round 2 Package there
\* is the Round 1 Package of its sender, unless r has it.
OrderOK(msgs, r) ==
    \A i \in 1..Len(msgs) :
        /\ PendingOK(msgs[i], r)
        /\ \A j \in 1..i - 1 : ~SameKind(msgs[j], msgs[i])
        /\ msgs[i].type = "round2" /\ Going(r) =>
              \/ Has1(r, msgs[i].sender)
              \/ \E j \in 1..i - 1 :
                    msgs[j].type = "round1" /\ msgs[j].sender = msgs[i].sender

\* What r has from the others was sent.
SentOK(r) ==
    \A s \in Others(r) :
        /\ Has1(r, s) => ~Left1(s, r)
        /\ \A o \in Others(r) \ {s} : HasB(r, s, o) => ~LeftB(s, r, o)
        /\ Has2(r, s) => ~Left2(s, r)

\* The Round 1 Package of s is in msgs.
Arriving(msgs, s) ==
    \E i \in 1..Len(msgs) : msgs[i].type = "round1" /\ msgs[i].sender = s

\* While nothing is dropped, r has the Round 1 Packages that were sent to it or
\* is about to get them.
ComingOK(r) ==
    session = "open" /\ Going(r) =>
        \A s \in Others(r) :
            pc[s] \in Sending \cup Waiting /\ ~Left1(s, r) =>
                Has1(r, s) \/ Arriving(Pending(r), s)

PublishedOK(p) ==
    /\ IsFiniteSet(published[p]) /\ published[p] \subseteq Versions
    /\ p \in Consistent => published[p] \subseteq {OwnVersion}

StoredOK(p) ==
    /\ \A x \in DOMAIN state[p].round1 : PublishedBy(x, state[p].round1[x])
    /\ \A x \in DOMAIN collected[p] : PublishedBy(x, collected[p][x])
    /\ \A q \in DOMAIN state[p].round2 :
          /\ q \in Others(p) /\ PublishedBy(q, state[p].round2[q])
          /\ state[p].round2[q].to = p /\ Validated(q)
    /\ state[p].tag = "Round2PackagesReady" => DOMAIN state[p].round2 = Others(p)
    /\ state[p].tag \in {"WaitingForRound1Packages",
                         "WaitingForRound1PackagesBroadcast"} =>
          state[p].round2 = EmptyMap
    /\ state[p].tag = "WaitingForRound1Packages" =>
          state[p].echoed = EmptyMap /\ DOMAIN state[p].round1 # Others(p)
    /\ state[p].tag = "WaitingForRound1PackagesBroadcast" =>
          Cardinality(Participants) > 2

StageOK(p) ==
    /\ pc[p] \in {"send2", "wait2", "close", "logout", "done"} => Validated(p)
    /\ pc[p] \in {"close", "logout", "done"} => state[p].tag = "Round2PackagesReady"
    /\ pc[p] \in {"send1", "send2"} => todo[p] \subseteq ToAll(p)
    /\ pc[p] # "start" => session # "none"
    /\ pc[p] = "close" => p = Creator
    /\ why[p] # "" => pc[p] \in {"cleanup", "failed"}

\* The creator's session is over.
Over == pc[Creator] \in {"logout", "cleanup"} \cup Ended

\* Why the run of p ended: p's part of NoFalseAccusation.
Justified(p) ==
    \/ why[p] \in {"", "Unauthorized", "fault", "crash"}
    \/ why[p] = "SessionNotFound" /\ Over
    \/ /\ why[p] = "parse error"
       /\ Cardinality(Participants) > 2
       /\ \E q \in Others(p) : Ahead(q, p)
    \/ \E q \in Inconsistent : Cardinality(published[q]) > 1

MoreTypes ==
    /\ session \in {"none", "open", "closed"}
    /\ token \in [Participants -> BOOLEAN]
    /\ todo \in [Participants -> SUBSET (Participants \X Participants)]
    /\ \A p \in Participants : IsMap(round1_packages[p], Participants, Round1Package)
    /\ why \in [Participants -> Reasons]
    /\ faults \in 0..MaxFaults
    /\ published \in [Participants -> SUBSET Versions]

CauseInv ==
    /\ MoreTypes
    /\ session = "closed" => Over
    /\ \A p \in Participants :
          /\ OrderOK(Pending(p), p) /\ SentOK(p) /\ ComingOK(p)
          /\ PublishedOK(p) /\ StoredOK(p) /\ StageOK(p) /\ Justified(p)

-----------------------------------------------------------------------------

\* Three participants are more than two.
LEMMA ThreeParticipants ==
    ASSUME NEW a \in Participants, NEW b \in Participants, NEW c \in Participants,
           a # b, a # c, b # c
    PROVE  Cardinality(Participants) > 2
<1>1. {a, b, c} \subseteq Participants /\ IsFiniteSet({a, b, c})
  BY SizeAssumption, FS_Subset
<1>2. Cardinality({a, b, c}) = 3
  <2>1. IsFiniteSet({c}) /\ Cardinality({c}) = 1
    BY FS_Singleton
  <2>2. Cardinality({c} \cup {b}) = 1 + 1 /\ IsFiniteSet({c} \cup {b})
    <3>1. b \notin {c}
      OBVIOUS
    <3> QED  BY <2>1, <3>1, FS_AddElement
  <2>3. PICK S : S = {c} \cup {b}
    OBVIOUS
  <2>4. a \notin S /\ IsFiniteSet(S) /\ Cardinality(S) = 2
    BY <2>2, <2>3
  <2>5. Cardinality(S \cup {a}) = 2 + 1
    BY <2>4, FS_AddElement
  <2>6. {a, b, c} = S \cup {a}
    BY <2>3
  <2> QED
    BY <2>5, <2>6
<1>3. Cardinality({a, b, c}) <= Cardinality(Participants)
  BY <1>1, SizeAssumption, FS_Subset
<1> QED
  BY <1>2, <1>3, SizeAssumption, FS_CardinalityType

\* Two versions are more than one.
LEMMA TwoVersions ==
    ASSUME NEW q \in Participants, PublishedOK(q),
           NEW v \in published[q], NEW w \in published[q], v # w
    PROVE  q \in Inconsistent /\ Cardinality(published[q]) > 1
<1>1. q \in Inconsistent
  BY DEF PublishedOK, Consistent
<1>2. {v, w} \subseteq published[q] /\ IsFiniteSet(published[q])
  BY DEF PublishedOK
<1>3. Cardinality({v, w}) = 2
  <2>1. {v, w} = {w} \cup {v} /\ v \notin {w}
    OBVIOUS
  <2>2. IsFiniteSet({w}) /\ Cardinality({w}) = 1
    BY FS_Singleton
  <2>3. Cardinality({w} \cup {v}) = Cardinality({w}) + 1
    BY <2>1, <2>2, FS_AddElement
  <2> QED
    BY <2>1, <2>2, <2>3
<1>4. Cardinality({v, w}) <= Cardinality(published[q])
  BY <1>2, FS_Subset
<1>5. Cardinality(published[q]) \in Nat
  BY <1>2, FS_CardinalityType
<1> QED
  BY <1>1, <1>3, <1>4, <1>5

\* Two sequences end to end, by position.
LEMMA EndToEnd ==
    ASSUME NEW s \in Seq(Message), NEW t \in Seq(Message)
    PROVE  /\ s \o t \in Seq(Message)
           /\ Len(s) \in Nat /\ Len(t) \in Nat
           /\ Len(s \o t) = Len(s) + Len(t)
           /\ \A i \in 1..Len(s) : (s \o t)[i] = s[i]
           /\ \A i \in 1..Len(t) : (s \o t)[Len(s) + i] = t[i]
<1> DEFINE a == Len(s)
           b == Len(t)
           c == s \o t
<1>1. a \in Nat /\ b \in Nat
  BY LenProperties
<1>2. /\ c \in Seq(Message) /\ Len(c) = a + b
      /\ \A i \in 1..a + b : c[i] = IF i <= a THEN s[i] ELSE t[i - a]
  BY ConcatProperties
<1> HIDE DEF a, b, c
<1>3. ASSUME NEW i \in 1..a PROVE c[i] = s[i]
  BY <1>1, <1>2
<1>4. ASSUME NEW i \in 1..b PROVE c[a + i] = t[i]
  <2>1. PICK k : k = a + i
    OBVIOUS
  <2>2. k \in 1..a + b /\ ~(k <= a) /\ k - a = i
    BY <1>1, <2>1
  <2>3. c[k] = t[k - a]
    BY <1>2, <2>2
  <2> QED
    BY <2>1, <2>2, <2>3
<1> QED
  BY <1>1, <1>2, <1>3, <1>4 DEF a, b, c

\* What is on its way, by position: what the last receive returned, then what
\* the server holds.
LEMMA PendingFacts ==
    ASSUME Types, NEW r \in Participants
    PROVE  /\ Pending(r) \in Seq(Message)
           /\ Len(inbox[r]) \in Nat /\ Len(queue[r]) \in Nat
           /\ Len(Pending(r)) = Len(inbox[r]) + Len(queue[r])
           /\ \A i \in 1..Len(inbox[r]) : Pending(r)[i] = inbox[r][i]
           /\ \A i \in 1..Len(queue[r]) : Pending(r)[Len(inbox[r]) + i] = queue[r][i]
<1>1. inbox[r] \in Seq(Message) /\ queue[r] \in Seq(Message)
  BY DEF Types
<1> QED
  BY <1>1, EndToEnd DEF Pending

-----------------------------------------------------------------------------
(* What only grows, and what it keeps true.                                *)

\* Nobody gets anything back that it has sent or passed, and what was
\* published or is over stays so.
Grows ==
    /\ \A s, r \in Participants :
          /\ Left1(s, r)' => Left1(s, r)
          /\ Left2(s, r)' => Left2(s, r)
          /\ \A o \in Participants : LeftB(s, r, o)' => LeftB(s, r, o)
    /\ \A q \in Participants :
          /\ Validated(q) => Validated(q)'
          /\ collected[q] # EmptyMap => collected'[q] # EmptyMap
          /\ published[q] \subseteq published'[q]
          /\ Going(q)' => Going(q)
    /\ Over => Over'

\* What was published stays published.
LEMMA PublishedGrows ==
    ASSUME Grows, NEW x \in Participants, NEW package, PublishedBy(x, package)
    PROVE  PublishedBy(x, package)'
  BY DEF Grows, PublishedBy

\* What is true of a message on its way to r stays true while r accepts none.
LEMMA PendingKept ==
    ASSUME Grows, NEW r \in Participants, UNCHANGED state[r],
           NEW m \in Message, PendingOK(m, r)
    PROVE  PendingOK(m, r)'
<1>1. m.sender \in Participants
  BY DEF Message
<1>2. \A q : (Has1(r, q)' <=> Has1(r, q)) /\ (Has2(r, q)' <=> Has2(r, q))
  BY DEF Has1, Has2
<1>3. \A q, o : HasB(r, q, o)' <=> HasB(r, q, o)
  BY DEF HasB
<1>4. m.type = "round1" =>
        /\ ~Left1(m.sender, r)' /\ ~Has1(r, m.sender)'
        /\ PublishedBy(m.sender, m.package)'
  BY <1>1, <1>2, PublishedGrows DEF PendingOK, Grows
<1>5. m.type = "broadcast" =>
        /\ ~LeftB(m.sender, r, m.original)' /\ ~HasB(r, m.sender, m.original)'
        /\ m.original # r
  <2>1. m.type = "broadcast" => m.original \in Participants
    BY DEF Message
  <2> QED
    BY <1>1, <1>3, <2>1 DEF PendingOK, Grows
<1>6. m.type = "round2" =>
        /\ ~Left2(m.sender, r)' /\ ~Has2(r, m.sender)'
        /\ PublishedBy(m.sender, m.package)' /\ m.package.to = r
        /\ Validated(m.sender)'
  BY <1>1, <1>2, PublishedGrows DEF PendingOK, Grows
<1> QED
  BY <1>4, <1>5, <1>6 DEF PendingOK

\* So messages in order stay in order.
LEMMA OrderKept ==
    ASSUME Grows, NEW r \in Participants, UNCHANGED state[r],
           NEW msgs \in Seq(Message), OrderOK(msgs, r)
    PROVE  OrderOK(msgs, r)'
<1> SUFFICES ASSUME NEW i \in 1..Len(msgs)
             PROVE  /\ PendingOK(msgs[i], r)'
                    /\ \A j \in 1..i - 1 : ~SameKind(msgs[j], msgs[i])
                    /\ msgs[i].type = "round2" /\ Going(r)' =>
                          \/ Has1(r, msgs[i].sender)'
                          \/ \E j \in 1..i - 1 : /\ msgs[j].type = "round1"
                                                 /\ msgs[j].sender = msgs[i].sender
  BY DEF OrderOK, SameKind
<1>1. msgs[i] \in Message
  BY ElementOfSeq
<1>2. /\ PendingOK(msgs[i], r)
      /\ \A j \in 1..i - 1 : ~SameKind(msgs[j], msgs[i])
      /\ msgs[i].type = "round2" /\ Going(r) =>
            \/ Has1(r, msgs[i].sender)
            \/ \E j \in 1..i - 1 : /\ msgs[j].type = "round1"
                                   /\ msgs[j].sender = msgs[i].sender
  BY DEF OrderOK
<1>3. (Going(r)' => Going(r)) /\ \A q : Has1(r, q) => Has1(r, q)'
  BY DEF Grows, Has1
<1> QED
  BY <1>1, <1>2, <1>3, PendingKept

\* Dropping what comes last leaves the rest in order, and so does dropping what
\* comes first once r handles nothing any more.
LEMMA OrderOfParts ==
    ASSUME NEW r, NEW s \in Seq(Message), NEW t \in Seq(Message),
           OrderOK(s \o t, r)'
    PROVE  /\ OrderOK(s, r)'
           /\ ~Going(r)' => OrderOK(t, r)'
           /\ OrderOK(<<>>, r)'
<1> DEFINE a == Len(s)
           b == Len(t)
           c == s \o t
<1>1. /\ a \in Nat /\ b \in Nat /\ Len(c) = a + b
      /\ \A i \in 1..a : c[i] = s[i]
      /\ \A i \in 1..b : c[a + i] = t[i]
  BY EndToEnd
<1>2. OrderOK(c, r)'
  OBVIOUS
<1>3. Len(s) = a /\ Len(t) = b /\ Len(<<>>) = 0
  OBVIOUS
<1> HIDE DEF a, b, c
<1>4. OrderOK(s, r)'
  <2>1. \A i \in 1..a : /\ i \in 1..a + b
                        /\ \A j \in 1..i - 1 : j \in 1..a
    BY <1>1
  <2> QED
    BY <1>1, <1>2, <1>3, <2>1, SMTT(30) DEF OrderOK, SameKind
<1>5. ASSUME ~Going(r)' PROVE OrderOK(t, r)'
  <2>1. ASSUME NEW i \in 1..b
        PROVE  PendingOK(t[i], r)' /\ \A j \in 1..i - 1 : ~SameKind(t[j], t[i])
    <3>1. a + i \in 1..a + b /\ c[a + i] = t[i]
      BY <1>1
    <3>2. ASSUME NEW j \in 1..i - 1 PROVE ~SameKind(t[j], t[i])
      <4>1. j \in 1..b /\ a + j \in 1..(a + i) - 1
        BY <1>1
      <4>2. c[a + j] = t[j]
        BY <1>1, <4>1
      <4>3. PICK x, y : x = a + i /\ y = a + j
        OBVIOUS
      <4>4. x \in 1..a + b /\ y \in 1..x - 1
        BY <3>1, <4>1, <4>3
      <4>5. ~SameKind(c[y], c[x])
        BY <1>1, <1>2, <4>4 DEF OrderOK, SameKind
      <4> QED
        BY <3>1, <4>2, <4>3, <4>5
    <3> QED
      BY <1>1, <1>2, <3>1, <3>2 DEF OrderOK
  <2> QED
    BY <1>3, <1>5, <2>1 DEF OrderOK, SameKind
<1>6. OrderOK(<<>>, r)'
  BY <1>3 DEF OrderOK
<1> QED
  BY <1>4, <1>5, <1>6

-----------------------------------------------------------------------------
(* The participants who take no part in a step.                            *)

\* What r has from the others was sent, while r accepts nothing.
LEMMA SentKept ==
    ASSUME CauseInv, Grows, NEW r \in Participants, UNCHANGED state[r]
    PROVE  SentOK(r)'
<1>1. SentOK(r)
  BY DEF CauseInv
<1>2. \A s : (Has1(r, s)' <=> Has1(r, s)) /\ (Has2(r, s)' <=> Has2(r, s))
  BY DEF Has1, Has2
<1>3. \A s, o : HasB(r, s, o)' <=> HasB(r, s, o)
  BY DEF HasB
<1>4. Others(r) \subseteq Participants
  BY DEF Others
<1> QED
  BY <1>1, <1>2, <1>3, <1>4 DEF SentOK, Grows

\* What r stores was published, while it stores nothing new.
LEMMA StoredKept ==
    ASSUME EchoInv, CauseInv, Grows, NEW r \in Participants,
           UNCHANGED <<state[r], collected[r]>>
    PROVE  StoredOK(r)'
<1>1. StoredOK(r)
  BY DEF CauseInv
<1>2. /\ DOMAIN state[r].round1 \subseteq Participants
      /\ DOMAIN collected[r] \subseteq Participants
      /\ Others(r) \subseteq Participants
  BY DEF EchoInv, Types, IsDKGSessionState, IsMap, Others
<1>3. /\ \A x \in DOMAIN state[r].round1 : PublishedBy(x, state[r].round1[x])'
      /\ \A x \in DOMAIN collected[r] : PublishedBy(x, collected[r][x])'
      /\ \A q \in DOMAIN state[r].round2 :
            /\ q \in Others(r) /\ PublishedBy(q, state[r].round2[q])'
            /\ state[r].round2[q].to = r /\ Validated(q)'
  BY <1>1, <1>2, PublishedGrows DEF StoredOK, Grows
<1>4. /\ state[r].tag = "Round2PackagesReady" => DOMAIN state[r].round2 = Others(r)
      /\ state[r].tag \in {"WaitingForRound1Packages",
                           "WaitingForRound1PackagesBroadcast"} =>
            state[r].round2 = EmptyMap
      /\ state[r].tag = "WaitingForRound1Packages" =>
            state[r].echoed = EmptyMap /\ DOMAIN state[r].round1 # Others(r)
      /\ state[r].tag = "WaitingForRound1PackagesBroadcast" =>
            Cardinality(Participants) > 2
  BY <1>1 DEF StoredOK
<1> QED
  BY <1>3, <1>4 DEF StoredOK

\* A reason stays a reason once the run of q has ended for it.
LEMMA JustifiedKept ==
    ASSUME CauseInv, Grows, NEW q \in Participants,
           UNCHANGED <<why[q], collected[q], round1_packages[q]>>,
           \A x \in Participants : PublishedOK(x)'
    PROVE  Justified(q)'
<1>1. Justified(q)
  BY DEF CauseInv
<1>2. CASE why[q] \in {"", "Unauthorized", "fault", "crash"}
  BY <1>2 DEF Justified
<1>3. CASE why[q] = "SessionNotFound" /\ Over
  BY <1>3 DEF Justified, Grows
<1>4. CASE /\ why[q] = "parse error"
           /\ Cardinality(Participants) > 2
           /\ \E x \in Others(q) : Ahead(x, q)
  <2>1. PICK x \in Others(q) : Ahead(x, q)
    BY <1>4
  <2>2. Ahead(x, q)'
    BY <2>1 DEF Ahead, Validated, Grows, Others
  <2> QED
    BY <1>4, <2>2 DEF Justified
<1>5. CASE \E x \in Inconsistent : Cardinality(published[x]) > 1
  <2>1. PICK x \in Inconsistent : Cardinality(published[x]) > 1
    BY <1>5
  <2>2. /\ x \in Participants /\ published[x] \subseteq published'[x]
        /\ IsFiniteSet(published'[x]) /\ IsFiniteSet(published[x])
    BY RolesAssumption DEF Grows, PublishedOK, CauseInv
  <2>3. /\ Cardinality(published[x]) <= Cardinality(published'[x])
        /\ Cardinality(published[x]) \in Nat /\ Cardinality(published'[x]) \in Nat
    BY <2>2, FS_Subset, FS_CardinalityType
  <2>4. Cardinality(published'[x]) > 1
    BY <2>1, <2>3
  <2> QED
    BY <2>4 DEF Justified
<1> QED
  BY <1>1, <1>2, <1>3, <1>4, <1>5 DEF Justified

\* q takes no part in the step.
Idle(q) ==
    UNCHANGED <<pc[q], todo[q], why[q], state[q], collected[q], round1_packages[q],
                published[q]>>

\* What is true of q alone stays true.
LEMMA IdleKept ==
    ASSUME EchoInv, CauseInv, Grows, NEW q \in Participants, Idle(q),
           session # "none" => session' # "none"
    PROVE  SentOK(q)' /\ PublishedOK(q)' /\ StoredOK(q)' /\ StageOK(q)'
<1>1. PublishedOK(q) /\ StageOK(q)
  BY DEF CauseInv
<1>2. PublishedOK(q)'
  BY <1>1 DEF PublishedOK, Idle
<1>3. StageOK(q)'
  BY <1>1 DEF StageOK, Idle, Validated
<1> QED
  BY <1>2, <1>3, SentKept, StoredKept DEF Idle

-----------------------------------------------------------------------------
(* Steps in which a participant stops, or comes to the end of its run.     *)

\* p goes on to stage, where it handles no messages, for a reason if it fails;
\* the session may be closed by it.
Ends(p, stage) ==
    /\ UNCHANGED <<state, collected, round1_packages, published>>
    /\ pc' = [pc EXCEPT ![p] = stage]
    /\ \/ stage \in {"cleanup", "failed"} /\ pc[p] \in Running \cup {"cleanup"}
       \/ stage = "logout" /\ pc[p] = "close"
       \/ stage = "done" /\ pc[p] = "logout"
    /\ todo' = todo \/ todo' = [todo EXCEPT ![p] = {}]
    /\ \/ inbox' = inbox
       \/ stage \in {"cleanup", "failed"} /\ inbox' = [inbox EXCEPT ![p] = <<>>]
    /\ \/ session' = session /\ queue' = queue
       \/ /\ session' = "closed" /\ (session = "closed" \/ p = Creator)
          /\ stage \in {"failed", "logout"}
          /\ queue' = [q \in Participants |-> <<>>]
    /\ token' \in [Participants -> BOOLEAN] /\ faults' \in 0..MaxFaults
    /\ \E reason \in Reasons :
          /\ why' = [why EXCEPT ![p] = reason]
          /\ reason # "" => stage \in {"cleanup", "failed"}

\* Who ends has nothing left to send.
LEMMA EndsGrows ==
    ASSUME EchoInv, CauseInv, NEW p \in Participants, NEW stage, Ends(p, stage)
    PROVE  Grows
<1>1. /\ pc'[p] = stage /\ stage \in {"cleanup", "failed", "logout", "done"}
      /\ pc[p] \in Running \cup {"cleanup"}
      /\ \A q \in Participants : q # p => pc'[q] = pc[q] /\ todo'[q] = todo[q]
  BY DEF Ends, EchoInv, Types, Running
<1>2. ASSUME NEW s \in Participants, NEW r \in Participants
      PROVE  /\ Left1(s, r)' => Left1(s, r)
             /\ Left2(s, r)' => Left2(s, r)
             /\ \A o \in Participants : LeftB(s, r, o)' => LeftB(s, r, o)
  BY <1>1 DEF Left1, Left2, LeftB
<1>3. ASSUME NEW q \in Participants
      PROVE  /\ Validated(q) => Validated(q)'
             /\ collected[q] # EmptyMap => collected'[q] # EmptyMap
             /\ published[q] \subseteq published'[q]
             /\ Going(q)' => Going(q)
  <2>1. Going(q)' => Going(q)
    BY <1>1, CreatorAssumption DEF Going, Ends, Running, Waiting, Sending
  <2> QED
    BY <2>1 DEF Validated, Ends
<1>4. Over => Over'
  BY <1>1, CreatorAssumption DEF Over, Ended, Running, Waiting, Sending
<1> QED
  BY <1>2, <1>3, <1>4 DEF Grows

\* It leaves what is on its way in order.
LEMMA EndsOrder ==
    ASSUME EchoInv, CauseInv, NEW p \in Participants, NEW stage, Ends(p, stage),
           NEW r \in Participants
    PROVE  OrderOK(Pending(r), r)'
<1>1. /\ inbox[r] \in Seq(Message) /\ queue[r] \in Seq(Message)
      /\ Pending(r) \in Seq(Message) /\ OrderOK(Pending(r), r)
  BY PendingFacts DEF EchoInv, Types, CauseInv
<1>2. Grows /\ UNCHANGED state[r]
  BY EndsGrows DEF Ends
<1>3. PICK s, t : s = inbox[r] /\ t = queue[r]
  OBVIOUS
<1>4. s \in Seq(Message) /\ t \in Seq(Message) /\ s \o t \in Seq(Message)
  BY <1>1, <1>3, EndToEnd
<1>5. OrderOK(s \o t, r)
  BY <1>1, <1>3 DEF Pending
<1>6. OrderOK(s \o t, r)'
  BY <1>2, <1>4, <1>5, OrderKept
<1>7. OrderOK(s, r)' /\ (~Going(r)' => OrderOK(t, r)') /\ OrderOK(<<>>, r)'
  BY <1>4, <1>6, OrderOfParts
<1>8. \/ inbox'[r] = s
      \/ inbox'[r] = <<>> /\ ~Going(r)'
  BY <1>3 DEF Ends, EchoInv, Types, Going, Running, Waiting, Sending
<1>9. queue'[r] = t \/ queue'[r] = <<>>
  BY <1>3 DEF Ends
<1>10. /\ s \o <<>> = s /\ <<>> \o t = t /\ <<>> \o <<>> = <<>>
  BY <1>4, ConcatEmptySeq, EmptySeq
<1>11. Pending(r)' \in {s \o t, s, <<>>} \/ (Pending(r)' = t /\ ~Going(r)')
  BY <1>8, <1>9, <1>10 DEF Pending
<1> QED
  BY <1>6, <1>7, <1>11

\* A participant that ends takes nothing from those who go on, and is alone
\* responsible for its reason.
LEMMA EndsCause ==
    ASSUME EchoInv, CauseInv, NEW p \in Participants, NEW stage, Ends(p, stage),
           Justified(p)'
    PROVE  CauseInv'
<1>1. Grows
  BY EndsGrows
<1>2. /\ pc'[p] = stage /\ stage \in {"cleanup", "failed", "logout", "done"}
      /\ pc[p] \in Running \cup {"cleanup"}
      /\ \A q \in Participants : q # p => /\ pc'[q] = pc[q] /\ todo'[q] = todo[q]
                                          /\ why'[q] = why[q] /\ inbox'[q] = inbox[q]
  BY DEF Ends, EchoInv, Types, Running, CauseInv, MoreTypes
<1>3. MoreTypes'
  BY ZenonT(60) DEF MoreTypes, Ends, CauseInv
<1>4. session' = "closed" => Over'
  <2>1. session' = session \/ session = "closed" \/ p = Creator
    BY DEF Ends
  <2> QED
    BY <1>1, <1>2, <2>1 DEF Over, Ended, CauseInv, Grows, Ends
<1>5. session # "none" => session' # "none"
  BY DEF Ends
<1>6. \A q \in Participants : PublishedOK(q)'
  BY DEF CauseInv, PublishedOK, Ends
<1>7. ASSUME NEW q \in Participants, q # p PROVE Idle(q) /\ Justified(q)'
  <2>1. Idle(q)
    BY <1>2, <1>7 DEF Idle, Ends
  <2> QED
    BY <1>1, <1>6, <2>1, JustifiedKept DEF Idle
<1>8. StageOK(p)'
  <2>1. /\ StageOK(p)
        /\ state'[p] = state[p] /\ (Validated(p) => Validated(p)')
    BY DEF CauseInv, Ends, Validated
  <2>2. pc'[p] \in {"cleanup", "failed"} \/ pc[p] \in {"close", "logout"}
    BY <1>2 DEF Ends
  <2>3. why'[p] # "" => pc'[p] \in {"cleanup", "failed"}
    BY <1>2 DEF Ends, CauseInv, MoreTypes
  <2>4. session' # "none"
    BY <1>2, <1>5, <2>1 DEF StageOK, Running, Waiting, Sending
  <2> QED
    BY <1>2, <2>1, <2>2, <2>3, <2>4 DEF StageOK
<1>9. ASSUME NEW q \in Participants
      PROVE  /\ SentOK(q)' /\ PublishedOK(q)' /\ StoredOK(q)'
             /\ StageOK(q)' /\ Justified(q)'
  <2>1. SentOK(q)' /\ StoredOK(q)'
    BY <1>1, SentKept, StoredKept DEF Ends
  <2>2. StageOK(q)' /\ Justified(q)'
    BY <1>1, <1>5, <1>7, <1>8, IdleKept
  <2> QED
    BY <1>6, <2>1, <2>2
<1>10. ASSUME NEW r \in Participants PROVE ComingOK(r)'
  <2> SUFFICES ASSUME session' = "open", Going(r)', NEW s \in Others(r),
                      pc'[s] \in Sending \cup Waiting, ~Left1(s, r)'
               PROVE  Has1(r, s)' \/ Arriving(Pending(r)', s)
    BY DEF ComingOK, Arriving
  <2>1. session = "open" /\ queue' = queue
    BY DEF Ends
  <2>2. Going(r) /\ ComingOK(r)
    BY <1>1 DEF Grows, CauseInv
  <2>3. inbox'[r] = inbox[r]
    BY <1>2 DEF Ends, EchoInv, Types, Going, Running, Waiting, Sending
  <2>4. s \in Participants /\ s # p
    BY <1>2 DEF Others, Sending, Waiting
  <2>5. pc[s] \in Sending \cup Waiting /\ ~Left1(s, r)
    BY <1>2, <2>4 DEF Left1
  <2>6. Has1(r, s) \/ Arriving(Pending(r), s)
    BY <2>1, <2>2, <2>5 DEF ComingOK
  <2>7. Pending(r)' = Pending(r)
    BY <2>1, <2>3 DEF Pending
  <2>8. Has1(r, s) => Has1(r, s)'
    BY DEF Has1, Ends
  <2> QED
    BY <2>6, <2>7, <2>8
<1> QED
  BY <1>3, <1>4, <1>9, <1>10, EndsOrder DEF CauseInv

\* With no reason, or one that accuses nobody, there is nothing to justify.
LEMMA FaultlessEnds ==
    ASSUME EchoInv, CauseInv, NEW p \in Participants,
           \/ Cleanup(p) \/ Close(p) \/ Fault(p) \/ Crash(p)
    PROVE  CauseInv'
<1>1. why \in [Participants -> Reasons] /\ why[p] \in Reasons /\ StageOK(p)
  BY DEF CauseInv, MoreTypes
<1>2. /\ token \in [Participants -> BOOLEAN] /\ faults \in 0..MaxFaults
      /\ pc \in [Participants -> Stages]
      /\ MaxFaults \in Nat
  BY RolesAssumption DEF CauseInv, MoreTypes, EchoInv, Types
<1>3. CASE Cleanup(p)
  <2>1. why' = [why EXCEPT ![p] = why[p]]
    BY <1>1, <1>3 DEF Cleanup
  <2>2. \/ session' = session /\ queue' = queue
        \/ /\ session' = "closed" /\ (session = "closed" \/ p = Creator)
           /\ queue' = [q \in Participants |-> <<>>]
    BY <1>3 DEF Cleanup
  <2>3. Ends(p, "failed")
    BY <1>1, <1>2, <1>3, <2>1, <2>2 DEF Ends, Cleanup
  <2>4. Grows /\ \A x \in Participants : PublishedOK(x)'
    BY <2>3, EndsGrows DEF PublishedOK, CauseInv, Ends
  <2>5. Justified(p)'
    BY <1>3, <2>4, JustifiedKept DEF Cleanup
  <2> QED
    BY <2>3, <2>5, EndsCause
<1>4. CASE Close(p)
  <2>1. p = Creator /\ why[p] = ""
    BY <1>1, <1>4 DEF StageOK, Close
  <2>2. why' = [why EXCEPT ![p] = ""]
    BY <1>1, <1>4, <2>1 DEF Close
  <2>3. Ends(p, "logout")
    BY <1>2, <1>4, <2>1, <2>2 DEF Ends, Close, Reasons
  <2>4. Justified(p)'
    BY <1>1, <2>2 DEF Justified
  <2> QED
    BY <2>3, <2>4, EndsCause
<1>5. CASE Fault(p)
  <2>1. Ends(p, "cleanup")
    BY <1>2, <1>5 DEF Ends, Fault, Reasons
  <2>2. Justified(p)'
    BY <1>1, <1>5 DEF Justified, Fault
  <2> QED
    BY <2>1, <2>2, EndsCause
<1>6. CASE Crash(p)
  <2>1. Ends(p, "failed")
    BY <1>2, <1>6 DEF Ends, Crash, Reasons
  <2>2. Justified(p)'
    BY <1>1, <1>6 DEF Justified, Crash
  <2> QED
    BY <2>1, <2>2, EndsCause
<1> QED
  BY <1>3, <1>4, <1>5, <1>6

\* A call that fails.
LEMMA CallFailsCause ==
    ASSUME EchoInv, CauseInv, NEW p \in Participants, CallFails(p)
    PROVE  CauseInv'
<1> DEFINE result == CallResult(p)
<1>1. /\ why \in [Participants -> Reasons] /\ StageOK(p)
      /\ token \in [Participants -> BOOLEAN] /\ faults \in 0..MaxFaults
      /\ session \in {"none", "open", "closed"}
  BY DEF CauseInv, MoreTypes
<1>2. \/ result = "Unauthorized"
      \/ result = "SessionNotFound" /\ session # "open"
  BY DEF CallFails, CallResult
<1>3. pc[p] \in Running
  BY DEF CallFails, Running
<1>4. result \in Reasons /\ why' = [why EXCEPT ![p] = result]
  BY <1>2 DEF CallFails, Abort, Reasons
<1> HIDE DEF result
<1>5. Ends(p, "cleanup")
  BY <1>1, <1>3, <1>4 DEF Ends, CallFails, Abort
<1>6. Justified(p)'
  <2>1. CASE result = "Unauthorized"
    BY <1>1, <1>4, <2>1 DEF Justified
  <2>2. CASE result = "SessionNotFound" /\ session # "open"
    <3>1. session = "closed"
      BY <1>1, <1>3, <2>2 DEF StageOK, Running, Waiting, Sending
    <3>2. Over'
      BY <1>5, <3>1, EndsGrows DEF Grows, CauseInv
    <3> QED
      BY <1>1, <1>4, <2>2, <3>2 DEF Justified
  <2> QED
    BY <1>2, <2>1, <2>2
<1> QED
  BY <1>5, <1>6, EndsCause

\* Two packages of x that both were published, and are not the same, mean that
\* x published different ones.
LEMMA DifferentPackages ==
    ASSUME CauseInv, NEW x \in Participants, NEW a, NEW b,
           PublishedBy(x, a), PublishedBy(x, b), a.version # b.version
    PROVE  \E q \in Inconsistent : Cardinality(published[q]) > 1
<1>1. PublishedOK(x)
  BY DEF CauseInv
<1> QED
  BY <1>1, TwoVersions DEF PublishedBy

\* part3 refuses only packages that do not fit the others of their sender.
LEMMA LogoutCause ==
    ASSUME EchoInv, CauseInv, NEW p \in Participants, LogoutAndFinish(p)
    PROVE  CauseInv'
<1>1. /\ why \in [Participants -> Reasons] /\ StageOK(p)
      /\ token \in [Participants -> BOOLEAN] /\ faults \in 0..MaxFaults
  BY DEF CauseInv, MoreTypes
<1>2. pc[p] = "logout" /\ why[p] = ""
  BY <1>1 DEF LogoutAndFinish, StageOK
<1>3. PICK stage, reason :
        /\ pc' = [pc EXCEPT ![p] = stage] /\ why' = [why EXCEPT ![p] = reason]
        /\ \/ stage = "done" /\ reason = ""
           \/ stage = "failed" /\ reason = "Unauthorized"
           \/ stage = "failed" /\ reason = "part3" /\ ~Part3Ok(p)
  <2>1. CASE ~token[p]
    BY <2>1 DEF LogoutAndFinish
  <2>2. CASE token[p] /\ ~Part3Ok(p)
    BY <2>2 DEF LogoutAndFinish
  <2>3. CASE token[p] /\ Part3Ok(p)
    <3>1. pc' = [pc EXCEPT ![p] = "done"] /\ why' = [why EXCEPT ![p] = why[p]]
      BY <2>3 DEF LogoutAndFinish
    <3> QED
      BY <1>2, <3>1
  <2> QED
    BY <2>1, <2>2, <2>3
<1>4. token' \in [Participants -> BOOLEAN]
  BY <1>1 DEF LogoutAndFinish
<1>5. pc[p] \in Running /\ reason \in Reasons
  BY <1>2, <1>3 DEF Running, Reasons
<1>6. Ends(p, stage)
  BY <1>1, <1>2, <1>3, <1>4, <1>5 DEF Ends, LogoutAndFinish
<1>7. Justified(p)'
  <2>1. CASE reason \in {"", "Unauthorized"}
    BY <1>1, <1>3, <2>1 DEF Justified
  <2>2. CASE ~Part3Ok(p)
    <3>1. PICK q \in Others(p) :
            state[p].round2[q].version # round1_packages[p][q].version
      BY <2>2 DEF Part3Ok
    <3>2. state[p].tag = "Round2PackagesReady" /\ Validated(p)
      BY <1>1, <1>2 DEF StageOK
    <3>3. PublishedBy(q, state[p].round2[q])
      BY <3>1, <3>2 DEF CauseInv, StoredOK
    <3>4. round1_packages[p] = collected[p] /\ Full(p)
      BY <3>2 DEF EchoInv, ReturnedOK, CollectedOK, Validated
    <3>5. PublishedBy(q, round1_packages[p][q])
      BY <3>1, <3>4 DEF CauseInv, StoredOK, Full
    <3>6. q \in Participants
      BY DEF Others
    <3>7. \E x \in Inconsistent : Cardinality(published[x]) > 1
      BY <3>1, <3>3, <3>5, <3>6, DifferentPackages
    <3> QED
      BY <3>7 DEF Justified, LogoutAndFinish
  <2> QED
    BY <1>3, <2>1, <2>2
<1> QED
  BY <1>6, <1>7, EndsCause

-----------------------------------------------------------------------------
(* Steps of the server and the network, and the beginning of a run.        *)

\* Steps that leave every run where it is, and what is on its way.
LEMMA UnmovedCause ==
    ASSUME EchoInv, CauseInv,
           UNCHANGED <<session, pc, todo, state, round1_packages, why, faults,
                       collected, published>>,
           token' \in [Participants -> BOOLEAN],
           \A r \in Participants : Pending(r)' = Pending(r)
    PROVE  CauseInv'
<1>1. Grows
  BY DEF Grows, Left1, Left2, LeftB, Validated, Going, Over
<1>2. \A q \in Participants : Idle(q)
  BY DEF Idle
<1>3. \A q \in Participants :
        SentOK(q)' /\ PublishedOK(q)' /\ StoredOK(q)' /\ StageOK(q)'
  BY <1>1, <1>2, IdleKept
<1>4. \A q \in Participants : Justified(q)'
  BY <1>1, <1>3, JustifiedKept
<1>5. ASSUME NEW r \in Participants PROVE OrderOK(Pending(r), r)'
  <2>1. PICK msgs : msgs = Pending(r)
    OBVIOUS
  <2>2. msgs \in Seq(Message) /\ OrderOK(msgs, r)
    BY <2>1, PendingFacts DEF EchoInv, CauseInv
  <2>3. OrderOK(msgs, r)'
    BY <1>1, <2>2, OrderKept
  <2> QED
    BY <2>1, <2>3
<1>6. ASSUME NEW r \in Participants PROVE ComingOK(r)'
  <2>1. /\ ComingOK(r) /\ Pending(r)' = Pending(r)
        /\ \A s : (Has1(r, s)' <=> Has1(r, s)) /\ (Left1(s, r)' <=> Left1(s, r))
        /\ Going(r)' <=> Going(r)
    BY DEF CauseInv, Has1, Left1, Going
  <2> QED
    BY <2>1 DEF ComingOK, Arriving
<1>7. MoreTypes' /\ (session' = "closed" => Over')
  BY DEF MoreTypes, CauseInv, Over
<1> QED
  BY <1>3, <1>4, <1>5, <1>6, <1>7 DEF CauseInv

\* A token that expires, and nothing.
LEMMA StillCause ==
    ASSUME EchoInv, CauseInv,
           UNCHANGED vars \/ \E p \in Participants : TokenExpires(p)
    PROVE  CauseInv'
<1>1. /\ UNCHANGED <<session, pc, todo, state, round1_packages, why, faults,
                     collected, published, inbox, queue>>
      /\ token' \in [Participants -> BOOLEAN]
  BY DEF vars, TokenExpires, CauseInv, MoreTypes
<1>2. \A r \in Participants : Pending(r)' = Pending(r)
  BY <1>1 DEF Pending
<1> QED
  BY <1>1, <1>2, UnmovedCause

\* A receive: the server's messages follow those, none, that are left.
LEMMA ReceiveCause ==
    ASSUME EchoInv, CauseInv, NEW p \in Participants, Receive(p)
    PROVE  CauseInv'
<1>1. /\ UNCHANGED <<session, pc, todo, state, round1_packages, why, faults,
                     collected, published>>
      /\ token' \in [Participants -> BOOLEAN]
  BY DEF Receive, CauseInv, MoreTypes
<1>2. ASSUME NEW r \in Participants PROVE Pending(r)' = Pending(r)
  <2>1. queue[r] \in Seq(Message)
    BY DEF EchoInv, Types
  <2>2. <<>> \o queue[r] = queue[r] /\ queue[r] \o <<>> = queue[r]
    BY <2>1, ConcatEmptySeq
  <2>3. CASE r = p
    BY <2>2, <2>3 DEF Pending, Receive, EchoInv, Types
  <2>4. CASE r # p
    BY <2>4 DEF Pending, Receive, EchoInv, Types
  <2> QED
    BY <2>3, <2>4
<1> QED
  BY <1>1, <1>2, UnmovedCause

\* A participant who begins has everything to send.
LEMMA EnterCause ==
    ASSUME EchoInv, CauseInv, NEW p \in Participants, Create(p) \/ Join(p)
    PROVE  CauseInv'
<1>1. /\ pc[p] = "start" /\ pc' = [pc EXCEPT ![p] = "send1"]
      /\ todo' = [todo EXCEPT ![p] = ToAll(p)]
      /\ token' = [token EXCEPT ![p] = TRUE]
      /\ session' = "open"
      /\ session \in {"none", "open"} /\ (session = "none" => p = Creator)
      /\ UNCHANGED <<queue, inbox, state, round1_packages, why, faults,
                     collected, published>>
  BY DEF Create, Join, Enter
<1>2. /\ pc'[p] = "send1" /\ todo'[p] = ToAll(p)
      /\ \A q \in Participants : q # p => pc'[q] = pc[q] /\ todo'[q] = todo[q]
  BY <1>1 DEF EchoInv, Types
<1>3. Grows
  <2>1. ASSUME NEW s \in Participants, NEW r \in Participants
        PROVE  /\ Left1(s, r)' => Left1(s, r)
               /\ Left2(s, r)' => Left2(s, r)
               /\ \A o \in Participants : LeftB(s, r, o)' => LeftB(s, r, o)
    BY <1>1, <1>2 DEF Left1, Left2, LeftB
  <2>2. ASSUME NEW q \in Participants PROVE Going(q)' => Going(q)
    BY <1>1, <1>2 DEF Going
  <2>3. Over => Over'
    BY <1>1, <1>2, CreatorAssumption DEF Over, Ended
  <2> QED
    BY <1>1, <2>1, <2>2, <2>3 DEF Grows, Validated
<1>4. \A q \in Participants : PublishedOK(q)' /\ SentOK(q)' /\ StoredOK(q)'
  BY <1>1, <1>3, SentKept, StoredKept DEF CauseInv, PublishedOK
<1>5. \A q \in Participants : Justified(q)'
  BY <1>1, <1>3, <1>4, JustifiedKept
<1>6. ASSUME NEW q \in Participants PROVE StageOK(q)'
  BY <1>1, <1>2, ZenonT(60) DEF CauseInv, StageOK, Validated
<1>7. ASSUME NEW r \in Participants PROVE OrderOK(Pending(r), r)'
  <2>1. PICK msgs : msgs = Pending(r)
    OBVIOUS
  <2>2. msgs \in Seq(Message) /\ OrderOK(msgs, r)
    BY <2>1, PendingFacts DEF EchoInv, CauseInv
  <2>3. OrderOK(msgs, r)'
    BY <1>1, <1>3, <2>2, OrderKept
  <2>4. Pending(r)' = msgs
    BY <1>1, <2>1 DEF Pending
  <2> QED
    BY <2>3, <2>4
<1>8. ASSUME NEW r \in Participants PROVE ComingOK(r)'
  <2> SUFFICES ASSUME Going(r)', NEW s \in Others(r),
                      pc'[s] \in Sending \cup Waiting, ~Left1(s, r)'
               PROVE  Has1(r, s)' \/ Arriving(Pending(r)', s)
    BY DEF ComingOK, Arriving
  <2>1. s \in Participants /\ r \in Others(s)
    BY DEF Others
  <2>2. s # p
    BY <1>2, <2>1 DEF Left1, ToAll
  <2>3. pc[s] = pc'[s] /\ ~Left1(s, r)
    BY <1>2, <2>1, <2>2 DEF Left1
  <2>4. session = "open"
    BY <1>1, <2>1, <2>3 DEF CauseInv, StageOK, Sending, Waiting
  <2>5. Going(r) /\ ComingOK(r)
    BY <1>3 DEF Grows, CauseInv
  <2>6. Has1(r, s) \/ Arriving(Pending(r), s)
    BY <2>3, <2>4, <2>5 DEF ComingOK
  <2>7. Pending(r)' = Pending(r) /\ (Has1(r, s) => Has1(r, s)')
    BY <1>1 DEF Pending, Has1
  <2> QED
    BY <2>6, <2>7
<1>9. MoreTypes'
  <2>1. ToAll(p) \in SUBSET (Participants \X Participants)
    BY DEF ToAll, Others
  <2> QED
    BY <1>1, <2>1 DEF MoreTypes, CauseInv
<1> QED
  BY <1>1, <1>4, <1>5, <1>6, <1>7, <1>8, <1>9 DEF CauseInv

-----------------------------------------------------------------------------
(* A message that is refused.                                              *)

\* The message that p handles next.
LEMMA NextMessage ==
    ASSUME EchoInv, CauseInv, NEW p \in Participants, inbox[p] # <<>>,
           pc[p] \in Waiting
    PROVE  /\ Len(Pending(p)) \in Nat \ {0}
           /\ Head(inbox[p]) = Pending(p)[1]
           /\ Head(inbox[p]) \in Message
           /\ MsgOK(Head(inbox[p]), p) /\ PendingOK(Head(inbox[p]), p)
           /\ Head(inbox[p]).type = "round2" => Has1(p, Head(inbox[p]).sender)
<1>1. inbox[p] \in Seq(Message) /\ inbox[p] # <<>>
  BY DEF EchoInv, Types
<1>2. 1 \in 1..Len(inbox[p]) /\ Head(inbox[p]) = inbox[p][1] /\ 1 \in DOMAIN inbox[p]
  BY <1>1
<1>3. MsgOK(Head(inbox[p]), p)
  BY <1>2 DEF EchoInv, MessagesOK
<1>4. Types
  BY DEF EchoInv
<1>5. Head(inbox[p]) = Pending(p)[1]
  BY <1>2, <1>4, PendingFacts
<1>6. Len(Pending(p)) \in Nat \ {0}
  <2>1. Len(inbox[p]) \in Nat \ {0}
    BY <1>1, EmptySeq
  <2>2. Len(queue[p]) \in Nat /\ Len(Pending(p)) = Len(inbox[p]) + Len(queue[p])
    BY <1>4, PendingFacts
  <2> DEFINE a == Len(inbox[p])
             b == Len(queue[p])
             c == Len(Pending(p))
  <2>3. a \in Nat \ {0} /\ b \in Nat /\ c = a + b
    BY <2>1, <2>2
  <2> HIDE DEF a, b, c
  <2>4. c \in Nat \ {0}
    BY <2>3
  <2> QED
    BY <2>4 DEF c
<1>7. 1 \in 1..Len(Pending(p)) /\ OrderOK(Pending(p), p)
  BY <1>6 DEF CauseInv
<1>8. Going(p)
  BY DEF Going, Running
<1>9. \A j : ~(j \in 1..1 - 1)
  OBVIOUS
<1>10. /\ PendingOK(Head(inbox[p]), p)
       /\ Head(inbox[p]).type = "round2" => Has1(p, Head(inbox[p]).sender)
  BY <1>5, <1>7, <1>8, <1>9 DEF OrderOK
<1> QED
  BY <1>3, <1>5, <1>6, <1>10 DEF MsgOK

\* With two participants there is nobody else to take the Round 1 Package of.
LEMMA WaitingForAThird ==
    ASSUME CauseInv, NEW p \in Participants, NEW q \in Others(p),
           DOMAIN state[p].round1 \subseteq Others(p), q \in DOMAIN state[p].round1,
           state[p].tag = "WaitingForRound1Packages"
    PROVE  Cardinality(Participants) > 2
<1>1. PICK x \in Others(p) : x \notin DOMAIN state[p].round1
  BY ZenonT(60) DEF CauseInv, StoredOK
<1> QED
  BY <1>1, ThreeParticipants DEF Others

\* A message that does not parse is from a participant a round ahead.
LEMMA ParseErrorCause ==
    ASSUME EchoInv, CauseInv, NEW p \in Participants, NEW m \in Message,
           MsgOK(m, p), PendingOK(m, p),
           m.type = "round2" => Has1(p, m.sender),
           m.type # Expected(state[p].tag)
    PROVE  Cardinality(Participants) > 2 /\ Ahead(m.sender, p)
<1>1. /\ state[p].tag \in Tags
      /\ CollectedOK(p) /\ ReturnedOK(p) /\ StoredOK(p)
      /\ m.sender \in Others(p) /\ m.sender \in Participants
  BY DEF EchoInv, Types, IsDKGSessionState, CauseInv, MsgOK, Others
<1>2. \A q \in Participants : Full(q) => collected[q] # EmptyMap
  BY OthersFacts DEF Full, EmptyMap
<1>3. CASE state[p].tag = "WaitingForRound1Packages"
  <2>1. m.type \in {"broadcast", "round2"}
    BY <1>3 DEF Message, Expected
  <2>2. CASE m.type = "broadcast"
    <3>1. Ahead(m.sender, p)
      BY <1>1, <1>2, <1>3, <2>2 DEF MsgOK, Ahead, CollectedOK
    <3>2. m.original \in Others(m.sender) /\ m.original # p
      BY <2>2 DEF MsgOK, PendingOK
    <3>3. Cardinality(Participants) > 2
      BY <1>1, <3>2, ThreeParticipants DEF Others
    <3> QED
      BY <3>1, <3>3
  <2>3. CASE m.type = "round2"
    <3>1. Validated(m.sender) /\ m.sender \in DOMAIN state[p].round1
      BY <1>3, <2>3 DEF PendingOK, Has1
    <3>2. Full(m.sender)
      BY <1>1, <3>1 DEF EchoInv, ReturnedOK, CollectedOK, Validated
    <3>3. Ahead(m.sender, p)
      BY <1>1, <1>2, <1>3, <3>2 DEF Ahead, CollectedOK
    <3> QED
      BY <1>1, <1>3, <3>1, <3>3, WaitingForAThird DEF CollectedOK
  <2> QED
    BY <2>1, <2>2, <2>3
<1>4. CASE state[p].tag = "WaitingForRound1PackagesBroadcast"
  <2>1. m.type = "round2"
    BY <1>4 DEF Message, Expected, PendingOK, Has1
  <2>2. Validated(m.sender) /\ ~Validated(p)
    BY <1>1, <1>4, <2>1 DEF PendingOK, ReturnedOK, Validated
  <2> QED
    BY <1>1, <1>4, <2>2 DEF Ahead, StoredOK
<1>5. CASE state[p].tag = "WaitingForRound2Packages"
  BY <1>5 DEF Message, Expected, PendingOK, Has1, HasB
<1>6. CASE state[p].tag = "Round2PackagesReady"
  BY <1>6 DEF Message, PendingOK, Has1, HasB, Has2
<1> QED
  BY <1>1, <1>3, <1>4, <1>5, <1>6 DEF Tags

\* An echo is refused only for what it says, and then somebody published
\* packages that differ.
LEMMA EchoCause ==
    ASSUME EchoInv, CauseInv, NEW p \in Participants, NEW m \in Message,
           MsgOK(m, p), PendingOK(m, p), m.type = "broadcast",
           state[p].tag = "WaitingForRound1PackagesBroadcast",
           BroadcastResult(state[p], p, m) # "Ok"
    PROVE  \E q \in Inconsistent : Cardinality(published[q]) > 1
<1>1. /\ m.sender \in Participants /\ m.original \in Participants
      /\ m.original # p /\ m.original # m.sender
      /\ Full(m.sender) /\ m.original \in Others(m.sender)
      /\ m.package = collected[m.sender][m.original]
      /\ <<m.original, m.sender>> \notin DOMAIN state[p].echoed
  BY DEF MsgOK, PendingOK, Others, HasB
<1>2. Full(p) /\ state[p].round1 = collected[p] /\ m.original \in Others(p)
  BY <1>1 DEF EchoInv, CollectedOK, Others
<1>3. collected[p][m.original] # m.package
  BY <1>1, <1>2 DEF BroadcastResult, Full
<1>4. /\ PublishedBy(m.original, collected[p][m.original])
      /\ PublishedBy(m.original, m.package)
  BY <1>1, <1>2 DEF CauseInv, StoredOK, Full
<1>5. collected[p][m.original] \in Round1Package /\ m.package \in Round1Package
  BY <1>1, <1>2 DEF EchoInv, Types, IsMap, Full
<1>6. collected[p][m.original].version # m.package.version
  BY <1>3, <1>4, <1>5 DEF PublishedBy, Round1Package
<1> QED
  BY <1>1, <1>4, <1>6, DifferentPackages

\* A refused message has a cause.
LEMMA HandleFailsCause ==
    ASSUME EchoInv, CauseInv, NEW p \in Participants, HandleFails(p)
    PROVE  CauseInv'
<1>1. PICK m : m = Head(inbox[p])
  OBVIOUS
<1>2. PICK result : result = RecvResult(state[p], p, m)
  OBVIOUS
<1>3. /\ pc[p] \in Waiting /\ inbox[p] # <<>> /\ result # "Ok"
      /\ Abort(p, result)
  BY <1>1, <1>2 DEF HandleFails
<1>4. /\ m \in Message /\ MsgOK(m, p) /\ PendingOK(m, p)
      /\ m.type = "round2" => Has1(p, m.sender)
  BY <1>1, <1>3, NextMessage
<1>5. /\ why \in [Participants -> Reasons]
      /\ token \in [Participants -> BOOLEAN] /\ faults \in 0..MaxFaults
  BY DEF CauseInv, MoreTypes
<1>6. result \in Reasons
  BY <1>2, <1>3 DEF RecvResult, BroadcastResult, Reasons
<1>7. Ends(p, "cleanup")
  BY <1>3, <1>5, <1>6 DEF Ends, Abort, Running
<1>8. why'[p] = result /\ UNCHANGED <<collected, round1_packages, published>>
  BY <1>3, <1>5 DEF Abort
<1>9. m.sender \in Others(p) /\ m.sender \in Participants
  BY <1>4 DEF MsgOK, Others
<1>10. CASE m.type # Expected(state[p].tag)
  <2>1. Cardinality(Participants) > 2 /\ Ahead(m.sender, p)
    BY <1>4, <1>10, ParseErrorCause
  <2>2. Expected(state[p].tag) # "none"
    BY <1>4 DEF EchoInv, Types, IsDKGSessionState, Tags, Expected, Message,
                PendingOK, Has1, HasB, Has2
  <2>3. result = "parse error"
    BY <1>2, <1>10, <2>2 DEF RecvResult
  <2>4. Ahead(m.sender, p)'
    BY <1>8, <2>1 DEF Ahead, Validated
  <2>5. Justified(p)'
    BY <1>8, <1>9, <2>1, <2>3, <2>4 DEF Justified
  <2> QED
    BY <1>7, <2>5, EndsCause
<1>11. CASE m.type = Expected(state[p].tag) /\ m.type = "broadcast"
  <2>1. state[p].tag = "WaitingForRound1PackagesBroadcast"
    BY <1>11 DEF Expected
  <2>2. BroadcastResult(state[p], p, m) # "Ok"
    BY <1>2, <1>3, <1>9, <1>11 DEF RecvResult
  <2>3. \E q \in Inconsistent : Cardinality(published[q]) > 1
    BY <1>4, <1>11, <2>1, <2>2, EchoCause
  <2>4. Justified(p)'
    BY <1>8, <2>3 DEF Justified
  <2> QED
    BY <1>7, <2>4, EndsCause
<1>12. CASE m.type = Expected(state[p].tag) /\ m.type # "broadcast"
  <2>1. m.type \in {"round1", "round2"}
    BY <1>4, <1>12 DEF Message
  <2>2. m.type = "round2" /\ m.sender \notin DOMAIN state[p].round1
    BY <1>2, <1>3, <1>9, <1>12, <2>1 DEF RecvResult
  <2>3. state[p].tag = "WaitingForRound2Packages"
    BY <1>12, <2>2 DEF Expected
  <2>4. DOMAIN state[p].round1 = Others(p)
    BY <2>3 DEF EchoInv, CollectedOK, Full
  <2> QED
    BY <1>9, <2>2, <2>4
<1> QED
  BY <1>10, <1>11, <1>12

-----------------------------------------------------------------------------
(* A send.                                                                 *)

\* SendOne, as far as its sender is concerned.
LEMMA SendOneMoves ==
    ASSUME EchoInv, CauseInv, NEW p \in Participants, NEW r \in Others(p),
           NEW s \in Participants, NEW v \in Versions, SendOne(p, r, s, v)
    PROVE  /\ pc[p] \in Sending /\ <<r, s>> \in todo[p]
           /\ todo'[p] = todo[p] \ {<<r, s>>}
           /\ \/ pc'[p] = pc[p]
              \/ pc'[p] = NextStage(pc[p]) /\ todo[p] = {<<r, s>>}
           /\ \A q \in Participants : q # p =>
                 /\ pc'[q] = pc[q] /\ todo'[q] = todo[q]
                 /\ published'[q] = published[q]
           /\ published'[p] = IF pc[p] = "sendb" THEN published[p]
                              ELSE published[p] \cup {v}
           /\ session = "open"
           /\ UNCHANGED <<session, token, inbox, state, round1_packages, why,
                          faults, collected>>
<1>1. /\ pc \in [Participants -> Stages] /\ DOMAIN todo = Participants
      /\ published \in [Participants -> SUBSET Versions]
  BY DEF EchoInv, Types, CauseInv, MoreTypes
<1>2. session = "open"
  BY DEF SendOne, CallResult
<1> QED
  BY <1>1, <1>2 DEF SendOne

\* What is sent is not left to send.
LEMMA SendOneGrows ==
    ASSUME EchoInv, CauseInv, NEW p \in Participants, NEW r \in Others(p),
           NEW s \in Participants, NEW v \in Versions, SendOne(p, r, s, v)
    PROVE  /\ Grows
           /\ \A x \in Others(p) : Left1(p, x) =>
                 Left1(p, x)' \/ (x = r /\ pc[p] = "send1")
<1>1. /\ pc[p] \in Sending /\ <<r, s>> \in todo[p]
      /\ todo'[p] = todo[p] \ {<<r, s>>}
      /\ \/ pc'[p] = pc[p]
         \/ pc'[p] = NextStage(pc[p]) /\ todo[p] = {<<r, s>>}
      /\ \A q \in Participants : q # p =>
            /\ pc'[q] = pc[q] /\ todo'[q] = todo[q]
            /\ published'[q] = published[q]
      /\ published[p] \subseteq published'[p]
      /\ UNCHANGED <<round1_packages, collected>>
  BY SendOneMoves
<1>2. \/ pc'[p] = pc[p] /\ pc[p] \in {"send1", "sendb", "send2"}
      \/ pc[p] = "send1" /\ pc'[p] = "wait1" /\ todo[p] = {<<r, s>>}
      \/ pc[p] = "sendb" /\ pc'[p] = "waitb"
      \/ pc[p] = "send2" /\ pc'[p] = "wait2"
  BY <1>1 DEF Sending, NextStage
<1>3. ASSUME NEW q \in Participants, NEW x \in Participants
      PROVE  /\ Left1(q, x)' => Left1(q, x)
             /\ Left2(q, x)' => Left2(q, x)
             /\ \A o \in Participants : LeftB(q, x, o)' => LeftB(q, x, o)
  <2>1. CASE q = p
    BY <1>1, <1>2, <2>1 DEF Left1, Left2, LeftB
  <2>2. CASE q # p
    BY <1>1, <2>2 DEF Left1, Left2, LeftB
  <2> QED
    BY <2>1, <2>2
<1>4. \A q \in Participants : Going(q)' => Going(q)
  BY <1>1, <1>2 DEF Going, Running, Sending
<1>5. Over => Over'
  BY <1>1, <1>2, CreatorAssumption DEF Over, Ended
<1>6. Grows
  BY <1>1, <1>3, <1>4, <1>5 DEF Grows, Validated
<1>7. ASSUME NEW x \in Others(p), Left1(p, x)
      PROVE  Left1(p, x)' \/ (x = r /\ pc[p] = "send1")
  BY <1>1, <1>2, <1>7 DEF Left1
<1> QED
  BY <1>6, <1>7

\* What a send puts at the end of a queue was not sent before, and not accepted.
LEMMA OutgoingPending ==
    ASSUME EchoInv, CauseInv, NEW p \in Participants, NEW r \in Others(p),
           NEW s \in Participants, NEW v \in Versions, SendOne(p, r, s, v),
           NEW out, out = Outgoing(p, r, s, v)
    PROVE  /\ PendingOK(out, r)'
           /\ \A m \in Message : PendingOK(m, r) => ~SameKind(m, out)
           /\ out.type = "round2" /\ Going(r) =>
                 Has1(r, out.sender) \/ Arriving(Pending(r), out.sender)
           /\ pc[p] = "send1" => out.type = "round1" /\ out.sender = p
<1>0. /\ r \in Participants /\ p \in Others(r) /\ r # p
      /\ StageOK(p) /\ SentOK(r) /\ ComingOK(r) /\ SendingOK(p)
  BY DEF Others, CauseInv, EchoInv
<1>1. /\ pc[p] \in Sending /\ <<r, s>> \in todo[p]
      /\ todo'[p] = todo[p] \ {<<r, s>>}
      /\ \/ pc'[p] = pc[p]
         \/ pc'[p] = NextStage(pc[p]) /\ todo[p] = {<<r, s>>}
      /\ published'[p] = IF pc[p] = "sendb" THEN published[p]
                         ELSE published[p] \cup {v}
      /\ session = "open"
      /\ UNCHANGED <<state, round1_packages>>
  BY SendOneMoves
<1>2. \A q : (Has1(r, q)' <=> Has1(r, q)) /\ (Has2(r, q)' <=> Has2(r, q))
  BY <1>1 DEF Has1, Has2
<1>3. \A q, o : HasB(r, q, o)' <=> HasB(r, q, o)
  BY <1>1 DEF HasB
<1>4. CASE pc[p] = "send1"
  <2>1. out = [type |-> "round1", sender |-> p,
               package |-> [from |-> p, version |-> v]]
    BY <1>4 DEF Outgoing
  <2>2. s = p
    BY <1>0, <1>1, <1>4 DEF StageOK, ToAll
  <2>3. Left1(p, r) /\ ~Left1(p, r)'
    BY <1>1, <1>4, <2>2 DEF Left1, NextStage
  <2>4. ~Has1(r, p)
    BY <1>0, <2>3 DEF SentOK
  <2>5. PendingOK(out, r)'
    BY <1>1, <1>2, <1>4, <2>1, <2>3, <2>4 DEF PendingOK, PublishedBy
  <2>6. \A m \in Message : PendingOK(m, r) => ~SameKind(m, out)
    BY <2>1, <2>3 DEF PendingOK, SameKind
  <2> QED
    BY <2>1, <2>5, <2>6
<1>5. CASE pc[p] = "sendb"
  <2>1. out = [type |-> "broadcast", sender |-> p, original |-> s,
               package |-> state[p].round1[s]]
    BY <1>5 DEF Outgoing
  <2>2. s \in Others(r) \ {p}
    BY <1>0, <1>1, <1>5 DEF SendingOK, ToEcho, Others
  <2>3. LeftB(p, r, s) /\ ~LeftB(p, r, s)'
    BY <1>1, <1>5 DEF LeftB, NextStage
  <2>4. ~HasB(r, p, s)
    BY <1>0, <2>2, <2>3 DEF SentOK
  <2>5. PendingOK(out, r)'
    BY <1>3, <2>1, <2>2, <2>3, <2>4 DEF PendingOK, Others
  <2>6. \A m \in Message : PendingOK(m, r) => ~SameKind(m, out)
    BY <2>1, <2>3 DEF PendingOK, SameKind
  <2> QED
    BY <1>5, <2>1, <2>5, <2>6
<1>6. CASE pc[p] = "send2"
  <2>1. out = [type |-> "round2", sender |-> p,
               package |-> [from |-> p, version |-> v, to |-> r]]
    BY <1>6 DEF Outgoing
  <2>2. s = p /\ Validated(p)
    BY <1>0, <1>1, <1>6 DEF StageOK, ToAll
  <2>3. Left2(p, r) /\ ~Left2(p, r)' /\ ~Left1(p, r)
    BY <1>1, <1>6, <2>2 DEF Left1, Left2, NextStage
  <2>4. ~Has2(r, p)
    BY <1>0, <2>3 DEF SentOK
  <2>5. PendingOK(out, r)'
    BY <1>1, <1>2, <1>6, <2>1, <2>2, <2>3, <2>4 DEF PendingOK, PublishedBy, Validated
  <2>6. \A m \in Message : PendingOK(m, r) => ~SameKind(m, out)
    BY <2>1, <2>3 DEF PendingOK, SameKind
  <2>7. Going(r) => Has1(r, p) \/ Arriving(Pending(r), p)
    BY <1>0, <1>1, <2>3 DEF ComingOK
  <2> QED
    BY <1>6, <2>1, <2>5, <2>6, <2>7
<1> QED
  BY <1>1, <1>4, <1>5, <1>6 DEF Sending

\* Appending to the second of two sequences appends to both.
LEMMA AppendToSecond ==
    ASSUME NEW S, NEW s \in Seq(S), NEW t \in Seq(S), NEW m \in S
    PROVE  s \o Append(t, m) = Append(s \o t, m)
  OBVIOUS

\* Where a message joins the queue, it comes last.
LEMMA PendingAppended ==
    ASSUME Types, NEW p \in Participants, NEW r \in Others(p),
           NEW s \in Participants, NEW v \in Versions, SendOne(p, r, s, v),
           NEW out \in Message, out = Outgoing(p, r, s, v)
    PROVE  /\ Pending(r)' = Append(Pending(r), out)
           /\ \A q \in Participants : q # r => Pending(q)' = Pending(q)
<1>1. /\ queue' = [queue EXCEPT ![r] = Append(@, out)] /\ inbox' = inbox
      /\ r \in Participants
  BY DEF SendOne, Others
<1>2. inbox[r] \in Seq(Message) /\ queue[r] \in Seq(Message)
  BY <1>1 DEF Types
<1>3. queue'[r] = Append(queue[r], out)
  BY <1>1 DEF Types
<1>4. inbox[r] \o Append(queue[r], out) = Append(inbox[r] \o queue[r], out)
  <2>1. \A a, b \in Seq(Message) : a \o Append(b, out) = Append(a \o b, out)
    BY AppendToSecond
  <2> QED
    BY <1>2, <2>1
<1>5. inbox'[r] = inbox[r]
  BY <1>1
<1>6. Pending(r)' = Append(Pending(r), out)
  BY <1>3, <1>4, <1>5 DEF Pending
<1>7. ASSUME NEW q \in Participants, q # r PROVE Pending(q)' = Pending(q)
  BY <1>1, <1>7 DEF Pending, Types
<1> QED
  BY <1>6, <1>7

\* A message that fits may follow messages that are in order.
LEMMA OrderAppended ==
    ASSUME NEW r, NEW msgs \in Seq(Message), NEW out \in Message,
           OrderOK(msgs, r)', PendingOK(out, r)',
           \A j \in 1..Len(msgs) : ~SameKind(msgs[j], out),
           out.type = "round2" /\ Going(r)' =>
              Has1(r, out.sender)' \/ Arriving(msgs, out.sender)
    PROVE  /\ OrderOK(Append(msgs, out), r)'
           /\ \A s : \/ Arriving(msgs, s)
                     \/ out.type = "round1" /\ out.sender = s
                     => Arriving(Append(msgs, out), s)
<1> DEFINE n == Len(msgs)
           new == Append(msgs, out)
<1>1. /\ n \in Nat /\ Len(new) = n + 1 /\ new[n + 1] = out
      /\ \A j \in 1..n : new[j] = msgs[j]
  BY AppendProperties, LenProperties
<1> HIDE DEF n, new
<1>2. OrderOK(new, r)'
  <2> SUFFICES ASSUME NEW i \in 1..n + 1
               PROVE  /\ PendingOK(new[i], r)'
                      /\ \A j \in 1..i - 1 : ~SameKind(new[j], new[i])
                      /\ new[i].type = "round2" /\ Going(r)' =>
                            \/ Has1(r, new[i].sender)'
                            \/ \E j \in 1..i - 1 : /\ new[j].type = "round1"
                                                   /\ new[j].sender = new[i].sender
    BY <1>1 DEF OrderOK, SameKind
  <2>1. CASE i = n + 1
    <3>1. new[i] = out /\ \A j \in 1..i - 1 : j \in 1..n /\ new[j] = msgs[j]
      BY <1>1, <2>1
    <3>2. \A j \in 1..n : j \in 1..i - 1
      BY <1>1, <2>1
    <3> QED
      BY <3>1, <3>2 DEF Arriving, n
  <2>2. CASE i # n + 1
    <3>1. i \in 1..n /\ new[i] = msgs[i]
          /\ \A j \in 1..i - 1 : new[j] = msgs[j]
      BY <1>1, <2>2
    <3>2. /\ PendingOK(msgs[i], r)'
          /\ \A j \in 1..i - 1 : ~SameKind(msgs[j], msgs[i])
          /\ msgs[i].type = "round2" /\ Going(r)' =>
                \/ Has1(r, msgs[i].sender)'
                \/ \E j \in 1..i - 1 : /\ msgs[j].type = "round1"
                                       /\ msgs[j].sender = msgs[i].sender
      BY <3>1 DEF OrderOK, SameKind, n
    <3> QED
      BY <3>1, <3>2
  <2> QED
    BY <2>1, <2>2
<1>3. ASSUME NEW s, Arriving(msgs, s) \/ (out.type = "round1" /\ out.sender = s)
      PROVE  Arriving(new, s)
  <2>1. CASE out.type = "round1" /\ out.sender = s
    <3>1. n + 1 \in 1..n + 1
      BY <1>1
    <3> QED
      BY <1>1, <2>1, <3>1 DEF Arriving
  <2>2. CASE Arriving(msgs, s)
    <3>1. PICK i \in 1..n : msgs[i].type = "round1" /\ msgs[i].sender = s
      BY <2>2 DEF Arriving, n
    <3>2. i \in 1..n + 1 /\ new[i] = msgs[i]
      BY <1>1
    <3> QED
      BY <1>1, <3>1, <3>2 DEF Arriving
  <2> QED
    BY <1>3, <2>1, <2>2
<1> QED
  BY <1>2, <1>3 DEF new

\* A send preserves the invariant.
LEMMA SendOneCause ==
    ASSUME EchoInv, CauseInv, NEW p \in Participants, NEW r \in Others(p),
           NEW s \in Participants, NEW v \in Versions, SendOne(p, r, s, v)
    PROVE  CauseInv'
<1>1. PICK out : out = Outgoing(p, r, s, v)
  OBVIOUS
<1>2. out \in Message
  BY <1>1, OutgoingOK DEF MsgOK
<1>3. /\ pc[p] \in Sending /\ <<r, s>> \in todo[p]
      /\ todo'[p] = todo[p] \ {<<r, s>>}
      /\ \/ pc'[p] = pc[p]
         \/ pc'[p] = NextStage(pc[p]) /\ todo[p] = {<<r, s>>}
      /\ \A q \in Participants : q # p =>
            /\ pc'[q] = pc[q] /\ todo'[q] = todo[q]
            /\ published'[q] = published[q]
      /\ published'[p] = IF pc[p] = "sendb" THEN published[p]
                         ELSE published[p] \cup {v}
      /\ session = "open"
      /\ UNCHANGED <<session, token, inbox, state, round1_packages, why,
                     faults, collected>>
  BY SendOneMoves
<1>4. /\ Grows /\ r \in Participants /\ r # p
      /\ \A x \in Others(p) : Left1(p, x) =>
            Left1(p, x)' \/ (x = r /\ pc[p] = "send1")
  BY SendOneGrows DEF Others
<1>5. /\ PendingOK(out, r)'
      /\ \A m \in Message : PendingOK(m, r) => ~SameKind(m, out)
      /\ out.type = "round2" /\ Going(r) =>
            Has1(r, out.sender) \/ Arriving(Pending(r), out.sender)
      /\ pc[p] = "send1" => out.type = "round1" /\ out.sender = p
  BY <1>1, OutgoingPending
<1>6. /\ Pending(r)' = Append(Pending(r), out)
      /\ \A q \in Participants : q # r => Pending(q)' = Pending(q)
  BY <1>1, <1>2, PendingAppended DEF EchoInv
<1>7. MoreTypes'
  <2>1. todo' = [todo EXCEPT ![p] = @ \ {<<r, s>>}]
    BY DEF SendOne
  <2>2. todo' \in [Participants -> SUBSET (Participants \X Participants)]
    BY <2>1 DEF CauseInv, MoreTypes
  <2>3. published' \in [Participants -> SUBSET Versions]
    BY DEF SendOne, CauseInv, MoreTypes
  <2> QED
    BY <1>3, <2>2, <2>3 DEF CauseInv, MoreTypes
<1>8. PublishedOK(p)'
  <2>1. PublishedOK(p) /\ (p \in Consistent => v = OwnVersion)
    BY DEF CauseInv, SendOne, Consistent
  <2>2. IsFiniteSet(published'[p])
    <3>1. IsFiniteSet(published[p]) /\ IsFiniteSet(published[p] \cup {v})
      BY <2>1, FS_AddElement DEF PublishedOK
    <3> QED
      BY <1>3, <3>1
  <2> QED
    BY <1>3, <2>1, <2>2 DEF PublishedOK
<1>9. \A q \in Participants : q # p => Idle(q)
  BY <1>3 DEF Idle
<1>10. \A q \in Participants : PublishedOK(q)'
  BY <1>3, <1>4, <1>8, <1>9, IdleKept
<1>11. StageOK(p)'
  <2>1. StageOK(p) /\ (Validated(p) => Validated(p)')
    BY <1>3 DEF CauseInv, Validated
  <2>2. \/ pc'[p] = pc[p] /\ pc[p] \in {"send1", "sendb", "send2"}
        \/ pc'[p] \in {"wait1", "waitb"}
        \/ pc[p] = "send2" /\ pc'[p] = "wait2"
    BY <1>3 DEF Sending, NextStage
  <2>3. why'[p] = "" /\ session' # "none"
    BY <1>3, <2>1 DEF StageOK, Sending
  <2>4. todo'[p] \subseteq todo[p]
    BY <1>3
  <2> QED
    BY <2>1, <2>2, <2>3, <2>4 DEF StageOK
<1>12. ASSUME NEW q \in Participants
       PROVE  /\ SentOK(q)' /\ PublishedOK(q)' /\ StoredOK(q)'
              /\ StageOK(q)' /\ Justified(q)'
  <2>1. SentOK(q)' /\ StoredOK(q)'
    BY <1>3, <1>4, SentKept, StoredKept
  <2>2. Justified(q)'
    BY <1>3, <1>4, <1>10, JustifiedKept
  <2>3. StageOK(q)'
    BY <1>3, <1>4, <1>9, <1>11, IdleKept
  <2> QED
    BY <1>10, <2>1, <2>2, <2>3
<1>13. \A q, x : Has1(q, x)' <=> Has1(q, x)
  BY <1>3 DEF Has1
<1>14. ASSUME NEW q \in Participants
       PROVE  /\ OrderOK(Pending(q), q)'
              /\ \A x : Arriving(Pending(q), x) => Arriving(Pending(q)', x)
              /\ q = r /\ pc[p] = "send1" => Arriving(Pending(q)', p)
  <2>1. PICK msgs : msgs = Pending(q)
    OBVIOUS
  <2>2. msgs \in Seq(Message) /\ OrderOK(msgs, q)
    BY <2>1, PendingFacts DEF EchoInv, CauseInv
  <2>3. OrderOK(msgs, q)'
    BY <1>3, <1>4, <2>2, OrderKept
  <2>4. CASE q = r
    <3>1. Pending(q)' = Append(msgs, out)
      BY <1>6, <2>1, <2>4
    <3>2. \A j \in 1..Len(msgs) : ~SameKind(msgs[j], out)
      BY <1>5, <2>2, <2>4, ElementOfSeq DEF OrderOK
    <3>3. out.type = "round2" /\ Going(q)' =>
            Has1(q, out.sender)' \/ Arriving(msgs, out.sender)
      BY <1>4, <1>5, <1>13, <2>1, <2>4 DEF Grows
    <3>4. PendingOK(out, q)'
      BY <1>5, <2>4
    <3>5. /\ OrderOK(Append(msgs, out), q)'
          /\ \A x : \/ Arriving(msgs, x)
                    \/ out.type = "round1" /\ out.sender = x
                    => Arriving(Append(msgs, out), x)
      BY <1>2, <2>2, <2>3, <3>2, <3>3, <3>4, OrderAppended
    <3> QED
      BY <1>5, <2>1, <3>1, <3>5
  <2>5. CASE q # r
    BY <1>6, <2>1, <2>3, <2>5
  <2> QED
    BY <2>4, <2>5
<1>15. ASSUME NEW q \in Participants PROVE ComingOK(q)'
  <2> SUFFICES ASSUME Going(q)', NEW x \in Others(q),
                      pc'[x] \in Sending \cup Waiting, ~Left1(x, q)'
               PROVE  Has1(q, x)' \/ Arriving(Pending(q)', x)
    BY DEF ComingOK, Arriving
  <2>1. x \in Participants /\ q \in Others(x)
    BY DEF Others
  <2>2. pc[x] \in Sending \cup Waiting
    BY <1>3, <2>1
  <2>3. Going(q) /\ ComingOK(q)
    BY <1>4 DEF Grows, CauseInv
  <2>4. CASE ~Left1(x, q)
    BY <1>3, <1>13, <1>14, <2>2, <2>3, <2>4 DEF ComingOK
  <2>5. CASE Left1(x, q)
    <3>1. x = p
      BY <1>3, <2>1, <2>5 DEF Left1
    <3> QED
      BY <1>4, <1>14, <2>1, <2>5, <3>1
  <2> QED
    BY <2>4, <2>5
<1>16. session' = "closed" => Over'
  BY <1>3
<1> QED
  BY <1>7, <1>12, <1>14, <1>15, <1>16 DEF CauseInv

-----------------------------------------------------------------------------
(* A message that is accepted.                                             *)

\* p has accepted m, and nothing else, in addition to what it had.
HasAlso(p, m) ==
    \A s \in Others(p) :
        /\ Has1(p, s)' <=> Has1(p, s) \/ (m.type = "round1" /\ m.sender = s)
        /\ \A o \in Others(p) \ {s} :
              HasB(p, s, o)' =>
                 \/ HasB(p, s, o)
                 \/ m.type = "broadcast" /\ m.sender = s /\ m.original = o
        /\ Has2(p, s)' => Has2(p, s) \/ (m.type = "round2" /\ m.sender = s)

\* A Round 1 Package.
LEMMA TakeRound1 ==
    ASSUME EchoInv, CauseInv, Grows, NEW p \in Participants, NEW m, NEW st,
           Accepts(p, m, st), PendingOK(m, p),
           state[p].tag = "WaitingForRound1Packages"
    PROVE  HasAlso(p, m) /\ StoredOK(p)'
<1>1. /\ state'[p] = st
      /\ collected'[p] = IF st.tag # "WaitingForRound1Packages"
                         THEN st.round1 ELSE collected[p]
      /\ m \in Message /\ RecvResult(state[p], p, m) = "Ok"
      /\ st = Recv(state[p], m)
  BY DEF Accepts, EchoInv, Types
<1>2. m.type = "round1"
  BY <1>1, RecvRound1
<1>3. st = HandleRound1Package(state[p], m)
  BY <1>1, <1>2 DEF Recv
<1>4. /\ st.round1 = Insert(state[p].round1, m.sender, m.package)
      /\ st.echoed = EmptyMap /\ st.round2 = EmptyMap
      /\ st.tag \in {"WaitingForRound1Packages", "WaitingForRound1PackagesBroadcast",
                     "WaitingForRound2Packages"}
      /\ st.tag # "WaitingForRound1Packages" <=>
            Cardinality(DOMAIN st.round1) = Cardinality(Participants) - 1
      /\ st.tag = "WaitingForRound1PackagesBroadcast" => Cardinality(Participants) > 2
      /\ st.tag = "WaitingForRound2Packages" => ~(Cardinality(Participants) > 2)
  BY <1>3 DEF HandleRound1Package
<1>5. DOMAIN state[p].round1 \subseteq Others(p) /\ m.sender \in Others(p)
  BY DEF EchoInv, CollectedOK, Accepts, MsgOK
<1>6. DOMAIN st.round1 = DOMAIN state[p].round1 \cup {m.sender}
  BY <1>4 DEF Insert
<1>7. st.tag # "WaitingForRound1Packages" <=> DOMAIN st.round1 = Others(p)
  BY <1>4, <1>5, <1>6, CountingSuffices, OthersFacts
<1>8. ASSUME NEW s \in Others(p)
      PROVE  /\ Has1(p, s)' <=> Has1(p, s) \/ (m.type = "round1" /\ m.sender = s)
             /\ \A o \in Others(p) \ {s} : ~HasB(p, s, o)'
             /\ ~Has2(p, s)'
  <2>1. Has1(p, s)' <=> Has1(p, s) \/ (m.type = "round1" /\ m.sender = s)
    BY <1>1, <1>2, <1>6, <1>7 DEF Has1
  <2>2. ASSUME NEW o \in Others(p) \ {s} PROVE ~HasB(p, s, o)'
    <3>1. Cardinality(Participants) > 2
      BY ThreeParticipants DEF Others
    <3> QED
      BY <1>1, <1>4, <3>1 DEF HasB, EmptyMap
  <2>3. ~Has2(p, s)'
    BY <1>1, <1>4 DEF Has2, EmptyMap
  <2> QED
    BY <2>1, <2>2, <2>3
<1>9. HasAlso(p, m)
  BY <1>8 DEF HasAlso
<1>10. \A x \in DOMAIN st.round1 : PublishedBy(x, st.round1[x])'
  <2>1. PublishedBy(m.sender, m.package) /\ StoredOK(p)
    BY <1>2 DEF PendingOK, CauseInv
  <2>2. \A x \in DOMAIN st.round1 : PublishedBy(x, st.round1[x]) /\ x \in Participants
    BY <1>4, <1>5, <2>1 DEF StoredOK, Insert, Others
  <2> QED
    BY <2>2, PublishedGrows
<1>11. \A x \in DOMAIN collected'[p] : PublishedBy(x, collected[p][x])'
  <2>1. st.tag = "WaitingForRound1Packages" => DOMAIN collected'[p] = {}
    BY <1>1 DEF EchoInv, CollectedOK, EmptyMap
  <2>2. st.tag # "WaitingForRound1Packages" => collected'[p] = st.round1
    BY <1>1
  <2> QED
    BY <1>10, <2>1, <2>2
<1>12. DOMAIN EmptyMap = {}
  BY DEF EmptyMap
<1>13. StoredOK(p)'
  BY <1>1, <1>4, <1>7, <1>10, <1>11, <1>12 DEF StoredOK
<1> QED
  BY <1>9, <1>13

\* An echo: the last one completes those of everybody about everybody.
LEMMA TakeBroadcast ==
    ASSUME EchoInv, CauseInv, Grows, NEW p \in Participants, NEW m, NEW st,
           Accepts(p, m, st), PendingOK(m, p),
           state[p].tag = "WaitingForRound1PackagesBroadcast"
    PROVE  HasAlso(p, m) /\ StoredOK(p)'
<1> DEFINE echoes == Insert(state[p].echoed, <<m.original, m.sender>>, m.package)
<1>1. /\ state'[p] = st /\ collected'[p] = collected[p]
      /\ m \in Message /\ RecvResult(state[p], p, m) = "Ok"
      /\ st = Recv(state[p], m)
  BY DEF Accepts, EchoInv, Types
<1>2. m.type = "broadcast"
  BY <1>1, RecvBroadcast, ZenonT(60)
<1>3. st = HandleRound1PackageBroadcast(state[p], m)
  BY <1>1, <1>2 DEF Recv
<1>4. /\ st.round1 = state[p].round1 /\ st.round2 = EmptyMap
      /\ \/ st.tag = "WaitingForRound1PackagesBroadcast" /\ st.echoed = echoes
         \/ st.tag = "WaitingForRound2Packages" /\ EchoesComplete(state[p].round1, echoes)
  BY <1>3 DEF HandleRound1PackageBroadcast
<1>5. DOMAIN state[p].round1 = Others(p)
  BY DEF EchoInv, CollectedOK, Full
<1>6. /\ DOMAIN echoes = DOMAIN state[p].echoed \cup {<<m.original, m.sender>>}
      /\ DOMAIN state[p].echoed \subseteq Participants \X Participants
      /\ m.original \in Participants /\ m.sender \in Participants
  BY <1>1, <1>2 DEF Insert, EchoInv, Types, IsDKGSessionState, IsMap, Message
<1> HIDE DEF echoes
<1>7. ASSUME NEW s \in Others(p), NEW o \in Others(p) \ {s}, HasB(p, s, o)'
      PROVE  HasB(p, s, o) \/ (m.sender = s /\ m.original = o)
  <2>1. <<o, s>> \in DOMAIN echoes
    <3>1. CASE EchoesComplete(state[p].round1, echoes)
      <4>1. {k[2] : k \in {x \in DOMAIN echoes : x[1] = o}} \cup {o} = Others(p)
        BY <1>5, <3>1 DEF EchoesComplete
      <4>2. PICK k \in DOMAIN echoes : k[1] = o /\ k[2] = s
        BY <4>1
      <4>3. k \in Participants \X Participants
        BY <1>6
      <4> QED
        BY <4>2, <4>3
    <3>2. CASE st.tag = "WaitingForRound1PackagesBroadcast" /\ st.echoed = echoes
      BY <1>1, <1>7, <3>2 DEF HasB
    <3> QED
      BY <1>4, <3>1, <3>2
  <2> QED
    BY <1>6, <2>1 DEF HasB
<1>8. HasAlso(p, m)
  BY <1>1, <1>2, <1>4, <1>7 DEF HasAlso, Has1, Has2, EmptyMap
<1>9. StoredOK(p)'
  <2>1. /\ StoredOK(p) /\ Others(p) \subseteq Participants
        /\ DOMAIN collected[p] = Others(p)
    BY DEF CauseInv, Others, EchoInv, CollectedOK, Full
  <2>2. \A x \in DOMAIN st.round1 : PublishedBy(x, st.round1[x])'
    BY <1>4, <1>5, <2>1, PublishedGrows DEF StoredOK
  <2>3. \A x \in DOMAIN collected[p] : PublishedBy(x, collected[p][x])'
    <3>1. \A x \in DOMAIN collected[p] : PublishedBy(x, collected[p][x])
      BY <2>1 DEF StoredOK
    <3>2. PICK c : c = collected[p]
      OBVIOUS
    <3>3. \A x \in DOMAIN c : PublishedBy(x, c[x])'
      BY <2>1, <3>1, <3>2, PublishedGrows
    <3> QED
      BY <1>1, <3>2, <3>3
  <2>4. DOMAIN EmptyMap = {}
    BY DEF EmptyMap
  <2> QED
    BY <1>1, <1>4, <2>1, <2>2, <2>3, <2>4 DEF StoredOK
<1> QED
  BY <1>8, <1>9

\* A Round 2 Package: the last one makes them those of all the others.
LEMMA TakeRound2 ==
    ASSUME EchoInv, CauseInv, Grows, NEW p \in Participants, NEW m, NEW st,
           Accepts(p, m, st), PendingOK(m, p),
           state[p].tag = "WaitingForRound2Packages"
    PROVE  HasAlso(p, m) /\ StoredOK(p)'
<1>1. /\ state'[p] = st /\ collected'[p] = collected[p]
      /\ m \in Message /\ RecvResult(state[p], p, m) = "Ok"
      /\ st = Recv(state[p], m) /\ m.sender \in Others(p)
  BY DEF Accepts, EchoInv, Types, MsgOK
<1>2. m.type = "round2"
  BY <1>1 DEF RecvResult, Expected
<1>3. st = HandleRound2Package(state[p], m)
  BY <1>1, <1>2 DEF Recv
<1>4. /\ st.round2 = Insert(state[p].round2, m.sender, m.package)
      /\ \/ /\ st.tag = "Round2PackagesReady" /\ st.round1 = EmptyMap
            /\ DOMAIN st.round2 = DOMAIN state[p].round1
         \/ st.tag = "WaitingForRound2Packages" /\ st.round1 = state[p].round1
  BY <1>3 DEF HandleRound2Package
<1>5. DOMAIN state[p].round1 = Others(p) /\ StoredOK(p)
  BY DEF EchoInv, CollectedOK, Full, CauseInv
<1>6. HasAlso(p, m)
  BY <1>1, <1>2, <1>4, <1>5 DEF HasAlso, Has1, HasB, Has2, Insert
<1>7. Others(p) \subseteq Participants /\ DOMAIN EmptyMap = {}
  BY DEF Others, EmptyMap
<1>8. \A x \in DOMAIN st.round1 : PublishedBy(x, st.round1[x])'
  BY <1>4, <1>5, <1>7, PublishedGrows DEF StoredOK
<1>9. \A x \in DOMAIN collected[p] : PublishedBy(x, collected[p][x])'
  <2>1. \A x \in DOMAIN collected[p] : PublishedBy(x, collected[p][x]) /\ x \in Participants
    BY <1>5, <1>7 DEF StoredOK, EchoInv, CollectedOK, Full
  <2>2. PICK c : c = collected[p]
    OBVIOUS
  <2>3. \A x \in DOMAIN c : PublishedBy(x, c[x])'
    BY <2>1, <2>2, PublishedGrows
  <2> QED
    BY <1>1, <2>2, <2>3
<1>10. \A q \in DOMAIN st.round2 :
          /\ q \in Others(p) /\ PublishedBy(q, st.round2[q])'
          /\ st.round2[q].to = p /\ Validated(q)'
  <2>1. /\ PublishedBy(m.sender, m.package) /\ m.package.to = p
        /\ Validated(m.sender)
    BY <1>2 DEF PendingOK
  <2>2. \A q \in DOMAIN st.round2 :
          /\ q \in Others(p) /\ PublishedBy(q, st.round2[q])
          /\ st.round2[q].to = p /\ Validated(q)
    BY <1>1, <1>4, <1>5, <2>1 DEF StoredOK, Insert
  <2> QED
    BY <1>7, <2>2, PublishedGrows DEF Grows
<1>11. StoredOK(p)'
  BY <1>1, <1>4, <1>5, <1>8, <1>9, <1>10 DEF StoredOK
<1> QED
  BY <1>6, <1>11

\* An accepted message is what p has in addition.
LEMMA TakeMessage ==
    ASSUME EchoInv, CauseInv, Grows, NEW p \in Participants, NEW m, NEW st,
           Accepts(p, m, st), PendingOK(m, p)
    PROVE  HasAlso(p, m) /\ StoredOK(p)'
<1>1. state[p].tag \in Tags \ {"Round2PackagesReady"}
  BY RecvReady DEF Accepts, EchoInv, Types, IsDKGSessionState
<1> QED
  BY <1>1, TakeRound1, TakeBroadcast, TakeRound2 DEF Tags

\* The messages that follow an accepted one, of other kinds, stay in order.
LEMMA OrderOfTail ==
    ASSUME Grows, NEW p \in Participants, NEW msgs \in Seq(Message),
           OrderOK(msgs, p), Len(msgs) \in Nat \ {0}, HasAlso(p, msgs[1]),
           \A i \in 1..Len(msgs) : MsgOK(msgs[i], p)
    PROVE  /\ OrderOK(Tail(msgs), p)'
           /\ \A s \in Others(p) : Arriving(msgs, s) =>
                 Has1(p, s)' \/ Arriving(Tail(msgs), s)
<1> DEFINE n == Len(msgs)
           new == Tail(msgs)
           m == msgs[1]
<1>1. /\ n \in Nat \ {0} /\ Len(new) = n - 1
      /\ \A i \in 1..n - 1 : new[i] = msgs[i + 1]
  <2>1. msgs # <<>>
    BY EmptySeq
  <2>2. /\ Len(new) = n - 1
        /\ \A i \in 1..Len(new) : new[i] = msgs[i + 1]
    BY <2>1, HeadTailProperties
  <2> QED
    BY <2>2
<1>2. \A i \in 1..n : msgs[i] \in Message
  BY ElementOfSeq
<1>3. HasAlso(p, m)
  OBVIOUS
<1>4. \A i \in 1..n : MsgOK(msgs[i], p)
  OBVIOUS
<1>5. \A i \in 1..n :
        /\ PendingOK(msgs[i], p)
        /\ \A j \in 1..i - 1 : ~SameKind(msgs[j], msgs[i])
        /\ msgs[i].type = "round2" /\ Going(p) =>
              \/ Has1(p, msgs[i].sender)
              \/ \E j \in 1..i - 1 :
                    msgs[j].type = "round1" /\ msgs[j].sender = msgs[i].sender
  BY DEF OrderOK
<1> HIDE DEF new, m
<1>6. ASSUME NEW x \in Message, MsgOK(x, p), PendingOK(x, p), ~SameKind(m, x)
      PROVE  PendingOK(x, p)'
  <2>1. x.sender \in Others(p) /\ x.sender \in Participants
    BY <1>6 DEF MsgOK, Others
  <2>2. x.type = "round1" =>
          /\ ~Left1(x.sender, p)' /\ ~Has1(p, x.sender)'
          /\ PublishedBy(x.sender, x.package)'
    BY <1>3, <1>6, <2>1, PublishedGrows DEF PendingOK, HasAlso, SameKind, Grows
  <2>3. x.type = "broadcast" =>
          /\ ~LeftB(x.sender, p, x.original)' /\ ~HasB(p, x.sender, x.original)'
          /\ x.original # p
    <3>1. x.type = "broadcast" => x.original \in Others(p) \ {x.sender}
      BY <1>6 DEF MsgOK, PendingOK, Others
    <3> QED
      BY <1>3, <1>6, <2>1, <3>1 DEF PendingOK, HasAlso, SameKind, Grows, Others
  <2>4. x.type = "round2" =>
          /\ ~Left2(x.sender, p)' /\ ~Has2(p, x.sender)'
          /\ PublishedBy(x.sender, x.package)' /\ x.package.to = p
          /\ Validated(x.sender)'
    BY <1>3, <1>6, <2>1, PublishedGrows DEF PendingOK, HasAlso, SameKind, Grows
  <2> QED
    BY <2>2, <2>3, <2>4 DEF PendingOK
<1>7. ASSUME NEW i \in 1..n - 1
      PROVE  /\ PendingOK(new[i], p)'
             /\ \A j \in 1..i - 1 : ~SameKind(new[j], new[i])
             /\ new[i].type = "round2" /\ Going(p)' =>
                   \/ Has1(p, new[i].sender)'
                   \/ \E j \in 1..i - 1 : /\ new[j].type = "round1"
                                          /\ new[j].sender = new[i].sender
  <2>1. PICK k : k = i + 1
    OBVIOUS
  <2>2. /\ k \in 1..n /\ 1 \in 1..k - 1 /\ new[i] = msgs[k]
        /\ msgs[k] \in Message /\ MsgOK(msgs[k], p)
    BY <1>1, <1>2, <1>4, <2>1
  <2>3. ~SameKind(m, msgs[k]) /\ PendingOK(msgs[k], p)
    BY <1>5, <2>2 DEF m
  <2>4. PendingOK(new[i], p)'
    <3>1. PICK x : x = msgs[k]
      OBVIOUS
    <3>2. PendingOK(x, p)'
      BY <1>6, <2>2, <2>3, <3>1
    <3> QED
      BY <2>2, <3>1, <3>2
  <2>5. ASSUME NEW j \in 1..i - 1 PROVE ~SameKind(new[j], new[i])
    <3>1. j + 1 \in 1..k - 1 /\ j \in 1..n - 1 /\ new[j] = msgs[j + 1]
      BY <1>1, <2>1
    <3> QED
      BY <1>5, <2>2, <3>1
  <2>6. ASSUME new[i].type = "round2", Going(p)'
        PROVE  \/ Has1(p, new[i].sender)'
               \/ \E j \in 1..i - 1 : /\ new[j].type = "round1"
                                      /\ new[j].sender = new[i].sender
    <3>1. PICK x : x = msgs[k].sender
      OBVIOUS
    <3>2. x \in Others(p) /\ new[i].sender = x
      BY <2>2, <3>1 DEF MsgOK
    <3>3. Going(p)
      BY <2>6 DEF Grows
    <3>4. \/ Has1(p, x)
          \/ \E j \in 1..k - 1 : msgs[j].type = "round1" /\ msgs[j].sender = x
      BY <1>5, <2>2, <2>6, <3>1, <3>3
    <3>5. CASE Has1(p, x)
      BY <1>3, <3>2, <3>5 DEF HasAlso
    <3>6. CASE \E j \in 1..k - 1 : msgs[j].type = "round1" /\ msgs[j].sender = x
      <4>1. PICK j \in 1..k - 1 : msgs[j].type = "round1" /\ msgs[j].sender = x
        BY <3>6
      <4>2. CASE j = 1
        BY <1>3, <3>2, <4>1, <4>2 DEF HasAlso, m
      <4>3. CASE j # 1
        <5>1. PICK l : l = j - 1
          OBVIOUS
        <5>2. l \in 1..i - 1 /\ l \in 1..n - 1 /\ l + 1 = j
          BY <1>1, <2>1, <4>3, <5>1
        <5>3. new[l] = msgs[j]
          BY <1>1, <5>2
        <5> QED
          BY <3>2, <4>1, <5>2, <5>3
      <4> QED
        BY <4>2, <4>3
    <3> QED
      BY <3>4, <3>5, <3>6
  <2> QED
    BY <2>4, <2>5, <2>6
<1>8. OrderOK(new, p)'
  BY <1>1, <1>7 DEF OrderOK, SameKind
<1>9. ASSUME NEW s \in Others(p), Arriving(msgs, s)
      PROVE  Has1(p, s)' \/ Arriving(new, s)
  <2>1. PICK i \in 1..n : msgs[i].type = "round1" /\ msgs[i].sender = s
    BY <1>9 DEF Arriving
  <2>2. CASE i = 1
    BY <1>3, <2>1, <2>2 DEF HasAlso, m
  <2>3. CASE i # 1
    <3>1. PICK l : l = i - 1
      OBVIOUS
    <3>2. l \in 1..n - 1 /\ l + 1 = i
      BY <1>1, <2>3, <3>1
    <3>3. new[l] = msgs[i]
      BY <1>1, <3>2
    <3> QED
      BY <1>1, <2>1, <3>2, <3>3 DEF Arriving
  <2> QED
    BY <2>2, <2>3
<1> QED
  BY <1>8, <1>9 DEF new

\* Where the loops go after a batch, and with what.
LEMMA AfterBatchStages ==
    ASSUME NEW p, NEW st, pc[p] \in Waiting
    PROVE  LET to == AfterBatch(p, st) IN
           \/ to = pc[p]
           \/ pc[p] = "wait1" /\ to = "sendb"
           \/ /\ pc[p] \in {"wait1", "waitb"} /\ to = "send2"
              /\ st.tag = "WaitingForRound2Packages"
           \/ /\ pc[p] = "wait2" /\ st.tag = "Round2PackagesReady"
              /\ \/ to = "close" /\ p = Creator
                 \/ to = "logout" /\ p # Creator
  BY DEF AfterBatch, HasRound1Packages, HasRound1BroadcastPackages,
         HasRound2Packages, Waiting

\* HandleOne, as far as where p goes is concerned.
LEMMA HandleOneMoves ==
    ASSUME EchoInv, CauseInv, NEW p \in Participants, HandleOne(p)
    PROVE  /\ pc[p] \in Waiting
           /\ \/ pc'[p] = pc[p]
              \/ pc[p] = "wait1" /\ pc'[p] = "sendb"
              \/ /\ pc[p] \in {"wait1", "waitb"} /\ pc'[p] = "send2"
                 /\ todo'[p] = ToAll(p)
                 /\ round1_packages'[p] = state'[p].round1
                 /\ state'[p].tag = "WaitingForRound2Packages"
              \/ /\ pc[p] = "wait2" /\ state'[p].tag = "Round2PackagesReady"
                 /\ \/ pc'[p] = "close" /\ p = Creator
                    \/ pc'[p] = "logout"
           /\ pc'[p] # "send2" => round1_packages'[p] = round1_packages[p]
           /\ todo' \in [Participants -> SUBSET (Participants \X Participants)]
           /\ \A q \in Participants : q # p =>
                 /\ pc'[q] = pc[q] /\ todo'[q] = todo[q] /\ state'[q] = state[q]
                 /\ round1_packages'[q] = round1_packages[q]
                 /\ collected'[q] = collected[q] /\ inbox'[q] = inbox[q]
           /\ inbox'[p] = Tail(inbox[p])
           /\ UNCHANGED <<session, queue, token, why, faults, published>>
<1> DEFINE st == Recv(state[p], Head(inbox[p]))
           to == IF Len(inbox[p]) = 1 THEN AfterBatch(p, st) ELSE pc[p]
<1>1. /\ pc[p] \in Waiting
      /\ inbox' = [inbox EXCEPT ![p] = Tail(@)]
      /\ state' = [state EXCEPT ![p] = st]
      /\ pc' = [pc EXCEPT ![p] = to]
      /\ todo' = [todo EXCEPT ![p] =
            IF to = "sendb" THEN ToEcho(p) ELSE IF to = "send2" THEN ToAll(p) ELSE {}]
      /\ round1_packages' = [round1_packages EXCEPT ![p] =
            IF to = "send2" THEN st.round1 ELSE @]
      /\ \E c : collected' = [collected EXCEPT ![p] = c]
      /\ UNCHANGED <<session, queue, token, why, faults, published>>
  BY DEF HandleOne
<1> HIDE DEF st
<1>2. \/ to = pc[p]
      \/ pc[p] = "wait1" /\ to = "sendb"
      \/ /\ pc[p] \in {"wait1", "waitb"} /\ to = "send2"
         /\ st.tag = "WaitingForRound2Packages"
      \/ /\ pc[p] = "wait2" /\ st.tag = "Round2PackagesReady"
         /\ \/ to = "close" /\ p = Creator
            \/ to = "logout"
  BY <1>1, AfterBatchStages
<1> HIDE DEF to
<1>3. /\ pc'[p] = to /\ state'[p] = st /\ inbox'[p] = Tail(inbox[p])
      /\ todo'[p] = IF to = "sendb" THEN ToEcho(p)
                    ELSE IF to = "send2" THEN ToAll(p) ELSE {}
      /\ round1_packages'[p] = IF to = "send2" THEN st.round1 ELSE round1_packages[p]
  BY <1>1 DEF EchoInv, Types
<1>4. /\ ToEcho(p) \subseteq Participants \X Participants
      /\ ToAll(p) \subseteq Participants \X Participants
  BY DEF ToEcho, ToAll, Others
<1>5. todo' \in [Participants -> SUBSET (Participants \X Participants)]
  BY <1>1, <1>4 DEF CauseInv, MoreTypes
<1>6. \A q \in Participants : q # p =>
         /\ pc'[q] = pc[q] /\ todo'[q] = todo[q] /\ state'[q] = state[q]
         /\ round1_packages'[q] = round1_packages[q]
         /\ collected'[q] = collected[q] /\ inbox'[q] = inbox[q]
  BY <1>1 DEF EchoInv, Types
<1>7. pc[p] # "send2"
  BY <1>1 DEF Waiting
<1> QED
  BY <1>1, <1>2, <1>3, <1>5, <1>6, <1>7

\* Going on to the next round gives nothing back.
LEMMA HandleOneGrows ==
    ASSUME EchoInv, CauseInv, NEW p \in Participants, HandleOne(p)
    PROVE  Grows /\ (pc'[p] = "send2" => Validated(p)')
<1>1. /\ pc[p] \in Waiting
      /\ \/ pc'[p] = pc[p]
         \/ pc[p] = "wait1" /\ pc'[p] = "sendb"
         \/ /\ pc[p] \in {"wait1", "waitb"} /\ pc'[p] = "send2"
            /\ round1_packages'[p] = state'[p].round1
            /\ state'[p].tag = "WaitingForRound2Packages"
         \/ pc[p] = "wait2" /\ pc'[p] \in {"close", "logout"}
      /\ pc'[p] # "send2" => round1_packages'[p] = round1_packages[p]
      /\ \A q \in Participants : q # p =>
            /\ pc'[q] = pc[q] /\ todo'[q] = todo[q]
            /\ round1_packages'[q] = round1_packages[q]
            /\ collected'[q] = collected[q]
      /\ UNCHANGED published
  BY HandleOneMoves
<1>2. ASSUME NEW s \in Participants, NEW r \in Participants
      PROVE  /\ Left1(s, r)' => Left1(s, r)
             /\ Left2(s, r)' => Left2(s, r)
             /\ \A o \in Participants : LeftB(s, r, o)' => LeftB(s, r, o)
  <2>1. CASE s = p
    BY <1>1, <2>1 DEF Left1, Left2, LeftB, Waiting
  <2>2. CASE s # p
    BY <1>1, <2>2 DEF Left1, Left2, LeftB
  <2> QED
    BY <2>1, <2>2
<1>3. ASSUME pc'[p] = "send2" PROVE Validated(p)'
  <2>1. EchoInv'
    BY HandleOneEcho
  <2>2. /\ state'[p].tag = "WaitingForRound2Packages"
        /\ round1_packages'[p] = state'[p].round1
    BY <1>1, <1>3 DEF Waiting
  <2>3. CollectedOK(p)'
    BY <2>1 DEF EchoInv
  <2>4. DOMAIN round1_packages'[p] = Others(p)
    BY <2>2, <2>3 DEF CollectedOK, Full
  <2> QED
    BY <2>4, OthersFacts DEF Validated, EmptyMap
<1>4. collected[p] # EmptyMap => collected'[p] # EmptyMap
  <2>1. PICK m, st : Accepts(p, m, st)
    BY HandleOneAccepts
  <2>2. collected[p] # EmptyMap => Full(p)
    BY DEF EchoInv, CollectedOK
  <2> QED
    BY <2>1, <2>2, AcceptSettles DEF Settled
<1>5. ASSUME NEW q \in Participants
      PROVE  /\ Validated(q) => Validated(q)'
             /\ collected[q] # EmptyMap => collected'[q] # EmptyMap
             /\ published[q] \subseteq published'[q]
             /\ Going(q)' => Going(q)
  <2>1. CASE q = p
    BY <1>1, <1>3, <1>4, <2>1 DEF Going, Running, Validated
  <2>2. CASE q # p
    BY <1>1, <2>2 DEF Going, Validated
  <2> QED
    BY <2>1, <2>2
<1>6. Over => Over'
  BY <1>1, CreatorAssumption DEF Over, Ended, Waiting
<1> QED
  BY <1>2, <1>3, <1>5, <1>6 DEF Grows

\* Everything on its way is as the echo broadcast needs it.
LEMMA PendingMsgOK ==
    ASSUME EchoInv, NEW r \in Participants
    PROVE  \A i \in 1..Len(Pending(r)) : MsgOK(Pending(r)[i], r)
<1> DEFINE a == Len(inbox[r])
           b == Len(queue[r])
           c == Pending(r)
<1>1. /\ a \in Nat /\ b \in Nat /\ Len(c) = a + b
      /\ \A i \in 1..a : c[i] = inbox[r][i]
      /\ \A i \in 1..b : c[a + i] = queue[r][i]
  BY PendingFacts DEF EchoInv
<1>2. DOMAIN inbox[r] = 1..a /\ DOMAIN queue[r] = 1..b
  BY LenProperties DEF EchoInv, Types
<1>3. /\ \A i \in 1..a : MsgOK(inbox[r][i], r)
      /\ \A i \in 1..b : MsgOK(queue[r][i], r)
  BY <1>2 DEF EchoInv, MessagesOK
<1> HIDE DEF a, b, c
<1>4. ASSUME NEW i \in 1..a + b PROVE MsgOK(c[i], r)
  <2>1. CASE i <= a
    BY <1>1, <1>3, <2>1
  <2>2. CASE ~(i <= a)
    <3>1. PICK k : k = i - a
      OBVIOUS
    <3>2. k \in 1..b /\ a + k = i
      BY <1>1, <2>2, <3>1
    <3> QED
      BY <1>1, <1>3, <3>2
  <2> QED
    BY <2>1, <2>2
<1>5. \A i \in 1..Len(c) : MsgOK(c[i], r)
  BY <1>1, <1>4
<1> QED
  BY <1>5 DEF c

\* What is on its way to p, and to the others, when p handles a message.
LEMMA HandleOnePending ==
    ASSUME EchoInv, CauseInv, NEW p \in Participants, HandleOne(p)
    PROVE  /\ Pending(p)' = Tail(Pending(p))
           /\ \A q \in Participants : q # p => Pending(q)' = Pending(q)
<1>1. /\ inbox'[p] = Tail(inbox[p]) /\ queue' = queue
      /\ \A q \in Participants : q # p => inbox'[q] = inbox[q]
  BY HandleOneMoves
<1>2. /\ inbox[p] \in Seq(Message) /\ queue[p] \in Seq(Message)
      /\ inbox[p] # <<>>
  BY DEF EchoInv, Types, HandleOne
<1>3. \A a, b \in Seq(Message) : a # <<>> => Tail(a) \o b = Tail(a \o b)
  OBVIOUS
<1>4. Pending(p)' = Tail(Pending(p))
  BY <1>1, <1>2, <1>3 DEF Pending
<1> QED
  BY <1>1, <1>4 DEF Pending

\* An accepted message preserves the invariant.
LEMMA HandleOneCause ==
    ASSUME EchoInv, CauseInv, NEW p \in Participants, HandleOne(p)
    PROVE  CauseInv'
<1>1. /\ pc[p] \in Waiting
      /\ \/ pc'[p] = pc[p]
         \/ pc[p] = "wait1" /\ pc'[p] = "sendb"
         \/ /\ pc[p] \in {"wait1", "waitb"} /\ pc'[p] = "send2"
            /\ todo'[p] = ToAll(p)
            /\ round1_packages'[p] = state'[p].round1
            /\ state'[p].tag = "WaitingForRound2Packages"
         \/ /\ pc[p] = "wait2" /\ state'[p].tag = "Round2PackagesReady"
            /\ \/ pc'[p] = "close" /\ p = Creator
               \/ pc'[p] = "logout"
      /\ pc'[p] # "send2" => round1_packages'[p] = round1_packages[p]
      /\ todo' \in [Participants -> SUBSET (Participants \X Participants)]
      /\ \A q \in Participants : q # p =>
            /\ pc'[q] = pc[q] /\ todo'[q] = todo[q] /\ state'[q] = state[q]
            /\ round1_packages'[q] = round1_packages[q]
            /\ collected'[q] = collected[q] /\ inbox'[q] = inbox[q]
      /\ UNCHANGED <<session, queue, token, why, faults, published>>
  BY HandleOneMoves
<1>2. Grows /\ EchoInv'
  BY HandleOneGrows, HandleOneEcho
<1>3. PICK m, st : Accepts(p, m, st)
  BY HandleOneAccepts
<1>4. PICK msgs : msgs = Pending(p)
  OBVIOUS
<1>5. /\ m = msgs[1] /\ PendingOK(m, p) /\ Len(msgs) \in Nat \ {0}
      /\ m \in Message /\ m.sender \in Others(p)
      /\ m.type = "broadcast" => m.original \in Others(p) \ {m.sender}
  BY <1>1, <1>3, <1>4, NextMessage DEF Accepts, MsgOK, PendingOK, Others
<1>6. HasAlso(p, m) /\ StoredOK(p)'
  BY <1>2, <1>3, <1>5, TakeMessage
<1>7. /\ msgs \in Seq(Message) /\ OrderOK(msgs, p)
      /\ \A i \in 1..Len(msgs) : MsgOK(msgs[i], p)
  BY <1>4, PendingFacts, PendingMsgOK DEF EchoInv, CauseInv
<1>8. /\ OrderOK(Tail(msgs), p)'
      /\ \A s \in Others(p) : Arriving(msgs, s) =>
            Has1(p, s)' \/ Arriving(Tail(msgs), s)
  BY <1>2, <1>5, <1>6, <1>7, OrderOfTail
<1>9. /\ Pending(p)' = Tail(msgs)
      /\ \A q \in Participants : q # p => Pending(q)' = Pending(q)
  BY <1>4, HandleOnePending
<1>10. ASSUME NEW r \in Participants PROVE OrderOK(Pending(r), r)'
  <2>1. CASE r = p
    BY <1>8, <1>9, <2>1
  <2>2. CASE r # p
    <3>1. PICK rest : rest = Pending(r)
      OBVIOUS
    <3>2. rest \in Seq(Message) /\ OrderOK(rest, r) /\ UNCHANGED state[r]
      BY <1>1, <2>2, <3>1, PendingFacts DEF EchoInv, CauseInv
    <3>3. OrderOK(rest, r)'
      BY <1>2, <3>2, OrderKept
    <3> QED
      BY <1>9, <2>2, <3>1, <3>3
  <2> QED
    BY <2>1, <2>2
<1>11. ASSUME NEW q \in Participants, q # p
       PROVE  SentOK(q)' /\ StoredOK(q)' /\ StageOK(q)'
  <2>1. Idle(q)
    BY <1>1, <1>11 DEF Idle
  <2> QED
    BY <1>1, <1>2, <2>1, IdleKept
<1>12. \A q \in Participants : PublishedOK(q)'
  BY <1>1 DEF CauseInv, PublishedOK
<1>13. StageOK(p) /\ why[p] = ""
  BY <1>1 DEF CauseInv, StageOK, Waiting
<1>14. ASSUME NEW q \in Participants PROVE Justified(q)'
  <2>1. CASE q = p
    BY <1>1, <1>13, <2>1 DEF Justified
  <2>2. CASE q # p
    BY <1>1, <1>2, <1>12, <2>2, JustifiedKept
  <2> QED
    BY <2>1, <2>2
<1>15. SentOK(p)'
  <2>1. SentOK(p) /\ Others(p) \subseteq Participants
    BY DEF CauseInv, Others
  <2>2. /\ m.type = "round1" => ~Left1(m.sender, p)
        /\ m.type = "broadcast" => ~LeftB(m.sender, p, m.original)
        /\ m.type = "round2" => ~Left2(m.sender, p)
    BY <1>5 DEF PendingOK
  <2>3. ASSUME NEW s \in Others(p)
        PROVE  /\ Has1(p, s)' => ~Left1(s, p)
               /\ \A o \in Others(p) \ {s} : HasB(p, s, o)' => ~LeftB(s, p, o)
               /\ Has2(p, s)' => ~Left2(s, p)
    BY <1>6, <2>1, <2>2 DEF HasAlso, SentOK
  <2> QED
    BY <1>2, <2>1, <2>3 DEF SentOK, Grows
<1>16. StageOK(p)'
  <2>1. /\ Validated(p) => Validated(p)'
        /\ pc'[p] = "send2" => Validated(p)'
    BY <1>2, HandleOneGrows DEF Grows
  <2>2. session' # "none" /\ why'[p] = ""
    BY <1>1, <1>13 DEF StageOK, Waiting
  <2> QED
    BY <1>1, <1>13, <2>1, <2>2 DEF StageOK, Waiting
<1>17. ASSUME NEW r \in Participants PROVE ComingOK(r)'
  <2> SUFFICES ASSUME session' = "open", Going(r)', NEW s \in Others(r),
                      pc'[s] \in Sending \cup Waiting, ~Left1(s, r)'
               PROVE  Has1(r, s)' \/ Arriving(Pending(r)', s)
    BY DEF ComingOK, Arriving
  <2>1. s \in Participants /\ session = "open" /\ Going(r) /\ ComingOK(r)
    BY <1>1, <1>2 DEF Others, Grows, CauseInv
  <2>2. pc[s] \in Sending \cup Waiting /\ ~Left1(s, r)
    BY <1>1, <2>1 DEF Left1, Waiting
  <2>3. Has1(r, s) \/ Arriving(Pending(r), s)
    BY <2>1, <2>2 DEF ComingOK
  <2>4. CASE r = p
    <3>1. Has1(p, s) => Has1(p, s)'
      BY <1>6, <2>4 DEF HasAlso
    <3> QED
      BY <1>4, <1>8, <1>9, <2>3, <2>4, <3>1
  <2>5. CASE r # p
    <3>1. Has1(r, s) => Has1(r, s)'
      BY <1>1, <2>5 DEF Has1
    <3> QED
      BY <1>9, <2>3, <2>5, <3>1
  <2> QED
    BY <2>4, <2>5
<1>18. MoreTypes'
  <2>1. ASSUME NEW q \in Participants
        PROVE  IsMap(round1_packages'[q], Participants, Round1Package)
    <3>1. CASE q = p /\ pc'[p] = "send2"
      BY <1>1, <1>2, <3>1 DEF EchoInv, Types, IsDKGSessionState, Waiting
    <3>2. CASE ~(q = p /\ pc'[p] = "send2")
      BY <1>1, <3>2 DEF CauseInv, MoreTypes
    <3> QED
      BY <3>1, <3>2
  <2> QED
    BY <1>1, <2>1 DEF CauseInv, MoreTypes
<1>19. session' = "closed" => Over'
  BY <1>1, <1>2 DEF CauseInv, Grows
<1> QED
  BY <1>6, <1>10, <1>11, <1>12, <1>14, <1>15, <1>16, <1>17, <1>18, <1>19
  DEF CauseInv

-----------------------------------------------------------------------------

\* Init has the invariant.
LEMMA InitCause == Init => CauseInv
<1> SUFFICES ASSUME Init PROVE CauseInv
  OBVIOUS
<1>1. DOMAIN EmptyMap = {} /\ \A K, V : IsMap(EmptyMap, K, V)
  BY DEF EmptyMap, IsMap
<1>2. MaxFaults \in Nat /\ Creator \in Participants
  BY RolesAssumption, CreatorAssumption
<1>3. MoreTypes
  <2>1. /\ session \in {"none", "open", "closed"}
        /\ token \in [Participants -> BOOLEAN]
        /\ todo \in [Participants -> SUBSET (Participants \X Participants)]
        /\ published \in [Participants -> SUBSET Versions]
    BY DEF Init
  <2>2. why \in [Participants -> Reasons] /\ faults \in 0..MaxFaults
    <3>1. "" \in Reasons /\ 0 \in 0..MaxFaults
      BY <1>2 DEF Reasons
    <3> QED
      BY <3>1 DEF Init
  <2>3. \A p \in Participants : IsMap(round1_packages[p], Participants, Round1Package)
    BY <1>1 DEF Init
  <2> QED
    BY <2>1, <2>2, <2>3 DEF MoreTypes
<1>4. /\ session = "none"
      /\ \A q \in Participants :
            /\ pc[q] = "start" /\ todo[q] = {} /\ why[q] = ""
            /\ state[q] = Default /\ published[q] = {}
            /\ collected[q] = EmptyMap /\ inbox[q] = <<>> /\ queue[q] = <<>>
  BY DEF Init
<1>5. /\ Default.tag = "WaitingForRound1Packages"
      /\ Default.round1 = EmptyMap /\ Default.echoed = EmptyMap
      /\ Default.round2 = EmptyMap
  BY DEF Default
<1>6. ASSUME NEW p \in Participants
      PROVE  /\ OrderOK(Pending(p), p) /\ SentOK(p) /\ ComingOK(p)
             /\ PublishedOK(p) /\ StoredOK(p) /\ StageOK(p) /\ Justified(p)
  <2>1. Len(Pending(p)) = 0
    <3>1. <<>> \in Seq(Message) /\ <<>> \o <<>> = <<>> /\ Len(<<>>) = 0
      OBVIOUS
    <3> QED
      BY <1>4, <3>1 DEF Pending
  <2>2. OrderOK(Pending(p), p)
    BY <2>1 DEF OrderOK
  <2>3. SentOK(p)
    BY <1>1, <1>4, <1>5 DEF SentOK, Has1, HasB, Has2
  <2>4. ComingOK(p)
    BY <1>4 DEF ComingOK
  <2>5. PublishedOK(p)
    BY <1>4, FS_EmptySet DEF PublishedOK
  <2>6. StoredOK(p)
    BY <1>1, <1>4, <1>5, OthersFacts DEF StoredOK
  <2>7. StageOK(p) /\ Justified(p)
    BY <1>4 DEF StageOK, Justified
  <2> QED
    BY <2>2, <2>3, <2>4, <2>5, <2>6, <2>7
<1> QED
  BY <1>3, <1>4, <1>6 DEF CauseInv

\* Every step preserves the invariant.
LEMMA NextCause == EchoInv /\ CauseInv /\ [Next]_vars => CauseInv'
<1> SUFFICES ASSUME EchoInv, CauseInv, [Next]_vars PROVE CauseInv'
  OBVIOUS
<1>1. CASE UNCHANGED vars
  BY <1>1, StillCause
<1>2. ASSUME NEW p \in Participants, Step(p) PROVE CauseInv'
  <2>1. CASE Send(p)
    BY <2>1, SendOneCause DEF Send
  <2>2. CASE Receive(p)
    BY <2>2, ReceiveCause
  <2>3. CASE HandleOne(p)
    BY <2>3, HandleOneCause
  <2>4. CASE HandleFails(p)
    BY <2>4, HandleFailsCause
  <2>5. CASE CallFails(p)
    BY <2>5, CallFailsCause
  <2>6. CASE LogoutAndFinish(p)
    BY <2>6, LogoutCause
  <2>7. CASE Cleanup(p) \/ Close(p)
    BY <2>7, FaultlessEnds
  <2> QED
    BY <1>2, <2>1, <2>2, <2>3, <2>4, <2>5, <2>6, <2>7 DEF Step
<1>3. ASSUME NEW p \in Participants, Create(p) \/ Join(p) PROVE CauseInv'
  BY <1>3, EnterCause
<1>4. ASSUME NEW p \in Participants, TokenExpires(p) PROVE CauseInv'
  BY <1>4, StillCause
<1>5. ASSUME NEW p \in Participants, Fault(p) \/ Crash(p) PROVE CauseInv'
  BY <1>5, FaultlessEnds
<1>6. CASE Next
  BY <1>1, <1>2, <1>3, <1>4, <1>5, <1>6 DEF Next, JoinFails, Finished
<1> QED
  BY <1>1, <1>6

\* Both invariants together.
LEMMA InvariantsHold == Spec => [](EchoInv /\ CauseInv)
<1>1. Init => EchoInv /\ CauseInv
  BY InitEcho, InitCause
<1>2. EchoInv /\ CauseInv /\ [Next]_vars => (EchoInv /\ CauseInv)'
  BY NextEcho, NextCause
<1> QED
  BY <1>1, <1>2, PTL DEF Spec

\* Every variable of the DKG stays in its type: where each run is, its
\* DKGSessionState and its maps, what is queued, and why it ended; and a state
\* holds what its stage says: the Round 1 Packages of all the others and none of
\* its own once handle_round1_package has counted enough of them, and likewise
\* for the Round 2 Packages.
THEOREM DKGTypesAreCorrect == Spec => []TypeOK
<1>1. ASSUME EchoInv, CauseInv, NEW p \in Participants
      PROVE  StageFits(p)
  <2>1. CollectedOK(p) /\ EchoedOK(p) /\ StoredOK(p)
    BY <1>1 DEF EchoInv, CauseInv
  <2>2. DOMAIN state[p].round2 \subseteq Others(p)
    BY <2>1 DEF StoredOK
  <2>3. state[p].tag = "WaitingForRound1PackagesBroadcast" =>
           \A k \in DOMAIN state[p].echoed :
               k \in Others(p) \X Others(p) /\ k[1] # k[2]
    BY <2>1 DEF EchoedOK, EchoOK
  <2> QED
    BY <2>1, <2>2, <2>3 DEF StageFits, CollectedOK, StoredOK, Full
<1>2. EchoInv /\ CauseInv => TypeOK
  BY <1>1 DEF EchoInv, Types, CauseInv, MoreTypes, TypeOK
<1> QED
  BY <1>2, InvariantsHold, PTL

\* A participant that has its key share (dkg::part3 succeeded) has it from
\* shares made for it by each of the others, and only once every one of them
\* has passed get_round1_packages.
THEOREM KeysFollowValidation == Spec => []KeyOnlyAfterAllValidated
<1>1. ASSUME EchoInv, CauseInv PROVE KeyOnlyAfterAllValidated
  <2> SUFFICES ASSUME NEW p \in Participants, pc[p] = "done", NEW q \in Others(p)
               PROVE  /\ Validated(q)
                      /\ state[p].round2[q].from = q
                      /\ state[p].round2[q].to = p
    BY DEF KeyOnlyAfterAllValidated
  <2>1. StoredOK(p) /\ StageOK(p)
    BY <1>1 DEF CauseInv
  <2>2. q \in DOMAIN state[p].round2
    BY <2>1 DEF StoredOK, StageOK
  <2> QED
    BY <2>1, <2>2 DEF StoredOK, PublishedBy
<1> QED
  BY <1>1, InvariantsHold, PTL

\* Whatever the order in which messages are sent, queued and handled, whoever
\* fails and whoever lies: a run of the DKG that ends with an error has a cause
\* for it outside itself, and blames packages that differ only if somebody sent
\* packages that differ.
THEOREM NobodyIsAccusedWithoutCause == Spec => []NoFalseAccusation
<1>1. CauseInv => NoFalseAccusation
  BY DEF CauseInv, Justified, NoFalseAccusation, Over
<1> QED
  BY <1>1, InvariantsHold, PTL

=============================================================================
