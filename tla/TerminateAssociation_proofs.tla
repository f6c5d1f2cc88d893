-------------------- MODULE TerminateAssociation_proofs ---------------------
(***************************************************************************)
(* The server of TerminateAssociation never reads a message while assoInfo *)
(* is null, whatever number of clients come, send, leave and abort: a      *)
(* message always has a COMM_UP before it, read or still queued.           *)
(***************************************************************************)
EXTENDS TerminateAssociation, SequenceTheorems, TLAPS

USE DEF terminals, kernel, None

Announces(i) == rq[i].kind = "UP"

\* What the server will have read before a queued message.
DataAfterUp ==
    \A i \in DOMAIN rq :
        rq[i].kind = "DATA" =>
            \/ assoInfo # NoInfo
            \/ \E j \in 1 .. (i - 1) : Announces(j)

\* Only what was announced is associated.
UpAnnounced ==
    up # {} => assoInfo # NoInfo \/ \E j \in DOMAIN rq : Announces(j)

\* SendMsg of the server has a client to send to.
TypesToSomebody == state[Server] = "typing" => assoInfo # NoInfo

UpInv == DataAfterUp /\ UpAnnounced /\ TypesToSomebody /\ NoNullDereference

Inv == TypeOK /\ UpInv

LEMMA EventType ==
    ASSUME NEW c \in Clients,
           NEW kind \in {"UP", "DATA", "SHUTDOWN", "LOST", "CANT"}
    PROVE  /\ Ev(kind, c) \in Event
           /\ Ev(kind, c).kind = kind
BY DEF Ev, Event

-----------------------------------------------------------------------------
(* Types.                                                                  *)

LEMMA TypeInit == Init => TypeOK
<1>1. <<>> \in Seq(Event)
  BY EmptySeq
<1>2. QED
  <2> SUFFICES ASSUME Init PROVE TypeOK
    OBVIOUS
  <2>1. /\ rq \in Seq(Event) /\ cq \in [Clients -> Seq(Event)]
        /\ sent \in [Clients -> Nat] /\ typed \in [Procs -> Nat]
    BY <1>1 DEF Init
  <2>2. /\ state \in [Procs -> {"polling", "choosing", "typing", "ended",
                                "crashed"}]
        /\ line \in [Procs -> Lines \union {None}]
        /\ cin \in [Procs -> BOOLEAN]
    BY DEF Init
  <2>3. QED
    BY <2>1, <2>2 DEF Init, TypeOK

LEMMA ToClientType ==
    ASSUME TypeOK, NEW c \in Clients,
           NEW kind \in {"UP", "DATA", "SHUTDOWN", "LOST", "CANT"},
           ToClient(c, kind)
    PROVE  cq' \in [Clients -> Seq(Event)]
<1>1. Append(cq[c], Ev(kind, c)) \in Seq(Event)
  BY EventType, AppendProperties DEF TypeOK
<1>2. QED
  BY <1>1 DEF ToClient, TypeOK

LEMMA AppendType ==
    ASSUME TypeOK, NEW c \in Clients,
           NEW kind \in {"UP", "DATA", "SHUTDOWN", "LOST", "CANT"}
    PROVE  Append(rq, Ev(kind, c)) \in Seq(Event)
BY EventType, AppendProperties DEF TypeOK

LEMMA TypesType ==
    ASSUME TypeOK, NEW p \in Procs, Types(p)
    PROVE  TypeOK'
<1>1. /\ typed[p] \in Nat
      /\ typed' = [typed EXCEPT ![p] = typed[p] + 1]
  BY DEF Types, TypeOK
<1>2. typed' \in [Procs -> Nat]
  <2>1. typed[p] + 1 \in Nat
    BY <1>1
  <2>2. QED
    BY <1>1, <2>1 DEF TypeOK
<1>3. PICK l \in Lines : line' = [line EXCEPT ![p] = l]
  BY DEF Types, Lines
<1>4. line' \in [Procs -> Lines \union {None}]
  BY <1>3 DEF TypeOK
<1>5. QED
  BY <1>2, <1>4 DEF Types, TypeOK

LEMMA SctpType ==
    ASSUME TypeOK, NEW c \in Clients, Sctp(c)
    PROVE  TypeOK'
<1>1. CASE Associates(c)
  BY <1>1, ToClientType, AppendType DEF Associates, TypeOK
<1>2. CASE Refused(c)
  BY <1>2, ToClientType DEF Refused, TypeOK
<1>3. CASE Arrives(c)
  <2>1. sent[c] - 1 \in Nat
    <3>1. sent[c] \in Nat /\ sent[c] > 0
      BY <1>3 DEF Arrives, TypeOK
    <3>2. QED
      BY <3>1
  <2>2. sent' \in [Clients -> Nat]
    BY <1>3, <2>1 DEF Arrives, TypeOK
  <2>3. rq' \in Seq(Event)
    BY <1>3, AppendType DEF Arrives
  <2>4. QED
    BY <1>3, <2>2, <2>3 DEF Arrives, TypeOK
<1>4. CASE ShutsDown(c)
  BY <1>4, ToClientType, AppendType DEF ShutsDown, TypeOK
<1>5. QED
  BY <1>1, <1>2, <1>3, <1>4 DEF Sctp

LEMMA ServerType ==
    ASSUME TypeOK, TypesToSomebody, ServerStep
    PROVE  TypeOK'
<1>1. CASE ServerReads
  <2>1. Head(rq) \in Event /\ Tail(rq) \in Seq(Event)
    BY <1>1, HeadTailProperties DEF ServerReads, TypeOK
  <2>2. QED
    BY <1>1, <2>1 DEF ServerReads, Goes, TypeOK, Event, Procs
<1>2. CASE ServerCommand
  <2>1. CASE line[Server] = "0"
    <3>1. \A c \in Clients :
              Append(cq[c], Ev("SHUTDOWN", c)) \in Seq(Event)
      BY EventType, AppendProperties DEF TypeOK
    <3>2. /\ ServerCloses /\ Reads(Server) /\ Goes(Server, "ended")
          /\ UNCHANGED <<rq, cin, assoInfo>>
      BY <1>2, <2>1 DEF ServerCommand
    <3>3. cq' \in [Clients -> Seq(Event)]
      BY <3>1, <3>2 DEF ServerCloses, TypeOK
    <3>4. sent' \in [Clients -> Nat]
      BY <3>2 DEF ServerCloses, TypeOK
    <3>5. QED
      BY <3>2, <3>3, <3>4 DEF ServerCloses, Goes, Reads, TypeOK, Procs
  <2>2. CASE line[Server] # "0"
    BY <1>2, <2>2 DEF ServerCommand, Goes, Reads, TypeOK, Procs
  <2>3. QED
    BY <2>1, <2>2
<1>3. CASE ServerSends
  <2>1. assoInfo \in Clients
    BY <1>3 DEF ServerSends, TypesToSomebody, TypeOK
  <2>2. rq' \in Seq(Event) /\ cq' \in [Clients -> Seq(Event)]
    BY <1>3, <2>1, ToClientType, AppendType DEF ServerSends, TypeOK
  <2>3. QED
    BY <1>3, <2>2 DEF ServerSends, Goes, Reads, TypeOK, Procs
<1>4. QED
  BY <1>1, <1>2, <1>3 DEF ServerStep

LEMMA ClientType ==
    ASSUME TypeOK, NEW c \in Clients, ClientStep(c)
    PROVE  TypeOK'
<1>1. c \in Procs
  BY DEF Procs
<1>2. Tail(cq[c]) \in Seq(Event) \/ cq[c] = <<>>
  BY HeadTailProperties DEF TypeOK
<1>3. ASSUME SendsMessages(c)
      PROVE  /\ rq' \in Seq(Event) /\ cq' \in [Clients -> Seq(Event)]
             /\ up' \subseteq Clients /\ closing' \subseteq Clients
             /\ sent' \in [Clients -> Nat]
  <2>1. sent[c] + Burst \in Nat /\ sent[c] \in Nat
    <3>1. sent[c] \in Nat /\ Burst \in Nat
      BY AssociationAssumption DEF TypeOK
    <3>2. QED
      BY <3>1
  <2>2. sent' \in [Clients -> Nat]
    BY <1>3, <2>1 DEF SendsMessages, TypeOK
  <2>3. QED
    BY <1>3, <2>2 DEF SendsMessages, TypeOK
<1>4. ASSUME SendsAbort(c)
      PROVE  /\ rq' \in Seq(Event) /\ cq' \in [Clients -> Seq(Event)]
             /\ up' \subseteq Clients /\ closing' \subseteq Clients
             /\ sent' \in [Clients -> Nat]
  BY <1>4, ToClientType, AppendType DEF SendsAbort, TypeOK
<1>5. ASSUME SendsEof(c)
      PROVE  /\ rq' \in Seq(Event) /\ cq' \in [Clients -> Seq(Event)]
             /\ up' \subseteq Clients /\ closing' \subseteq Clients
             /\ sent' \in [Clients -> Nat]
  BY <1>5 DEF SendsEof, TypeOK
<1>6. CASE ClientReads(c)
  BY <1>2, <1>6 DEF ClientReads, TypeOK
<1>7. CASE ClientCommand(c)
  BY <1>1, <1>7 DEF ClientCommand, Goes, Reads, TypeOK
<1>8. CASE ClientChooses(c)
  <2>1. /\ line' \in [Procs -> Lines \union {None}]
        /\ typed' \in [Procs -> Nat] /\ cin' \in [Procs -> BOOLEAN]
        /\ assoInfo' = assoInfo
    BY <1>1, <1>8 DEF ClientChooses, Reads, TypeOK
  <2>2. state' \in [Procs -> {"polling", "choosing", "typing", "ended",
                              "crashed"}]
    BY <1>1, <1>8 DEF ClientChooses, Goes, TypeOK
  <2>3. SendsAbort(c) \/ SendsMessages(c) \/ SendsEof(c) \/ UNCHANGED kernel
    BY <1>8 DEF ClientChooses
  <2>4. QED
    BY <1>3, <1>4, <1>5, <2>1, <2>2, <2>3 DEF TypeOK
<1>9. CASE ClientSends(c)
  BY <1>1, <1>3, <1>9 DEF ClientSends, Goes, Reads, TypeOK
<1>10. QED
  BY <1>6, <1>7, <1>8, <1>9 DEF ClientStep

-----------------------------------------------------------------------------
(* UpInv is inductive.                                                     *)

\* Nothing UpInv speaks of is disturbed but what is at the end of the queue:
\* an event that is no message may join, a message only of a client that is
\* associated; clients may leave, or come with an announcement.
LEMMA QueueGrows ==
    ASSUME TypeOK, UpInv,
           assoInfo' = assoInfo,
           state'[Server] = "typing" => assoInfo # NoInfo,
           state'[Server] # "crashed",
           \/ rq' = rq /\ up' \subseteq up
           \/ \E e \in Event :
                 /\ rq' = Append(rq, e)
                 /\ e.kind = "DATA" => up # {}
                 /\ up' \subseteq up \/ e.kind = "UP"
    PROVE  UpInv'
<1>1. TypesToSomebody' /\ NoNullDereference'
  BY DEF TypesToSomebody, NoNullDereference
<1>2. CASE rq' = rq /\ up' \subseteq up
  BY <1>1, <1>2 DEF UpInv, DataAfterUp, UpAnnounced, Announces
<1>3. ASSUME NEW e \in Event,
             rq' = Append(rq, e),
             e.kind = "DATA" => up # {},
             up' \subseteq up \/ e.kind = "UP"
      PROVE  UpInv'
  <2>1. /\ Len(rq) \in Nat
        /\ DOMAIN rq = 1 .. Len(rq)
        /\ DOMAIN rq' = 1 .. (Len(rq) + 1)
        /\ \A i \in DOMAIN rq : rq'[i] = rq[i]
        /\ rq'[Len(rq) + 1] = e
    <3>1. rq \in Seq(Event) /\ rq' = Append(rq, e) /\ rq' \in Seq(Event)
      BY <1>3, AppendProperties DEF TypeOK
    <3>2. /\ Len(rq) \in Nat /\ DOMAIN rq = 1 .. Len(rq)
          /\ Len(rq') = Len(rq) + 1 /\ DOMAIN rq' = 1 .. Len(rq')
      BY <3>1, AppendProperties, LenProperties
    <3>3. /\ \A i \in 1 .. Len(rq) : rq'[i] = rq[i]
          /\ rq'[Len(rq) + 1] = e
      BY <3>1, AppendProperties
    <3>4. QED
      BY <3>2, <3>3
  <2>2. DataAfterUp'
    <3> SUFFICES ASSUME NEW i \in DOMAIN rq', rq'[i].kind = "DATA",
                        assoInfo = NoInfo
                 PROVE  \E j \in 1 .. (i - 1) : rq'[j].kind = "UP"
      BY DEF DataAfterUp, Announces
    <3>1. CASE i \in DOMAIN rq
      <4>1. rq[i].kind = "DATA"
        BY <2>1, <3>1
      <4>2. PICK j \in 1 .. (i - 1) : rq[j].kind = "UP"
        BY <3>1, <4>1 DEF UpInv, DataAfterUp, Announces
      <4>3. j \in DOMAIN rq
        BY <2>1, <3>1
      <4>4. QED
        BY <2>1, <4>2, <4>3
    <3>2. CASE i = Len(rq) + 1
      <4>1. up # {}
        BY <1>3, <2>1, <3>2
      <4>2. PICK j \in DOMAIN rq : rq[j].kind = "UP"
        BY <4>1 DEF UpInv, UpAnnounced, Announces
      <4>3. j \in 1 .. (i - 1)
        BY <2>1, <3>2
      <4>4. QED
        BY <2>1, <4>2, <4>3
    <3>3. QED
      BY <2>1, <3>1, <3>2
  <2>3. UpAnnounced'
    <3> SUFFICES ASSUME up' # {}, assoInfo = NoInfo
                 PROVE  \E j \in DOMAIN rq' : rq'[j].kind = "UP"
      BY DEF UpAnnounced, Announces
    <3>1. CASE e.kind = "UP"
      BY <2>1, <3>1
    <3>2. CASE up' \subseteq up
      <4>1. PICK j \in DOMAIN rq : rq[j].kind = "UP"
        BY <3>2 DEF UpInv, UpAnnounced, Announces
      <4>2. QED
        BY <2>1, <4>1
    <3>3. QED
      BY <1>3, <3>1, <3>2
  <2>4. QED
    BY <1>1, <2>2, <2>3 DEF UpInv
<1>4. QED
  BY <1>2, <1>3

\* An action of another process leaves the server where it is.
LEMMA ServerStays ==
    ASSUME TypeOK, UpInv, UNCHANGED state
    PROVE  /\ state'[Server] = "typing" => assoInfo # NoInfo
           /\ state'[Server] # "crashed"
BY DEF UpInv, TypesToSomebody, NoNullDereference

LEMMA SctpUp ==
    ASSUME TypeOK, UpInv, NEW c \in Clients, Sctp(c)
    PROVE  UpInv'
<1> USE ServerStays
<1>1. CASE Associates(c)
  BY <1>1, EventType, QueueGrows DEF Associates
<1>2. CASE Refused(c)
  BY <1>2, QueueGrows DEF Refused
<1>3. CASE Arrives(c)
  BY <1>3, EventType, QueueGrows DEF Arrives
<1>4. CASE ShutsDown(c)
  <2>1. Ev("SHUTDOWN", c) \in Event /\ Ev("SHUTDOWN", c).kind # "DATA"
    BY EventType
  <2>2. QED
    BY <1>4, <2>1, QueueGrows DEF ShutsDown
<1>5. QED
  BY <1>1, <1>2, <1>3, <1>4 DEF Sctp

LEMMA ClientUp ==
    ASSUME TypeOK, UpInv, NEW c \in Clients, ClientStep(c)
    PROVE  UpInv'
<1>1. /\ \E s : state' = [state EXCEPT ![c] = s] \/ state' = state
      /\ assoInfo' = assoInfo
  BY DEF ClientStep, ClientReads, ClientCommand, ClientChooses, ClientSends,
         Goes
<1>2. /\ state'[Server] = "typing" => assoInfo # NoInfo
      /\ state'[Server] # "crashed"
  BY <1>1, AssociationAssumption
     DEF UpInv, TypesToSomebody, NoNullDereference, TypeOK, Procs
<1>3. Ev("LOST", c) \in Event /\ Ev("LOST", c).kind # "DATA"
  BY EventType
<1>4. \/ rq' = rq
      \/ rq' = Append(rq, Ev("LOST", c))
  BY DEF ClientStep, ClientReads, ClientCommand, ClientChooses, ClientSends,
         SendsMessages, SendsAbort, SendsEof
<1>5. up' \subseteq up
  BY DEF ClientStep, ClientReads, ClientCommand, ClientChooses, ClientSends,
         SendsMessages, SendsAbort, SendsEof
<1>6. QED
  BY <1>1, <1>2, <1>3, <1>4, <1>5, QueueGrows

LEMMA ServerUp ==
    ASSUME TypeOK, UpInv, ServerStep
    PROVE  UpInv'
<1>1. Server \in Procs
  BY DEF Procs
<1>2. CASE ServerReads
  <2>1. /\ rq # <<>> /\ rq' = Tail(rq) /\ up' = up
        /\ assoInfo' = IF Head(rq).kind = "UP" THEN Head(rq).from
                       ELSE assoInfo
        /\ IF Head(rq).kind = "DATA" /\ assoInfo = NoInfo
           THEN Goes(Server, "crashed") ELSE UNCHANGED state
        /\ state[Server] = "polling"
    BY <1>2 DEF ServerReads
  <2>2. /\ Len(rq) \in Nat /\ Len(rq) # 0
        /\ DOMAIN rq = 1 .. Len(rq) /\ DOMAIN rq' = 1 .. (Len(rq) - 1)
        /\ \A i \in DOMAIN rq' : rq'[i] = rq[i + 1]
        /\ Head(rq) = rq[1] /\ rq[1] \in Event
    <3>1. rq \in Seq(Event) /\ rq # <<>>
      BY <2>1 DEF TypeOK
    <3>2. /\ Head(rq) \in Event /\ Tail(rq) \in Seq(Event)
          /\ Len(rq) \in Nat /\ Len(rq) # 0
          /\ Len(Tail(rq)) = Len(rq) - 1
          /\ \A i \in 1 .. Len(Tail(rq)) : Tail(rq)[i] = rq[i + 1]
          /\ Head(rq) = rq[1]
      BY <3>1, HeadTailProperties, LenProperties, EmptySeq
    <3>3. /\ DOMAIN rq = 1 .. Len(rq)
          /\ DOMAIN Tail(rq) = 1 .. Len(Tail(rq))
      BY <3>1, <3>2, LenProperties
    <3>4. QED
      BY <2>1, <3>2, <3>3
  <2>3. Head(rq).from # NoInfo
    BY <2>2, AssociationAssumption DEF Event
  \* The first of the queue has nothing before it, so it is no message unless
  \* assoInfo is there.
  <2>4. ~(Head(rq).kind = "DATA" /\ assoInfo = NoInfo)
    <3> SUFFICES ASSUME rq[1].kind = "DATA", assoInfo = NoInfo PROVE FALSE
      BY <2>2
    <3>1. \E j \in 1 .. (1 - 1) : Announces(j)
      BY <2>2 DEF UpInv, DataAfterUp
    <3>2. QED
      BY <3>1
  <2>5. TypesToSomebody' /\ NoNullDereference'
    BY <2>1, <2>4 DEF TypesToSomebody, NoNullDereference
  <2>6. CASE assoInfo' # NoInfo
    BY <2>5, <2>6 DEF UpInv, DataAfterUp, UpAnnounced
  <2>7. CASE assoInfo' = NoInfo
    <3>1. assoInfo = NoInfo /\ rq[1].kind # "UP"
      BY <2>1, <2>2, <2>3, <2>7
    \* An announcement is not what has been read.
    <3>2. ASSUME NEW j \in DOMAIN rq, rq[j].kind = "UP"
          PROVE  j - 1 \in DOMAIN rq' /\ rq'[j - 1].kind = "UP"
      <4>1. j # 1
        BY <3>1, <3>2
      <4>2. j - 1 \in DOMAIN rq' /\ (j - 1) + 1 = j
        BY <2>2, <4>1
      <4>3. QED
        BY <2>2, <3>2, <4>2
    <3>3. DataAfterUp'
      <4> SUFFICES ASSUME NEW i \in DOMAIN rq', rq'[i].kind = "DATA"
                   PROVE  \E j \in 1 .. (i - 1) : rq'[j].kind = "UP"
        BY DEF DataAfterUp, Announces
      <4>1. i + 1 \in DOMAIN rq /\ rq[i + 1].kind = "DATA"
        BY <2>2
      <4>2. PICK j \in 1 .. ((i + 1) - 1) : rq[j].kind = "UP"
        BY <3>1, <4>1 DEF UpInv, DataAfterUp, Announces
      <4>3. j \in DOMAIN rq /\ j - 1 \in 1 .. (i - 1)
        BY <2>2, <3>1, <4>2
      <4>4. QED
        BY <3>2, <4>2, <4>3
    <3>4. UpAnnounced'
      <4> SUFFICES ASSUME up # {}
                   PROVE  \E j \in DOMAIN rq' : rq'[j].kind = "UP"
        BY <2>1 DEF UpAnnounced, Announces
      <4>1. PICK j \in DOMAIN rq : rq[j].kind = "UP"
        BY <3>1 DEF UpInv, UpAnnounced, Announces
      <4>2. QED
        BY <3>2, <4>1
    <3>5. QED
      BY <2>5, <3>3, <3>4 DEF UpInv
  <2>8. QED
    BY <2>6, <2>7
<1>3. CASE ServerCommand
  <2>1. /\ rq' = rq /\ up' \subseteq up /\ assoInfo' = assoInfo
    BY <1>3 DEF ServerCommand, ServerCloses
  <2>2. /\ state'[Server] = "typing" => assoInfo # NoInfo
        /\ state'[Server] # "crashed"
    BY <1>1, <1>3
       DEF ServerCommand, Goes, UpInv, TypesToSomebody, NoNullDereference, TypeOK
  <2>3. QED
    BY <2>1, <2>2, QueueGrows
<1>4. CASE ServerSends
  <2>1. assoInfo \in Clients
    BY <1>4 DEF ServerSends, UpInv, TypesToSomebody, TypeOK
  <2>2. Ev("CANT", assoInfo) \in Event /\ Ev("CANT", assoInfo).kind # "DATA"
    BY <2>1, EventType
  <2>3. /\ rq' = rq \/ rq' = Append(rq, Ev("CANT", assoInfo))
        /\ up' = up /\ assoInfo' = assoInfo
    BY <1>4 DEF ServerSends
  <2>4. state'[Server] = "polling"
    BY <1>1, <1>4 DEF ServerSends, Goes, TypeOK
  <2>5. QED
    BY <2>2, <2>3, <2>4, QueueGrows
<1>5. QED
  BY <1>2, <1>3, <1>4 DEF ServerStep

LEMMA TypesUp ==
    ASSUME TypeOK, UpInv, NEW p \in Procs, Types(p)
    PROVE  UpInv'
BY ServerStays, QueueGrows DEF Types

-----------------------------------------------------------------------------

LEMMA InvInit == Init => Inv
<1> SUFFICES ASSUME Init PROVE Inv
  OBVIOUS
<1>1. TypeOK
  BY TypeInit
<1>2. UpInv
  <2>1. rq = <<>> /\ up = {} /\ state[Server] = "polling"
    BY DEF Init, Procs
  <2>2. DOMAIN rq = {}
    BY <2>1
  <2>3. QED
    BY <2>1, <2>2
       DEF UpInv, DataAfterUp, UpAnnounced, TypesToSomebody, NoNullDereference
<1>3. QED
  BY <1>1, <1>2 DEF Inv

LEMMA InvNext == Inv /\ [Next]_vars => Inv'
<1> SUFFICES ASSUME Inv, [Next]_vars PROVE Inv'
  OBVIOUS
<1>1. TypeOK /\ UpInv /\ TypesToSomebody
  BY DEF Inv, UpInv
<1>2. CASE \E p \in Procs : Types(p)
  BY <1>1, <1>2, TypesType, TypesUp DEF Inv
<1>3. CASE ServerStep
  BY <1>1, <1>3, ServerType, ServerUp DEF Inv
<1>4. ASSUME NEW c \in Clients, ClientStep(c) \/ Sctp(c)
      PROVE  Inv'
  BY <1>1, <1>4, ClientType, ClientUp, SctpType, SctpUp DEF Inv
<1>5. CASE UNCHANGED vars
  BY <1>1, <1>5
     DEF vars, Inv, TypeOK, UpInv, DataAfterUp, UpAnnounced, Announces,
         TypesToSomebody, NoNullDereference
<1>6. QED
  BY <1>2, <1>3, <1>4, <1>5 DEF Next

LEMMA InvHolds == Spec => []Inv
BY InvInit, InvNext, PTL DEF Spec

\* The variables keep their types: in particular the server sends only to a
\* client that assoInfo names (SctpServerEndpoint.cpp:153).
THEOREM AssociationTypes == Spec => []TypeOK
<1>1. Inv => TypeOK
  BY DEF Inv
<1>2. QED
  BY <1>1, InvHolds, PTL

\* onSctpMessages writes to assoInfo without looking (SctpServerEndpoint.cpp
\* :142), and it is never null there.
THEOREM NeverNull == Spec => []NoNullDereference
<1>1. Inv => NoNullDereference
  BY DEF Inv, UpInv
<1>2. QED
  BY <1>1, InvHolds, PTL

-----------------------------------------------------------------------------
(* Aborts.                                                                 *)

\* What joined the queue can be told from its end.
LEMMA OneAppended ==
    ASSUME TypeOK, NEW c \in Clients,
           rq' = Append(rq, Ev("LOST", c))
    PROVE  /\ rq' # rq
           /\ rq # <<>> => rq' # Tail(rq)
           /\ \A d \in Clients, kind \in {"UP", "DATA", "SHUTDOWN", "CANT"} :
                  rq' # Append(rq, Ev(kind, d))
           /\ \A d \in Clients : rq' = Append(rq, Ev("LOST", d)) => d = c
<1>1. rq \in Seq(Event) /\ Ev("LOST", c) \in Event /\ Len(rq) \in Nat
  BY EventType, LenProperties DEF TypeOK
<1>2. Len(rq') = Len(rq) + 1 /\ rq'[Len(rq) + 1] = Ev("LOST", c)
  BY <1>1, AppendProperties
<1>3. rq' # rq
  BY <1>1, <1>2
<1>4. rq # <<>> => rq' # Tail(rq)
  <2>1. rq # <<>> => Len(Tail(rq)) = Len(rq) - 1
    BY <1>1, HeadTailProperties
  <2>2. QED
    BY <1>1, <1>2, <2>1
<1>5. ASSUME NEW d \in Clients,
             NEW kind \in {"UP", "DATA", "SHUTDOWN", "LOST", "CANT"},
             rq' = Append(rq, Ev(kind, d))
      PROVE  kind = "LOST" /\ d = c
  <2>1. rq'[Len(rq) + 1] = Ev(kind, d)
    BY <1>1, <1>5, EventType, AppendProperties
  <2>2. Ev(kind, d) = Ev("LOST", c)
    BY <1>2, <2>1
  <2>3. QED
    BY <2>2 DEF Ev
<1>6. QED
  BY <1>3, <1>4, <1>5

LEMMA AbortStep ==
    ASSUME TypeOK, TypesToSomebody, [Next]_vars,
           NEW c \in Clients, rq' = Append(rq, Ev("LOST", c))
    PROVE  /\ state[c] = "choosing"
           /\ line[c] \in {"0", "x"} \/ ~cin[c]
<1> USE OneAppended
<1>1. CASE \E p \in Procs : Types(p)
  BY <1>1 DEF Types
<1>2. CASE ServerStep
  <2>1. CASE ServerReads
    BY <2>1 DEF ServerReads
  <2>2. CASE ServerCommand
    BY <2>2 DEF ServerCommand
  <2>3. CASE ServerSends
    <3>1. assoInfo \in Clients
      BY <2>3 DEF ServerSends, TypesToSomebody, TypeOK
    <3>2. QED
      BY <2>3, <3>1 DEF ServerSends
  <2>4. QED
    BY <1>2, <2>1, <2>2, <2>3 DEF ServerStep
<1>3. ASSUME NEW d \in Clients, Sctp(d)
      PROVE  FALSE
  BY <1>3 DEF Sctp, Associates, Refused, Arrives, ShutsDown
<1>4. ASSUME NEW d \in Clients, ClientStep(d)
      PROVE  /\ state[c] = "choosing"
             /\ line[c] \in {"0", "x"} \/ ~cin[c]
  <2>1. ClientChooses(d)
    BY <1>4 DEF ClientStep, ClientReads, ClientCommand, ClientSends,
                SendsMessages
  <2>2. SendsAbort(d)
    BY <2>1 DEF ClientChooses, SendsMessages, SendsEof
  <2>3. d = c
    BY <2>2 DEF SendsAbort
  <2>4. \/ ~cin[c]
        \/ line[c] = "x"
        \/ line[c] = "0"
    <3> SUFFICES ASSUME cin[c], line[c] # "x", line[c] # "0"
                 PROVE  FALSE
      OBVIOUS
    <3>1. \/ SendsEof(c) \/ UNCHANGED kernel
      BY <2>1, <2>3 DEF ClientChooses
    <3>2. QED
      BY <3>1 DEF SendsEof
  <2>5. QED
    BY <2>1, <2>3, <2>4 DEF ClientChooses
<1>5. CASE UNCHANGED vars
  BY <1>5 DEF vars
<1>6. QED
  BY <1>1, <1>2, <1>3, <1>4, <1>5 DEF Next

\* SCTP aborts an association only for a user who answered 0 at the prompt of
\* SctpClientEndpoint.cpp:162-167, or whose std::cin could not read a number.
THEOREM NoOtherAbort == Spec => AbortsExplained
<1>1. Inv /\ [Next]_vars =>
          [\A c \in Clients :
              (rq' = Append(rq, Ev("LOST", c)))
                  => /\ state[c] = "choosing"
                     /\ line[c] \in {"0", "x"} \/ ~cin[c]]_vars
  BY AbortStep DEF Inv, UpInv
<1>2. QED
  BY <1>1, InvHolds, PTL DEF Spec, AbortsExplained
=============================================================================
