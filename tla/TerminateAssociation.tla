------------------------ MODULE TerminateAssociation ------------------------
(***************************************************************************)
(* Server and clients of LinuxSocket/sctp_socket/terminate_association and *)
(* of control_stream, which sends Burst messages where the former sends    *)
(* one.  Each process polls its one-to-many SCTP socket and its terminal.  *)
(*                                                                         *)
(* A command is read from the descriptor, what it asks for next from       *)
(* std::cin, where the process waits and polls nothing.                    *)
(***************************************************************************)
EXTENDS Naturals, Sequences, FiniteSets

CONSTANTS
    Clients,
    Server,
    NoInfo,     \* assoInfo before the first client
    Burst,      \* messages for one "[1: Normal]"
    MaxLines    \* bound: lines typed at each terminal

ASSUME AssociationAssumption ==
    /\ Server \notin Clients /\ NoInfo \notin Clients
    /\ Burst \in Nat \ {0} /\ MaxLines \in [Clients \union {Server} -> Nat]

Procs == Clients \union {Server}
Lines == {"0", "1", "2", "x"}    \* "x": anything that is no number
None  == ""

Event == [kind : {"UP", "DATA", "SHUTDOWN", "LOST", "CANT"}, from : Clients]
Ev(kind, c) == [kind |-> kind, from |-> c]

VARIABLES
    state,      \* of each process: "polling", "choosing" or "typing" what to
                \* send, "ended", "crashed"
    line,       \* what has been typed and not read, or None
    typed,      \* number of lines typed at each terminal
    cin,        \* whether each std::cin is in order: a failed one reads no more
    assoInfo,   \* server: the client of the latest COMM_UP
    rq,         \* what the server's socket has for it, of all associations
    cq,         \* what each client's socket has for it
    up,         \* clients that are associated with the server
    sent,       \* messages of each client on their way to the server
    closing     \* clients that shut their association down after those

terminals == <<line, typed>>
kernel    == <<rq, cq, up, sent, closing>>
vars      == <<state, terminals, cin, assoInfo, kernel>>

TypeOK ==
    /\ state \in [Procs -> {"polling", "choosing", "typing", "ended", "crashed"}]
    /\ line \in [Procs -> Lines \union {None}]
    /\ typed \in [Procs -> Nat]
    /\ cin \in [Procs -> BOOLEAN]
    /\ assoInfo \in Clients \union {NoInfo}
    /\ rq \in Seq(Event)
    /\ cq \in [Clients -> Seq(Event)]
    /\ up \subseteq Clients /\ closing \subseteq Clients
    /\ sent \in [Clients -> Nat]

Init ==
    /\ state = [p \in Procs |-> "polling"]
    /\ line = [p \in Procs |-> None]
    /\ typed = [p \in Procs |-> 0]
    /\ cin = [p \in Procs |-> TRUE]
    /\ assoInfo = NoInfo
    /\ rq = <<>>
    /\ cq = [c \in Clients |-> <<>>]
    /\ up = {} /\ closing = {}
    /\ sent = [c \in Clients |-> 0]

Listening == state[Server] \notin {"ended", "crashed"}
Goes(p, s) == state' = [state EXCEPT ![p] = s]
Reads(p) == line' = [line EXCEPT ![p] = None] /\ UNCHANGED typed
ToClient(c, kind) == cq' = [cq EXCEPT ![c] = Append(@, Ev(kind, c))]

\* A line is typed at a terminal; one stands for all contents of a message.
Types(p) ==
    /\ state[p] \notin {"ended", "crashed"}
    /\ line[p] = None /\ typed[p] < MaxLines[p]
    /\ \E l \in IF state[p] = "typing" THEN {"x"} ELSE Lines :
           line' = [line EXCEPT ![p] = l]
    /\ typed' = [typed EXCEPT ![p] = @ + 1]
    /\ UNCHANGED <<state, cin, assoInfo, kernel>>

-----------------------------------------------------------------------------
(* SCTP.                                                                   *)

\* The first message of a client sets its association up.
Associates(c) ==
    /\ Listening /\ sent[c] > 0 /\ c \notin up
    /\ up' = up \union {c}
    /\ rq' = Append(rq, Ev("UP", c))
    /\ ToClient(c, "UP")
    /\ UNCHANGED <<state, terminals, cin, assoInfo, sent, closing>>

\* A server that is gone answers none.
Refused(c) ==
    /\ ~Listening /\ sent[c] > 0
    /\ sent' = [sent EXCEPT ![c] = 0]
    /\ closing' = closing \ {c}
    /\ ToClient(c, "CANT")
    /\ UNCHANGED <<state, terminals, cin, assoInfo, rq, up>>

Arrives(c) ==
    /\ Listening /\ c \in up /\ sent[c] > 0
    /\ sent' = [sent EXCEPT ![c] = @ - 1]
    /\ rq' = Append(rq, Ev("DATA", c))
    /\ UNCHANGED <<state, terminals, cin, assoInfo, cq, up, closing>>

\* A client that shuts down does so when all it sent has arrived.
ShutsDown(c) ==
    /\ c \in closing /\ sent[c] = 0
    /\ closing' = closing \ {c} /\ up' = up \ {c}
    /\ IF Listening THEN rq' = Append(rq, Ev("SHUTDOWN", c)) ELSE UNCHANGED rq
    /\ IF state[c] = "ended" THEN UNCHANGED cq ELSE ToClient(c, "SHUTDOWN")
    /\ UNCHANGED <<state, terminals, cin, assoInfo, sent>>

\* The server's socket is closed with the process.
ServerCloses ==
    /\ up' = {} /\ closing' = {}
    /\ cq' = [c \in Clients |->
                 IF c \in up /\ state[c] # "ended"
                 THEN Append(cq[c], Ev("SHUTDOWN", c)) ELSE cq[c]]
    /\ sent' = [c \in Clients |-> IF c \in up THEN 0 ELSE sent[c]]

\* An association, if only one that is being set up: without, a client has
\* nothing to shut down or abort.
HasAssociation(c) == c \in up \/ sent[c] > 0

-----------------------------------------------------------------------------
(* The server.                                                             *)

\* Mutant: a client that leaves is forgotten.
ServerReads_forgets ==
    /\ state[Server] = "polling" /\ rq # <<>>
    /\ rq' = Tail(rq)
    /\ LET e == Head(rq)
       IN /\ assoInfo' = CASE e.kind = "UP" -> e.from
                           [] e.kind \in {"SHUTDOWN", "LOST"} -> NoInfo
                           [] OTHER -> assoInfo
          /\ IF e.kind = "DATA" /\ assoInfo = NoInfo
             THEN Goes(Server, "crashed") ELSE UNCHANGED state
    /\ UNCHANGED <<terminals, cin, cq, up, sent, closing>>

\* Mutant: what could not be sent is tried again.
ServerReads_retries ==
    /\ state[Server] = "polling" /\ rq # <<>>
    /\ LET e == Head(rq)
       IN /\ rq' = IF e.kind = "CANT" THEN Append(Tail(rq), e) ELSE Tail(rq)
          /\ assoInfo' = IF e.kind = "UP" THEN e.from ELSE assoInfo
    /\ UNCHANGED <<state, terminals, cin, cq, up, sent, closing>>

\* SctpMsgHandler: COMM_UP makes its client the one to answer, whoever leaves;
\* a message is noted in assoInfo, which has to be there.
ServerReads ==
    /\ state[Server] = "polling" /\ rq # <<>>
    /\ rq' = Tail(rq)
    /\ LET e == Head(rq)
       IN /\ assoInfo' = IF e.kind = "UP" THEN e.from ELSE assoInfo
          /\ IF e.kind = "DATA" /\ assoInfo = NoInfo
             THEN Goes(Server, "crashed") ELSE UNCHANGED state
    /\ UNCHANGED <<terminals, cin, cq, up, sent, closing>>

\* ReadUserCmd, if the poll saw nothing on the socket, which comes first.
ServerCommand ==
    /\ state[Server] = "polling" /\ rq = <<>> /\ line[Server] # None
    /\ Reads(Server)
    /\ IF line[Server] = "0"
       THEN Goes(Server, "ended") /\ ServerCloses /\ UNCHANGED rq
       ELSE /\ IF line[Server] = "1" /\ assoInfo # NoInfo
               THEN Goes(Server, "typing") ELSE UNCHANGED state
            /\ UNCHANGED kernel
    /\ UNCHANGED <<cin, assoInfo>>

\* SendMsg: the next line goes to the client in assoInfo.  If that is gone SCTP
\* tries to associate with a socket that does not listen.
ServerSends ==
    /\ state[Server] = "typing" /\ line[Server] # None
    /\ Reads(Server)
    /\ Goes(Server, "polling")
    /\ IF assoInfo \in up
       THEN ToClient(assoInfo, "DATA") /\ UNCHANGED rq
       ELSE rq' = Append(rq, Ev("CANT", assoInfo)) /\ UNCHANGED cq
    /\ UNCHANGED <<cin, assoInfo, up, sent, closing>>

-----------------------------------------------------------------------------
(* A client.                                                               *)

\* SctpMsgHandler only reports what it reads.
ClientReads(c) ==
    /\ state[c] = "polling" /\ cq[c] # <<>>
    /\ cq' = [cq EXCEPT ![c] = Tail(@)]
    /\ UNCHANGED <<state, terminals, cin, assoInfo, rq, up, sent, closing>>

\* sctp_sendmsg of the normal kind, Burst times; not while it is shut down.
SendsMessages(c) ==
    /\ sent' = [sent EXCEPT ![c] = IF c \in closing THEN @ ELSE @ + Burst]
    /\ UNCHANGED <<rq, cq, up, closing>>

SendsAbort(c) ==
    /\ sent' = [sent EXCEPT ![c] = 0]
    /\ up' = up \ {c} /\ closing' = closing \ {c}
    /\ IF c \in up /\ Listening THEN rq' = Append(rq, Ev("LOST", c))
       ELSE UNCHANGED rq
    /\ IF HasAssociation(c) THEN ToClient(c, "LOST") ELSE UNCHANGED cq

\* SCTP_EOF with data in the call: taken, or refused as invalid.
SendsEof(c) ==
    /\ \/ closing' = IF HasAssociation(c) THEN closing \union {c} ELSE closing
       \/ UNCHANGED closing
    /\ UNCHANGED <<rq, cq, up, sent>>

\* Mutant: the command comes from std::cin.
ClientCommand_cin(c) ==
    /\ state[c] = "polling" /\ cq[c] = <<>> /\ line[c] # None
    /\ cin[c]
    /\ Reads(c)
    /\ Goes(c, CASE line[c] = "0" -> "ended" [] line[c] = "1" -> "choosing"
                 [] OTHER -> "polling")
    /\ closing' = IF line[c] = "0" /\ HasAssociation(c) THEN closing \union {c}
                  ELSE closing
    /\ UNCHANGED <<cin, assoInfo, rq, cq, up, sent>>

\* Mutant: the socket is closed without a shutdown.
ClientCommand_aborts(c) ==
    /\ state[c] = "polling" /\ cq[c] = <<>> /\ line[c] # None
    /\ Reads(c)
    /\ Goes(c, CASE line[c] = "0" -> "ended" [] line[c] = "1" -> "choosing"
                 [] OTHER -> "polling")
    /\ IF line[c] = "0" THEN SendsAbort(c) ELSE UNCHANGED kernel
    /\ UNCHANGED <<cin, assoInfo>>

\* ReadUserCmd, if there is nothing on the socket.  The end of the process
\* closes the socket, which shuts the association down.
ClientCommand(c) ==
    /\ state[c] = "polling" /\ cq[c] = <<>> /\ line[c] # None
    /\ Reads(c)
    /\ Goes(c, CASE line[c] = "0" -> "ended" [] line[c] = "1" -> "choosing"
                 [] OTHER -> "polling")
    /\ closing' = IF line[c] = "0" /\ HasAssociation(c) THEN closing \union {c}
                  ELSE closing
    /\ UNCHANGED <<cin, assoInfo, rq, cq, up, sent>>

\* SendMsg reads its option.  What is no number sets it to 0 and makes
\* std::cin fail; once that has failed the option is not initialized and no
\* input is waited for.
ClientChooses(c) ==
    /\ state[c] = "choosing"
    /\ IF cin[c]
       THEN line[c] # None /\ Reads(c) /\ cin' = [cin EXCEPT ![c] = line[c] # "x"]
       ELSE UNCHANGED <<terminals, cin>>
    /\ LET options == IF ~cin[c] THEN {"0", "1", "2", "other"}
                      ELSE {IF line[c] = "x" THEN "0" ELSE line[c]}
       IN \/ "0" \in options /\ Goes(c, "polling") /\ SendsAbort(c)
          \/ "1" \in options /\ cin[c] /\ Goes(c, "typing") /\ UNCHANGED kernel
          \/ "1" \in options /\ ~cin[c] /\ Goes(c, "polling") /\ SendsMessages(c)
          \/ "2" \in options /\ Goes(c, "polling") /\ SendsEof(c)
          \/ "other" \in options /\ Goes(c, "polling") /\ UNCHANGED kernel
    /\ UNCHANGED assoInfo

\* The content of the message.
ClientSends(c) ==
    /\ state[c] = "typing" /\ line[c] # None
    /\ Reads(c)
    /\ Goes(c, "polling")
    /\ SendsMessages(c)
    /\ UNCHANGED <<cin, assoInfo>>

-----------------------------------------------------------------------------

ServerStep == ServerReads \/ ServerCommand \/ ServerSends
ClientStep(c) ==
    ClientReads(c) \/ ClientCommand(c) \/ ClientChooses(c) \/ ClientSends(c)
Sctp(c) == Associates(c) \/ Refused(c) \/ Arrives(c) \/ ShutsDown(c)

Next ==
    \/ \E p \in Procs : Types(p)
    \/ ServerStep
    \/ \E c \in Clients : ClientStep(c) \/ Sctp(c)

Spec == Init /\ [][Next]_vars

\* Processes go on with what they have, and SCTP with what it was given;
\* nobody has to type.
Fairness ==
    /\ WF_vars(ServerStep)
    /\ \A c \in Clients : WF_vars(ClientStep(c)) /\ WF_vars(Sctp(c))

FairSpec == Spec /\ Fairness

-----------------------------------------------------------------------------
(* Properties.                                                             *)

\* onSctpMessages never meets a null assoInfo (SctpServerEndpoint.cpp:142):
\* whatever clients come and go, a message is read after some COMM_UP.
NoNullDereference == state[Server] # "crashed"

\* An association is aborted only by a user who has answered 0 at the prompt,
\* or something that is no number, then or ever before: SctpClientEndpoint.cpp
\* :167 does not look at whether std::cin read anything.
AbortsExplained ==
    [][\A c \in Clients :
          (rq' = Append(rq, Ev("LOST", c)))
              => /\ state[c] = "choosing"
                 /\ line[c] \in {"0", "x"} \/ ~cin[c]]_vars

\* "[0: Exit]" at the command prompt ends a process, whatever is on its socket
\* and whatever happened to its std::cin: no process goes on for ever with a 0
\* before it.
QuitObeyed == []<>(\A p \in Procs : state[p] = "polling" => line[p] # "0")

\* The server reads what clients have sent or done to the end, unless it ends
\* or waits for a line of its user.
EventsRead == []<>(rq = <<>> \/ state[Server] # "polling")
=============================================================================
