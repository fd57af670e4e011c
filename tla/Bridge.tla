------------------------------- MODULE Bridge -------------------------------
(***************************************************************************)
(* The TCP line bridge of the modelled USB host                            *)
(* (peripheral_models/usb_host.py): the emulation thread publishes RESP    *)
(* and IN lines to every client, an acceptor thread greets new clients and *)
(* replays a bounded backlog, a reader thread per client answers its       *)
(* commands.  The list of clients and the backlog change under a lock; all *)
(* sending is done outside it, by three kinds of threads on one socket.    *)
(*                                                                         *)
(* EXTERNAL: the sockets.  A connection is complete once the kernel has    *)
(* queued it for accept; a blocking sendall writes what the buffer has     *)
(* room for and waits for more; sending to a peer that is gone fails, and  *)
(* so does sending on a socket closed here, unless the send had begun.     *)
(* Closing a socket with commands unread resets the connection, and so     *)
(* does a command sent to a closed one: lines under way may be lost.       *)
(***************************************************************************)
EXTENDS Integers, Sequences, SequencesExt

CONSTANTS
    Clients,
    BacklogMax,       \* maxlen of the backlog (600)
    Capacity,         \* lines a socket buffer holds
    MaxLines,         \* bound: lines the emulation publishes
    MaxCommands       \* bound: commands of each client

None == "none"

ASSUME BridgeAssumption ==
    /\ None \notin Clients
    /\ BacklogMax \in Nat \ {0} /\ Capacity \in Nat \ {0}
    /\ MaxLines \in Nat /\ MaxCommands \in [Clients -> Nat]

VARIABLES
    backlog,          \* _backlog
    registered,       \* _clients
    published,        \* how many lines have been published
    recipients,       \* _publish: the clients still to be sent the last one
    greeted,          \* accept_loop: the connection being greeted
    greeting,         \* and what is still to be sent to it
    reader,           \* _reader's thread, per client
    (* the sockets and the clients *)
    listening,        \* connections waiting for accept
    client, wire, commands, heard,
    asked,            \* the commands a client has sent, by kind
    first             \* history: the first line that is owed to a client

serverVars == <<backlog, registered, published, recipients, greeted, greeting,
                reader>>
vars == <<serverVars, listening, client, wire, commands, heard, asked, first>>

HELLO == 0            \* the greeting; published lines are numbered from 1
REPLY == -1           \* the answer to a command

(* The commands: a REQ whose numbers struct.pack does not take, and all    *)
(* others, the refused and the unknown ones among them.                    *)
Kinds == {"fits", "misfit"}

TypeOK ==
    /\ published \in 0 .. MaxLines
    /\ backlog \in Seq(1 .. published) /\ Len(backlog) <= BacklogMax
    /\ registered \in Seq(Clients) /\ recipients \in Seq(Clients)
    /\ greeted \in Clients \cup {None} /\ greeting \in Seq(HELLO .. published)
    /\ reader \in [Clients -> {"none", "reading", "replying", "closing", "ended"}]
    /\ listening \in Seq(Clients)
    /\ client \in [Clients -> {"away", "connected", "closed"}]
    /\ wire \in [Clients -> Seq(REPLY .. published)]
    /\ \A c \in Clients : Len(wire[c]) <= Capacity
    /\ heard \in [Clients -> Seq(REPLY .. published)]
    /\ commands \in [Clients -> Seq(Kinds)] /\ asked \in [Clients -> Seq(Kinds)]
    /\ \A c \in Clients : Len(asked[c]) <= MaxCommands[c]
    /\ first \in [Clients -> 1 .. MaxLines + 1]

Init ==
    /\ backlog = <<>> /\ registered = <<>> /\ published = 0
    /\ recipients = <<>> /\ greeted = None /\ greeting = <<>>
    /\ reader = [c \in Clients |-> "none"]
    /\ listening = <<>> /\ client = [c \in Clients |-> "away"]
    /\ wire = [c \in Clients |-> <<>>] /\ heard = [c \in Clients |-> <<>>]
    /\ commands = [c \in Clients |-> <<>>] /\ asked = [c \in Clients |-> <<>>]
    /\ first = [c \in Clients |-> 1]

-----------------------------------------------------------------------------
(* One write of a sendall: as much of the payload as the socket takes, and *)
(* the rest of it; all of it is given up when the peer is gone.            *)
Gone(c) == client[c] = "closed"
Room(c) == Capacity - Len(wire[c])
Fits(c, payload) == IF Len(payload) <= Room(c) THEN Len(payload) ELSE Room(c)
Writes(c, payload) ==
    IF Gone(c) THEN UNCHANGED wire
    ELSE /\ Room(c) > 0
         /\ wire' = [wire EXCEPT ![c] = @ \o SubSeq(payload, 1, Fits(c, payload))]
Unwritten(c, payload) ==
    IF Gone(c) THEN <<>> ELSE SubSeq(payload, Fits(c, payload) + 1, Len(payload))

(* The reader has closed its socket.                                       *)
Shut(c) == reader[c] = "ended"

(* A reset keeps what has come through.                                    *)
Reset(c) ==
    \E n \in 0 .. Len(wire[c]) : wire' = [wire EXCEPT ![c] = SubSeq(@, 1, n)]

(* deque(maxlen): the oldest line falls out.                               *)
Kept(lines) ==
    IF Len(lines) > BacklogMax THEN Tail(lines) ELSE lines

(* The emulation thread, _publish: line and recipients are fixed under the *)
(* lock, then it is sent to one client after the other: perhaps to one     *)
(* that has been taken off the list and closed since.                      *)
Publish ==
    /\ recipients = <<>> /\ published < MaxLines
    /\ published' = published + 1
    /\ backlog' = Kept(Append(backlog, published'))
    /\ recipients' = registered
    /\ UNCHANGED <<registered, greeted, greeting, reader, listening, client,
                   wire, commands, heard, asked, first>>

SendLine ==
    /\ recipients # <<>>
    /\ \/ Writes(Head(recipients), <<published>>)
       \/ Shut(Head(recipients)) /\ UNCHANGED wire
    /\ recipients' = Tail(recipients)
    /\ UNCHANGED <<backlog, registered, published, greeted, greeting, reader,
                   listening, client, commands, heard, asked, first>>

(* Mutant: a client that connects is greeted and told nothing more. *)
HelloOnly(lines) == <<HELLO>>

Greeting(lines) == <<HELLO>> \o lines

(* The acceptor: registration and backlog are one step under the lock, the *)
(* greeting is sent after it.                                              *)
Accept ==
    /\ greeted = None /\ listening # <<>>
    /\ LET c == Head(listening) IN
         /\ greeted' = c /\ registered' = Append(registered, c)
         /\ first' = [first EXCEPT ![c] = published - Len(backlog) + 1]
    /\ greeting' = Greeting(backlog)
    /\ listening' = Tail(listening)
    /\ UNCHANGED <<backlog, published, recipients, reader, client, wire,
                   commands, heard, asked>>

Greet ==
    /\ greeted # None /\ greeting # <<>>
    /\ Writes(greeted, greeting)
    /\ greeting' = Unwritten(greeted, greeting)
    /\ UNCHANGED <<backlog, registered, published, recipients, greeted, reader,
                   listening, client, commands, heard, asked, first>>

(* Mutant: the reader's start registers the client once more. *)
RegisterAgain ==
    /\ greeted # None /\ greeting = <<>>
    /\ reader' = [reader EXCEPT ![greeted] = "reading"] /\ greeted' = None
    /\ registered' = Append(registered, greeted)
    /\ UNCHANGED <<backlog, published, recipients, greeting, listening, client,
                   wire, commands, heard, asked, first>>

StartReader ==
    /\ greeted # None /\ greeting = <<>>
    /\ reader' = [reader EXCEPT ![greeted] = "reading"] /\ greeted' = None
    /\ UNCHANGED <<backlog, registered, published, recipients, greeting,
                   listening, client, wire, commands, heard, asked, first>>

(* _command: what it does to the host and the pins is UsbHost's and Gpio's *)
(* Submit and Client; here it is answered, with an `ERR' when it fails.    *)
TakeCommand(c) ==
    /\ reader[c] = "reading" /\ commands[c] # <<>> /\ Head(commands[c]) = "fits"
    /\ commands' = [commands EXCEPT ![c] = Tail(@)]
    /\ reader' = [reader EXCEPT ![c] = "replying"]
    /\ UNCHANGED <<backlog, registered, published, recipients, greeted,
                   greeting, listening, client, wire, heard, asked, first>>

SendReply(c) ==
    /\ reader[c] = "replying"
    /\ Writes(c, <<REPLY>>)
    /\ reader' = [reader EXCEPT ![c] = "reading"]
    /\ UNCHANGED <<backlog, registered, published, recipients, greeted,
                   greeting, listening, client, commands, heard, asked, first>>

(* Mutant: a reader that ends leaves its client listed. *)
StaysListed(c) ==
    /\ reader[c] = "reading"
    /\ \/ commands[c] = <<>> /\ Gone(c) /\ UNCHANGED commands
       \/ /\ commands[c] # <<>> /\ Head(commands[c]) = "misfit"
          /\ commands' = [commands EXCEPT ![c] = Tail(@)]
    /\ reader' = [reader EXCEPT ![c] = "closing"]
    /\ UNCHANGED <<backlog, registered, published, recipients, greeted, greeting,
                   listening, client, wire, heard, asked, first>>

(* End of file or an error, or the struct.error of a command that does not *)
(* fit, which neither _command nor _reader expects: the client is taken    *)
(* off the list, under the lock,                                           *)
EndReader(c) ==
    /\ reader[c] = "reading"
    /\ \/ commands[c] = <<>> /\ Gone(c) /\ UNCHANGED commands
       \/ /\ commands[c] # <<>> /\ Head(commands[c]) = "misfit"
          /\ commands' = [commands EXCEPT ![c] = Tail(@)]
    /\ reader' = [reader EXCEPT ![c] = "closing"]
    /\ registered' = RemoveFirst(registered, c)
    /\ UNCHANGED <<backlog, published, recipients, greeted, greeting, listening,
                   client, wire, heard, asked, first>>

(* and its socket closed, outside it, whether the client is there or not.  *)
CloseSocket(c) ==
    /\ reader[c] = "closing"
    /\ reader' = [reader EXCEPT ![c] = "ended"]
    /\ IF commands[c] # <<>> THEN Reset(c) ELSE UNCHANGED wire
    /\ UNCHANGED <<backlog, registered, published, recipients, greeted, greeting,
                   listening, client, commands, heard, asked, first>>

-----------------------------------------------------------------------------
(* The clients *)

Connect(c) ==
    /\ client[c] = "away" /\ client' = [client EXCEPT ![c] = "connected"]
    /\ listening' = Append(listening, c)
    /\ UNCHANGED <<serverVars, wire, commands, heard, asked, first>>

Ask(c) ==
    /\ client[c] = "connected" /\ Len(asked[c]) < MaxCommands[c]
    /\ \E kind \in Kinds :
         /\ asked' = [asked EXCEPT ![c] = Append(@, kind)]
         /\ \/ /\ ~Shut(c) /\ UNCHANGED wire
               /\ commands' = [commands EXCEPT ![c] = Append(@, kind)]
            \/ Shut(c) /\ Reset(c) /\ UNCHANGED commands
    /\ UNCHANGED <<serverVars, listening, client, heard, first>>

Read(c) ==
    /\ client[c] = "connected" /\ wire[c] # <<>>
    /\ wire' = [wire EXCEPT ![c] = Tail(@)]
    /\ heard' = [heard EXCEPT ![c] = Append(@, Head(wire[c]))]
    /\ UNCHANGED <<serverVars, listening, client, commands, asked, first>>

(* Its unread lines are lost, and perhaps the commands under way.          *)
Close(c) ==
    /\ client[c] = "connected" /\ client' = [client EXCEPT ![c] = "closed"]
    /\ wire' = [wire EXCEPT ![c] = <<>>]
    /\ \E left \in {<<>>, commands[c]} : commands' = [commands EXCEPT ![c] = left]
    /\ UNCHANGED <<serverVars, listening, heard, asked, first>>

Acceptor == Accept \/ Greet \/ StartReader
Reader(c) == TakeCommand(c) \/ SendReply(c) \/ EndReader(c) \/ CloseSocket(c)

Next ==
    \/ Publish \/ SendLine \/ Acceptor
    \/ \E c \in Clients :
         Reader(c) \/ Connect(c) \/ Ask(c) \/ Read(c) \/ Close(c)

Spec == Init /\ [][Next]_vars

(* The threads run, and a client that stays reads.                         *)
FairSpec ==
    /\ Spec /\ WF_vars(SendLine) /\ WF_vars(Acceptor)
    /\ \A c \in Clients : WF_vars(Reader(c)) /\ WF_vars(Read(c))

-----------------------------------------------------------------------------
(* Properties *)

(* What is on its way to a client and what it has read.                    *)
Received(c) == heard[c] \o wire[c]

(* The backlog a client is greeted with and the lines it is sent as they   *)
(* are published never overlap: no line reaches a client twice.            *)
NoLineTwice ==
    \A c \in Clients : \A i, j \in DOMAIN Received(c) :
        i # j /\ Received(c)[i] > HELLO => Received(c)[i] # Received(c)[j]

(* It has sent a REQ whose numbers do not fit.                             *)
Misfit(c) == "misfit" \in ToSet(asked[c])

(* Nor do they leave a gap: whatever the backlog still held when the       *)
(* connection was accepted, and every line since, is read by the client,   *)
(* unless it closes, or itself sends the REQ that ends its reader:         *)
(* another client's costs it nothing (usb_host.py, "AND IT REPLAYS A       *)
(* BACKLOG ON ACCEPT").                                                    *)
EveryLineHeard ==
    \A c \in Clients, n \in 1 .. MaxLines :
        (c \in ToSet(registered) /\ first[c] <= n /\ n <= published)
            ~> (n \in ToSet(heard[c]) \/ Gone(c) \/ Misfit(c))

(* A client that is gone is sent nothing for ever: its reader notices,     *)
(* though the emulation or the acceptor may be sending to it meanwhile.    *)
ClosedForgotten ==
    \A c \in Clients : (Gone(c) /\ c \in ToSet(registered))
                           ~> c \notin ToSet(registered)

(* "greets HELLO device=rehostry-bdn9 pid=<pid> nonce=<per-spawn secret>"  *)
(* (usb_host.py:60): the client takes the first line for the greeting.     *)
HelloFirst == \A c \in Clients : heard[c] # <<>> => heard[c][1] = HELLO
=============================================================================
