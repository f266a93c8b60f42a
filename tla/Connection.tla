----------------------------- MODULE Connection -----------------------------
(***************************************************************************)
(* Connection (src/server/network/connection/connection.cpp): one socket,   *)
(* the network thread that runs its handlers, and the dispatcher thread     *)
(* that sends, closes and resumes reading.                                  *)
(*                                                                         *)
(* connectionLock makes a handler one step, except where it is given back   *)
(* while a message is encoded: the network thread is then busy, and the     *)
(* dispatcher is not.  The operating system and the peer are external: a    *)
(* read or a write ends well, or fails because the socket was closed or the *)
(* peer is gone.  Contents are left out; outgoing messages are numbered.    *)
(***************************************************************************)
EXTENDS Naturals, SequencesExt

CONSTANTS
    MaxPackets,   \* bound: how many packets come in
    MaxMessages   \* bound: how many messages are sent

VARIABLES
    accepted,         \* ServicePort::onAccept has run
    connectionState,
    socketOpen,
    reading,          \* the outstanding async_read, and what for
    readTimer, writeTimer,  \* armed
    messageQueue,
    posted,           \* how many internalWorker handlers wait to run
    writer,           \* the chain of handlers that empties the queue
    front,            \* the message it has a reference to
    protocol,         \* one was made
    receivedFirst,
    task,             \* the dispatcher's event that parses m_msg
    releases,         \* how many events call protocol->release
    packets,
    broken,           \* the peer is gone
    forced,           \* history: close(FORCE_CLOSE) closed the socket
    given, wire       \* history: what send accepted, and what was written

closing == <<connectionState, socketOpen, releases, forced>>
timers == <<readTimer, writeTimer>>
outgoing == <<messageQueue, posted, writer, front, given, wire>>
incoming == <<reading, protocol, receivedFirst, task, packets>>
vars == <<accepted, closing, timers, outgoing, incoming, broken>>

Messages == 1..MaxMessages

Init ==
    /\ accepted = FALSE /\ connectionState = "open" /\ socketOpen = TRUE
    /\ reading = "none" /\ readTimer = FALSE /\ writeTimer = FALSE
    /\ messageQueue = <<>> /\ posted = 0 /\ writer = "idle" /\ front = 0
    /\ protocol = FALSE /\ receivedFirst = FALSE /\ task = "none"
    /\ releases = 0 /\ packets = 0 /\ broken = FALSE /\ forced = FALSE
    /\ given = <<>> /\ wire = <<>>

Closed == connectionState = "closed"
NetworkFree == accepted /\ writer # "encoding"

-----------------------------------------------------------------------------
(* close, once the caller has left the queue and the write timer as given;  *)
(* closeSocket cancels both timers, the read timer in CancelsRead.          *)
ClosesSocket(force, queue) == ~Closed /\ (queue = <<>> \/ force)

AlreadyClosed == Closed

Close(force, hasProtocol, queue, writeArmed) ==
    LET closes == ClosesSocket(force, queue)
    IN  /\ connectionState' = "closed"
        /\ socketOpen' = (socketOpen /\ ~closes)
        /\ writeTimer' = (writeArmed /\ ~closes)
        /\ forced' = (forced \/ (closes /\ force))
        /\ releases' = IF hasProtocol /\ ~AlreadyClosed THEN releases + 1 ELSE releases

CancelsRead(force, queue) ==
    readTimer' = (readTimer /\ ~ClosesSocket(force, queue))

(* The handler leaves the connection as it is and waits for the next read.  *)
KeepsState == UNCHANGED <<socketOpen, releases, forced, writeTimer>>
Reads(what) == reading' = what /\ readTimer' = TRUE

-----------------------------------------------------------------------------
(* onAccept: the server sends first, waits for the client, or refuses.      *)
Accept ==
    /\ ~accepted /\ accepted' = TRUE
    /\ \/ /\ connectionState' = "identifying" /\ protocol' = TRUE
          /\ Reads("identification") /\ KeepsState
       \/ /\ Reads("header") /\ KeepsState
          /\ UNCHANGED <<connectionState, protocol>>
       \/ /\ protocol' \in BOOLEAN   \* banned, or its first event rejected
          /\ Close(TRUE, protocol', messageQueue, FALSE)
          /\ UNCHANGED <<reading, readTimer>>
    /\ UNCHANGED <<outgoing, receivedFirst, task, packets, broken>>

(* A read ends well.                                                        *)
Arrives(what) ==
    /\ NetworkFree /\ reading = what /\ socketOpen /\ ~broken
    /\ packets < MaxPackets

ForceClose ==
    /\ reading' = "none" /\ readTimer' = FALSE
    /\ Close(TRUE, protocol, messageQueue, writeTimer)

(* parseHeader: too many packets, a size out of range, or the body is next. *)
ParseHeader ==
    \/ /\ reading' = "none" /\ readTimer' = FALSE
       /\ Close(FALSE, protocol, messageQueue, writeTimer)
    \/ ForceClose
    \/ connectionState' = "open" /\ Reads("body") /\ KeepsState

ParseProxyIdentification ==
    /\ \/ Arrives("identification") \/ Arrives("remainder")
    /\ \/ Closed /\ ForceClose
       \/ connectionState = "identifying" /\ ParseHeader
       \/ /\ connectionState = "identifying"
          /\ connectionState' = "readings"
          /\ Reads("remainder") /\ KeepsState
       \/ /\ connectionState = "readings"
          /\ \/ connectionState' = "open" /\ Reads("header") /\ KeepsState
             \/ ForceClose
    /\ UNCHANGED <<accepted, outgoing, protocol, receivedFirst, task, packets, broken>>

HeaderArrives ==
    /\ Arrives("header")
    /\ \/ ~Closed /\ ParseHeader
       \/ /\ Closed
          /\ reading' = "none" /\ readTimer' = FALSE
          /\ UNCHANGED connectionState /\ KeepsState
    /\ UNCHANGED <<accepted, outgoing, protocol, receivedFirst, task, packets, broken>>

(* parsePacket: the first packet makes the protocol, which may refuse it;   *)
(* a later one goes to the dispatcher, which resumes the reading, or, when  *)
(* it cannot be decoded or the dispatcher rejects it, to nobody.            *)
MutSkips(next) == next = "header"
Skips(next) == next = "none"

ReadOn(next) == Reads(IF Skips(next) THEN "none" ELSE "header")

FirstPacket ==
    /\ ~receivedFirst /\ receivedFirst' = TRUE
    /\ \/ ~protocol /\ ForceClose /\ UNCHANGED protocol
       \/ /\ protocol' = TRUE
          /\ ReadOn("header") /\ KeepsState /\ UNCHANGED connectionState
       \/ /\ protocol' = TRUE
          /\ ReadOn("header")
          /\ Close(FALSE, TRUE, messageQueue, writeTimer)
    /\ UNCHANGED task

LaterPacket ==
    /\ receivedFirst
    /\ \/ /\ task' = "queued"
          /\ ReadOn("none") /\ KeepsState /\ UNCHANGED connectionState
       \/ /\ ReadOn("header") /\ KeepsState
          /\ UNCHANGED <<connectionState, task>>
       \/ /\ ReadOn("header")
          /\ Close(TRUE, protocol, messageQueue, writeTimer)
          /\ UNCHANGED task
    /\ UNCHANGED <<protocol, receivedFirst>>

ParsePacket ==
    /\ Arrives("body") /\ packets' = packets + 1
    /\ \/ ~Closed /\ (FirstPacket \/ LaterPacket)
       \/ Closed /\ ForceClose /\ UNCHANGED <<protocol, receivedFirst, task>>
    /\ UNCHANGED <<accepted, outgoing, broken>>

(* Every read handler closes when the read has failed.                      *)
ReadFails ==
    /\ NetworkFree /\ reading # "none" /\ (broken \/ ~socketOpen)
    /\ ForceClose
    /\ UNCHANGED <<accepted, outgoing, protocol, receivedFirst, task, packets, broken>>

(* The dispatcher's event and resumeWork, which takes no lock.              *)
StartTask ==
    /\ task = "queued" /\ task' = "parsing"
    /\ UNCHANGED <<accepted, closing, timers, outgoing, reading, protocol, receivedFirst, packets, broken>>

ResumeWork ==
    /\ task = "parsing" /\ task' = "none"
    /\ reading' = "header" /\ readTimer' = TRUE
    /\ UNCHANGED <<accepted, closing, writeTimer, outgoing, protocol, receivedFirst, packets, broken>>

-----------------------------------------------------------------------------
(* send, from the dispatcher: the first message of the queue starts a       *)
(* writer.                                                                  *)
Queued(message) == Append(messageQueue, message)

MutNoPendingWrite == TRUE
NoPendingWrite == messageQueue = <<>>

Send ==
    /\ accepted /\ ~Closed /\ protocol /\ Len(given) < MaxMessages
    /\ LET message == Len(given) + 1
       IN  /\ messageQueue' = Queued(message)
           /\ given' = Append(given, message)
    /\ posted' = IF NoPendingWrite THEN posted + 1 ELSE posted
    /\ UNCHANGED <<accepted, closing, timers, incoming, writer, front, wire, broken>>

(* Somebody else's close: disconnect, a rejected event, a protocol's check. *)
Disconnect(force) ==
    /\ accepted /\ ~Closed
    /\ Close(force, protocol, messageQueue, writeTimer)
    /\ CancelsRead(force, messageQueue)
    /\ UNCHANGED <<accepted, outgoing, incoming, broken>>

(* internalWorker, up to the unlock (it looks for an empty queue, which     *)
(* OneWriter excludes) ...                                                  *)
InternalWorker ==
    /\ NetworkFree /\ posted > 0 /\ messageQueue # <<>>
    /\ posted' = posted - 1
    /\ writer' = "encoding" /\ front' = Head(messageQueue)
    /\ UNCHANGED <<accepted, closing, timers, incoming, messageQueue, given, wire, broken>>

(* ... and, once the message is encoded and the lock taken again,           *)
(* internalSend.                                                            *)
InternalSend ==
    /\ writer = "encoding"
    /\ writer' = "writing" /\ writeTimer' = TRUE
    /\ UNCHANGED <<accepted, closing, readTimer, incoming, messageQueue, posted, front, given, wire, broken>>

(* onWriteOperation: the next message, or nothing more to write; a closed   *)
(* connection closes its socket now.                                        *)
Popped == Tail(messageQueue)

ClosesAfterLast == Closed

MutGoesOn(queue) == FALSE
GoesOn(queue) == queue # <<>>

Written ==
    /\ NetworkFree /\ writer = "writing" /\ socketOpen /\ ~broken
    /\ wire' = Append(wire, front)
    /\ messageQueue' = Popped
    /\ \/ /\ GoesOn(messageQueue')
          /\ writer' = "encoding" /\ front' = Head(messageQueue')
          /\ writeTimer' = FALSE
          /\ UNCHANGED <<socketOpen, readTimer>>
       \/ /\ ~GoesOn(messageQueue')
          /\ writer' = "idle" /\ front' = 0
          /\ writeTimer' = FALSE
          /\ socketOpen' = ~ClosesAfterLast
          /\ readTimer' = (readTimer /\ ~ClosesAfterLast)
    /\ UNCHANGED <<accepted, posted, connectionState, releases, forced, incoming, given, broken>>

WriteFails ==
    /\ NetworkFree /\ writer = "writing" /\ (broken \/ ~socketOpen)
    /\ messageQueue' = <<>>
    /\ writer' = "idle" /\ front' = 0
    /\ Close(TRUE, protocol, <<>>, FALSE) /\ CancelsRead(TRUE, <<>>)
    /\ UNCHANGED <<accepted, posted, incoming, given, wire, broken>>

(* handleTimeout, of the read timer or of the write timer.                  *)
ReadTimeout ==
    /\ NetworkFree /\ readTimer /\ readTimer' = FALSE
    /\ Close(TRUE, protocol, messageQueue, writeTimer)
    /\ UNCHANGED <<accepted, outgoing, incoming, broken>>

WriteTimeout ==
    /\ NetworkFree /\ writeTimer
    /\ Close(TRUE, protocol, messageQueue, FALSE)
    /\ CancelsRead(TRUE, messageQueue)
    /\ UNCHANGED <<accepted, outgoing, incoming, broken>>

PeerBreaks ==
    /\ accepted /\ ~broken /\ broken' = TRUE
    /\ UNCHANGED <<accepted, closing, timers, outgoing, incoming>>

-----------------------------------------------------------------------------
Next ==
    \/ Accept \/ ParseProxyIdentification \/ HeaderArrives \/ ParsePacket
    \/ ReadFails \/ StartTask \/ ResumeWork
    \/ Send \/ Disconnect(TRUE) \/ Disconnect(FALSE)
    \/ InternalWorker \/ InternalSend \/ Written \/ WriteFails
    \/ ReadTimeout \/ WriteTimeout \/ PeerBreaks

(* The threads run, armed timers fire, and the peer takes what is written   *)
(* to it or is gone: nothing makes a silent peer send.                      *)
Fairness ==
    /\ WF_vars(ReadFails) /\ WF_vars(WriteFails)
    /\ WF_vars(StartTask) /\ WF_vars(ResumeWork)
    /\ WF_vars(InternalWorker) /\ WF_vars(InternalSend) /\ WF_vars(Written)
    /\ WF_vars(ReadTimeout) /\ WF_vars(WriteTimeout)

Spec == Init /\ [][Next]_vars /\ Fairness

-----------------------------------------------------------------------------
TypeOK ==
    /\ accepted \in BOOLEAN /\ socketOpen \in BOOLEAN
    /\ connectionState \in {"open", "identifying", "readings", "closed"}
    /\ reading \in {"none", "identification", "remainder", "header", "body"}
    /\ readTimer \in BOOLEAN /\ writeTimer \in BOOLEAN
    /\ messageQueue \in Seq(Messages)
    /\ posted \in Nat /\ writer \in {"idle", "encoding", "writing"}
    /\ front \in 0..MaxMessages /\ protocol \in BOOLEAN
    /\ receivedFirst \in BOOLEAN /\ task \in {"none", "queued", "parsing"}
    /\ releases \in 0..1 /\ packets \in 0..MaxPackets
    /\ broken \in BOOLEAN /\ forced \in BOOLEAN
    /\ given \in Seq(Messages) /\ wire \in Seq(Messages)

(* The reference internalWorker and onWriteOperation keep over the unlock   *)
(* and the asynchronous write is to the first message of the queue, which   *)
(* nobody removes meanwhile, whoever sends or closes.                       *)
FrontStays ==
    writer \in {"encoding", "writing"}
        => messageQueue # <<>> /\ Head(messageQueue) = front

(* There is one writer exactly while there is something to write: no two    *)
(* writes overlap, and no message waits for a writer that is not there.     *)
OneWriter ==
    posted + (IF writer = "idle" THEN 0 ELSE 1)
        = IF messageQueue = <<>> THEN 0 ELSE 1

(* What the peer gets are the messages in the order they were sent, once.   *)
InOrder == IsPrefix(wire, given)

(* A close that is not forced lets everything accepted before it go out.    *)
GracefulFlush == ~socketOpen /\ ~forced => wire = given

(* m_msg has one user: nothing is read into it while the dispatcher parses  *)
(* it, and an open connection always reads or is about to resume.           *)
OneReader ==
    /\ task # "none" => reading = "none"
    /\ accepted /\ ~Closed => (reading # "none" \/ task # "none")

(* A silent peer is noticed: whenever an open connection waits for its peer *)
(* the timer of that wait is armed.                                         *)
WaitsAreTimed ==
    /\ reading # "none" /\ ~Closed => readTimer
    /\ writer = "writing" /\ socketOpen /\ ~Closed => writeTimer

(* However many paths close the connection, its protocol is released once.  *)
ReleasedOnce == releases = IF Closed /\ protocol THEN 1 ELSE 0

(* Nothing but the ConnectionManager and pending handlers hold it.          *)
Unreferenced ==
    Closed /\ reading = "none" /\ writer = "idle" /\ posted = 0

(* A closed connection gives up its socket, at the latest with its last     *)
(* reference.                                                               *)
SocketCloses == []<>(Closed => ~socketOpen \/ Unreferenced)

(* What send accepts is written, unless the socket is closed by force or    *)
(* the peer is gone.                                                        *)
Delivered ==
    \A m \in Messages :
        []<>(m \in Range(given) => m \in Range(wire) \/ ~socketOpen \/ broken)
=============================================================================
