----------------------------- MODULE Throughput -----------------------------
(***************************************************************************)
(* The edge client's write_read_throughput, several at a time, against the *)
(* page server.  Each client allocates a buffer of BufSize bytes, then for *)
(* every chunk writes it, waits for the reply, reads it back, waits for    *)
(* the reply and compares.  Clients run in lock step with their own task   *)
(* only; their requests meet at the server's lock and arena.  Before that  *)
(* the server's main looks for a port, and each client connects.           *)
(***************************************************************************)
EXTENDS PageServer

CONSTANTS Fill,      \* Fill[c]: the random bytes client c fills its buffer with
          ChunkSize,
          Ports      \* the ports the server may be told to listen on

BufSize(c) == Len(Fill[c])

ASSUME ThroughputAssumption ==
    /\ ChunkSize \in Nat \ {0}
    /\ Fill \in [Clients -> Seq(Byte)] /\ \A c \in Clients : BufSize(c) < U64
    /\ Ports \subseteq Nat \ {0}

Address == 9090     \* the port every client connects to
AnyPort == 0        \* bind picks a free one

VARIABLES step,     \* step[c]: what client c is at
          handle,   \* handle[c]: the handle its allocation returned
          pos,      \* pos[c]: where the current chunk starts (i in the loop)
          port,     \* the port the server tries, or has
          listen,   \* what the server's main is at
          busy      \* the ports other programs listen on

program == <<step, handle, pos>>
main == <<port, listen, busy>>
allVars == <<vars, program, main>>

TInit ==
    /\ Init
    /\ step = [c \in Clients |-> "connect"]
    /\ handle = [c \in Clients |-> 0]
    /\ pos = [c \in Clients |-> 0]
    /\ port \in Ports /\ listen = "bind" /\ busy \in SUBSET Ports

-----------------------------------------------------------------------------
(* The server's main *)

\* Mutant: the same port is tried again.
NextPort_same == port
NextPort == AnyPort

\* A port that is in use is given up for any free one; another error ends main.
try_listen_on ==
    /\ listen = "bind"
    /\ \/ port \notin busy /\ listen' = "listening" /\ UNCHANGED port
       \/ port \in busy /\ port' = NextPort /\ UNCHANGED listen
       \/ listen' = "failed" /\ UNCHANGED port
    /\ UNCHANGED <<vars, program, busy>>

Connected(c) == step[c] \notin {"connect", "ConnectionError", "elsewhere"}

\* accept fails (too many open files): run returns, main ends, and with it
\* every task.
AcceptFails ==
    /\ listen = "listening"
    /\ \E c \in Clients : Connected(c) /\ pc[c] = "accept"
    /\ listen' = "failed"
    /\ pc' = [c \in Clients |-> "ended"]
    /\ queue' = <<>> /\ readers' = {} /\ writer' = Nobody
    /\ UNCHANGED <<sent, taken, outbox, log, closed, reply, copied, pages, program,
                   port, busy>>

-----------------------------------------------------------------------------
\* j = min(i + chunk_size, buf_size)
ChunkEnd(c) == Least(pos[c] + ChunkSize, BufSize(c))

chunk(c) == SubSeq(Fill[c], pos[c] + 1, ChunkEnd(c))

Goto(c, s) == step' = [step EXCEPT ![c] = s]

\* TcpStream::connect reaches whoever listens on the port: the server, or the
\* program that made the server give it up.
connect(c) ==
    /\ step[c] = "connect"
    /\ Goto(c, IF listen = "listening" /\ port = Address THEN "alloc"
               ELSE IF Address \in busy THEN "elsewhere" ELSE "ConnectionError")
    /\ UNCHANGED <<vars, handle, pos>>

Ask(c, r, from, to) ==
    /\ step[c] = from
    /\ Send(c, r)
    /\ Goto(c, to)
    /\ UNCHANGED <<handle, pos>>

SendAlloc(c) == Ask(c, [op |-> "ALLOC", size |-> BufSize(c)], "alloc", "allocating")

SendWrite(c) ==
    Ask(c, [op |-> "WRITE", handle |-> handle[c], offset |-> pos[c], buf |-> chunk(c)],
        "write", "writing")

SendRead(c) ==
    Ask(c, [op |-> "READ", handle |-> handle[c], offset |-> pos[c],
            len |-> ChunkEnd(c) - pos[c]],
        "read", "reading")

\* Only an OkWithHandle reply is accepted.
AllocReply(c) ==
    /\ step[c] = "allocating"
    /\ Receive(c)
    /\ LET m == Head(outbox[c])
       IN  IF m.kind = "OK_H"
           THEN Goto(c, "write") /\ handle' = [handle EXCEPT ![c] = m.handle]
           ELSE Goto(c, "BadResponse") /\ UNCHANGED handle
    /\ UNCHANGED pos

\* The reply to a write is not looked at.
WriteReply(c) ==
    /\ step[c] = "writing"
    /\ Receive(c)
    /\ Goto(c, "read")
    /\ UNCHANGED <<handle, pos>>

\* The loop goes on while a chunk is left.
\* Mutants: a last, partial chunk is left out; one chunk too many is tried.
More_floor(c) == pos[c] + 2 * ChunkSize <= BufSize(c)
More_extra(c) == pos[c] < BufSize(c)
More(c) == pos[c] + ChunkSize < BufSize(c)

\* The bytes read are compared with the chunk that was written.
ReadReply(c) ==
    /\ step[c] = "reading"
    /\ Receive(c)
    /\ pos' = [pos EXCEPT ![c] = @ + ChunkSize]
    /\ Goto(c, IF Head(outbox[c]) # OkBuffer(chunk(c)) THEN "BadResponse"
               ELSE IF More(c) THEN "write" ELSE "finished")
    /\ UNCHANGED handle

\* The server dropped the connection: read_next or write_to reports it.
Lost(c) ==
    /\ pc[c] = "ended"
    /\ \/ /\ step[c] \in {"allocating", "writing", "reading"} /\ outbox[c] = <<>>
          /\ Goto(c, "ReceiveError")
       \/ step[c] \in {"alloc", "write", "read"} /\ Goto(c, "MessageEncodingError")
    /\ UNCHANGED <<vars, handle, pos>>

Over == {"finished", "BadResponse", "ReceiveError", "MessageEncodingError"}

\* The function returns, or the whole client is killed: its socket is dropped.
Drop(c) ==
    /\ Connected(c)
    /\ Close(c)
    /\ IF step[c] \in Over THEN UNCHANGED step ELSE Goto(c, "killed")
    /\ UNCHANGED <<handle, pos>>

Client(c) ==
    /\ \/ connect(c) \/ SendAlloc(c) \/ SendWrite(c) \/ SendRead(c)
       \/ AllocReply(c) \/ WriteReply(c) \/ ReadReply(c) \/ Lost(c)
    /\ UNCHANGED main

Serve(c) == Connected(c) /\ Task(c) /\ UNCHANGED <<program, main>>

TNext ==
    \/ try_listen_on \/ AcceptFails
    \/ \E c \in Clients : Serve(c) \/ Client(c) \/ (Drop(c) /\ UNCHANGED main)

\* Tasks and clients that can go on do, and so does the server's main; a bind
\* that fails is never owed.
TFairness ==
    /\ WF_allVars(try_listen_on /\ listen' # "failed")
    /\ \A c \in Clients : WF_allVars(Serve(c)) /\ WF_allVars(Client(c))

TSpec == TInit /\ [][TNext]_allVars /\ TFairness

-----------------------------------------------------------------------------
(* Properties *)

Steps == {"connect", "alloc", "allocating", "write", "writing", "read", "reading"}
         \cup Over \cup {"ConnectionError", "elsewhere", "killed"}

TTypeOK ==
    /\ step \in [Clients -> Steps]
    /\ port \in Ports \cup {AnyPort} /\ listen \in {"bind", "listening", "failed"}
    /\ handle \in [Clients -> Nat]
    /\ \A c \in Clients :
          /\ pos[c] \in 0 .. BufSize(c) + ChunkSize - 1
          /\ step[c] \in {"write", "writing", "read", "reading"}
                => pos[c] < BufSize(c)   \* &buf[i..j] is a valid slice

\* "Read did not match write." is never reported, nor any other bad response:
\* what a client reads back is what it wrote, whatever the other clients do.
ReadBack == \A c \in Clients : step[c] # "BadResponse"

\* When a client has finished, its buffer at the server holds its whole data,
\* chunk boundaries and a last partial chunk included.
StoredWhole ==
    \A c \in Clients :
        step[c] = "finished" => SubSeq(pages[handle[c] + 1], 1, BufSize(c)) = Fill[c]

\* Every client finishes, or reports that it could not connect or that the
\* server dropped it (mmap failed, or the server ended), unless it is killed or
\* reached another program; the others' death does not keep it waiting.
Completion ==
    \A c \in Clients :
        <>(step[c] \in (Over \ {"BadResponse"}) \cup {"ConnectionError", "elsewhere", "killed"})

\* try_listen_on returns, also when the port it was given stays in use.
ServerStarts == <>(listen # "bind")
=============================================================================
