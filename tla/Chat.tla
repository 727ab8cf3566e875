-------------------------------- MODULE Chat --------------------------------
(***************************************************************************)
(* The chat proof of concept (POC-client-server): client and server take   *)
(* turns.  A turn is a sequence of words and ends with "*"; a word that    *)
(* starts with "#" is sent twice, ends the turn and ends the program after *)
(* the other side's turn.  A word is its first character, the only one the *)
(* programs look at, and is sent and received whole.  recv on a connection *)
(* that the peer has closed leaves the buffer as it is.                    *)
(***************************************************************************)
EXTENDS Naturals, Sequences

CONSTANT MaxWords   \* bound on the ordinary words of one turn

ASSUME ChatAssumption == MaxWords \in Nat

VARIABLES c2s, s2c,       \* words in flight
          cpc, spc,       \* where client and server are
          cbuf, sbuf,     \* *buffer of each
          cexit, sexit,   \* exit_func of each
          words           \* ordinary words typed in this turn

client == <<cpc, cbuf, cexit>>
server == <<spc, sbuf, sexit>>
vars == <<c2s, s2c, client, server, words>>

Hello == "S"   \* "Server connected...\n"
Typed == {"w", "*", "#"}

Init ==
    /\ c2s = <<>> /\ s2c = <<>>
    /\ cpc = "hello" /\ spc = "greet"
    /\ cbuf = "" /\ sbuf = ""
    /\ cexit = FALSE /\ sexit = FALSE
    /\ words = 0

\* cin >> buffer: a user ends the turn at the latest after MaxWords words.
Input(x) ==
    /\ x = "w" => words < MaxWords
    /\ words' = IF x = "w" THEN words + 1 ELSE 0

-----------------------------------------------------------------------------
(* The client *)

ClientHello ==
    /\ cpc = "hello" /\ s2c # <<>>
    /\ cbuf' = Head(s2c) /\ s2c' = Tail(s2c)
    /\ cpc' = "type"
    /\ UNCHANGED <<c2s, cexit, server, words>>

\* Mutant: "*" does not end the turn.
ClientType_on ==
    /\ cpc = "type"
    /\ \E x \in Typed :
          /\ Input(x)
          /\ c2s' = Append(c2s, x) /\ cbuf' = x
          /\ cpc' = IF x = "#" THEN "type2" ELSE "type"
    /\ UNCHANGED <<s2c, cexit, server>>
ClientType ==
    /\ cpc = "type"
    /\ \E x \in Typed :
          /\ Input(x)
          /\ c2s' = Append(c2s, x) /\ cbuf' = x
          /\ cpc' = CASE x = "w" -> "type" [] x = "*" -> "recv" [] x = "#" -> "type2"
    /\ UNCHANGED <<s2c, cexit, server>>

\* Mutant: the client closes without waiting for the server's turn.
ClientHash_leaves ==
    /\ cpc = "type2"
    /\ c2s' = Append(c2s, "#")
    /\ cbuf' = "*" /\ cexit' = TRUE
    /\ cpc' = "closed"
    /\ UNCHANGED <<s2c, server, words>>
\* The second send, and the end of the turn
ClientHash ==
    /\ cpc = "type2"
    /\ c2s' = Append(c2s, "#")
    /\ cbuf' = "*" /\ cexit' = TRUE
    /\ cpc' = "recv"
    /\ UNCHANGED <<s2c, server, words>>

\* The loop over recv ends with "*"; a "#" is replaced by it.
ClientRecv ==
    /\ cpc = "recv"
    /\ \E x \in IF s2c # <<>> THEN {Head(s2c)} ELSE IF spc = "closed" THEN {cbuf} ELSE {} :
          /\ cbuf' = IF x = "#" THEN "*" ELSE x
          /\ cexit' = (cexit \/ x = "#")
          /\ cpc' = IF cbuf' # "*" THEN "recv" ELSE IF cexit' THEN "closed" ELSE "type"
    /\ s2c' = IF s2c # <<>> THEN Tail(s2c) ELSE s2c
    /\ UNCHANGED <<c2s, server, words>>

-----------------------------------------------------------------------------
(* The server *)

ServerGreet ==
    /\ spc = "greet"
    /\ s2c' = Append(s2c, Hello) /\ sbuf' = Hello
    /\ spc' = "first"
    /\ UNCHANGED <<c2s, client, sexit, words>>

\* Mutant: the client's first turn is over after one word.
ServerFirst_one ==
    /\ spc = "first" /\ c2s # <<>>
    /\ sbuf' = "*" /\ sexit' = (Head(c2s) = "#")
    /\ spc' = "type"
    /\ c2s' = Tail(c2s)
    /\ UNCHANGED <<s2c, client, words>>
\* The client's first turn; the client does not close before the server's.
ServerFirst ==
    /\ spc = "first" /\ c2s # <<>>
    /\ LET x == Head(c2s)
       IN  /\ sbuf' = IF x = "#" THEN "*" ELSE x
           /\ sexit' = (sexit \/ x = "#")
           /\ spc' = IF sbuf' = "*" THEN "type" ELSE "first"
    /\ c2s' = Tail(c2s)
    /\ UNCHANGED <<s2c, client, words>>

ServerType ==
    /\ spc = "type"
    /\ \E x \in Typed :
          /\ Input(x)
          /\ s2c' = Append(s2c, x) /\ sbuf' = x
          /\ spc' = CASE x = "w" -> "type" [] x = "*" -> "recv" [] x = "#" -> "type2"
    /\ UNCHANGED <<c2s, sexit, client>>

\* Mutant: the "#" stays in the buffer.
ServerHash_stays ==
    /\ spc = "type2"
    /\ s2c' = Append(s2c, "#")
    /\ sexit' = TRUE
    /\ spc' = "recv"
    /\ UNCHANGED <<c2s, sbuf, client, words>>
ServerHash ==
    /\ spc = "type2"
    /\ s2c' = Append(s2c, "#")
    /\ sbuf' = "*" /\ sexit' = TRUE
    /\ spc' = "recv"
    /\ UNCHANGED <<c2s, client, words>>

\* The later turns of the client: here a "#" is only compared with "*", so the
\* loop goes on.
ServerRecv ==
    /\ spc = "recv"
    /\ \E x \in IF c2s # <<>> THEN {Head(c2s)} ELSE IF cpc = "closed" THEN {sbuf} ELSE {} :
          /\ sbuf' = x
          /\ sexit' = (sexit \/ x = "#")
          /\ spc' = IF x # "*" THEN "recv" ELSE IF sexit' THEN "closed" ELSE "type"
    /\ c2s' = IF c2s # <<>> THEN Tail(c2s) ELSE c2s
    /\ UNCHANGED <<s2c, client, words>>

-----------------------------------------------------------------------------
Client == ClientHello \/ ClientType \/ ClientHash \/ ClientRecv
Server == ServerGreet \/ ServerFirst \/ ServerType \/ ServerHash \/ ServerRecv

Next == Client \/ Server

\* Both programs run and their users type when it is their turn.
Fairness == WF_vars(Client) /\ WF_vars(Server)

Spec == Init /\ [][Next]_vars /\ Fairness

-----------------------------------------------------------------------------
(* Properties *)

TypeOK ==
    /\ c2s \in Seq(Typed) /\ Len(c2s) <= MaxWords + 2
    /\ s2c \in Seq(Typed \cup {Hello}) /\ Len(s2c) <= MaxWords + 2
    /\ cpc \in {"hello", "type", "type2", "recv", "closed"}
    /\ spc \in {"greet", "first", "type", "type2", "recv", "closed"}
    /\ cbuf \in Typed \cup {Hello, ""} /\ sbuf \in Typed \cup {Hello, ""}
    /\ cexit \in BOOLEAN /\ sexit \in BOOLEAN
    /\ words \in 0 .. MaxWords

\* The two users are never prompted at the same time: a turn passes only with "*"
\* or "#", also when the second "#" is still to be sent.
OneTurn == ~(cpc = "type" /\ spc = "type")

\* Neither types into a connection that the other has closed (send would raise
\* SIGPIPE); only the second "#" may be sent after the first has ended the peer.
NoSendAfterClose ==
    /\ cpc = "closed" => spc # "type"
    /\ spc = "closed" => cpc \notin {"type", "type2"}

\* A "#" typed at the server ends both programs, unless it has received one
\* before.
ServerHashEnds ==
    spc = "type2" /\ ~sexit ~> cpc = "closed" /\ spc = "closed"

\* "Enter # to end the connection": a "#" typed by either ends both programs.
HashEnds == (cexit \/ sexit) ~> cpc = "closed" /\ spc = "closed"
=============================================================================
