-------------------------- MODULE ChatMerkleProofs --------------------------
(***************************************************************************)
(* The chat, for turns of any length: whose turn it is, what is in flight  *)
(* and how the programs end.  The Merkle tree, for blobs of any size and   *)
(* blocks of any size: the tree covers the blob, and what is set stays set.*)
(***************************************************************************)
EXTENDS Chat, MerkleTree, FiniteSetTheorems, FunctionTheorems,
        SequenceTheorems, WellFoundedInduction, TLAPS

-----------------------------------------------------------------------------
(* The chat *)

\* Ordinary words, up to a last one that is e
Plain(s, e) == \A i \in 1 .. Len(s) : s[i] = IF i = Len(s) THEN e ELSE "w"

\* Ordinary words and then "#" twice
Twice(s) == Len(s) >= 2 /\ \A i \in 1 .. Len(s) : s[i] = IF i >= Len(s) - 1 THEN "#" ELSE "w"

Greeting ==
    /\ cpc = "hello" /\ ~cexit /\ ~sexit /\ c2s = <<>>
    /\ \/ spc = "greet" /\ s2c = <<>>
       \/ spc = "first" /\ s2c = <<Hello>>

\* The client types, or the end of its turn is on its way.
ClientTurn ==
    /\ spc \in {"first", "recv"} /\ s2c = <<>> /\ ~sexit
    /\ \/ cpc = "type" /\ ~cexit /\ Plain(c2s, "w") /\ Len(c2s) <= words
       \/ cpc = "type2" /\ ~cexit /\ c2s # <<>> /\ Plain(c2s, "#") /\ Len(c2s) <= MaxWords + 1
       \/ cpc = "recv" /\ ~cexit /\ c2s # <<>> /\ Plain(c2s, "*")
       \/ cpc = "recv" /\ cexit /\ Twice(c2s)

\* The server types, or the end of its turn is on its way.
ServerTurn ==
    /\ cpc = "recv" /\ c2s = <<>> /\ ~cexit
    /\ \/ spc = "type" /\ ~sexit /\ Plain(s2c, "w") /\ Len(s2c) <= words
       \/ spc = "type2" /\ ~sexit /\ s2c # <<>> /\ Plain(s2c, "#") /\ Len(s2c) <= MaxWords + 1
       \/ spc = "recv" /\ ~sexit /\ s2c # <<>> /\ Plain(s2c, "*")
       \/ spc = "recv" /\ sexit /\ sbuf = "*" /\ Twice(s2c)

\* The server's "#" has ended the client; the second one may still be sent.
ServerEnds ==
    /\ cpc = "closed" /\ c2s = <<>> /\ Len(s2c) <= 1
    /\ \/ spc = "type2" /\ s2c = <<>>
       \/ spc \in {"recv", "closed"} /\ sbuf = "*" /\ sexit

\* The client typed "#" in a later turn: both wait for the other for ever.
BothWait ==
    /\ spc = "recv" /\ s2c = <<>> /\ sexit
    /\ \/ cpc = "type2" /\ ~cexit /\ c2s = <<>>
       \/ cpc = "recv" /\ cexit /\ c2s \in {<<>>, <<"#">>}

\* The client typed "#" in its first turn: the second one reaches the server after
\* its own turn, or while it still types, and stays in its buffer.
FirstHash ==
    /\ sexit
    /\ \/ cpc = "type2" /\ ~cexit /\ c2s = <<>>
       \/ cpc \in {"recv", "closed"} /\ cexit
          /\ (c2s = <<"#">> \/ (c2s = <<>> /\ spc = "recv" /\ sbuf = "#"))
    /\ \/ spc = "type" /\ cpc # "closed" /\ Plain(s2c, "w") /\ Len(s2c) <= words
       \/ spc = "type2" /\ cpc # "closed" /\ s2c # <<>> /\ Plain(s2c, "#")
          /\ Len(s2c) <= MaxWords + 1
       \/ spc = "type2" /\ cpc = "closed" /\ s2c = <<>>
       \/ spc = "recv" /\ cpc # "closed" /\ s2c # <<>> /\ Plain(s2c, "*")
       \/ spc = "recv" /\ cpc # "closed" /\ Twice(s2c)
       \/ spc = "recv" /\ cpc = "closed" /\ Len(s2c) <= 1

\* The inductive invariant
CInv ==
    /\ TypeOK
    /\ Greeting \/ ClientTurn \/ ServerTurn \/ ServerEnds \/ BothWait \/ FirstHash

-----------------------------------------------------------------------------
(* What is in flight *)

\* Nothing in flight is a turn that has just begun.
LEMMA PlainEmpty == \A e : Plain(<<>>, e)
  BY DEF Plain

\* A word or the end of the turn is sent.
LEMMA PlainAppend ==
    ASSUME NEW S, NEW s \in Seq(S), NEW e \in S, Plain(s, "w")
    PROVE  /\ Plain(Append(s, e), e) /\ Append(s, e) # <<>>
           /\ Append(s, e) \in Seq(S) /\ Len(Append(s, e)) = Len(s) + 1
<1> DEFINE t == Append(s, e)
<1>1. t \in Seq(S) /\ Len(t) = Len(s) + 1 /\ Len(s) \in Nat
  OBVIOUS
<1>2. t[Len(s) + 1] = e /\ \A i \in 1 .. Len(s) : t[i] = s[i]
  OBVIOUS
<1> HIDE DEF t
<1>3. Plain(t, e) /\ t # <<>>
  BY <1>1, <1>2 DEF Plain
<1> QED
  BY <1>1, <1>3 DEF t

\* The second "#" is sent.
LEMMA TwiceAppend ==
    ASSUME NEW S, NEW s \in Seq(S), "#" \in S, Plain(s, "#"), s # <<>>
    PROVE  /\ Twice(Append(s, "#")) /\ Append(s, "#") \in Seq(S)
           /\ Len(Append(s, "#")) = Len(s) + 1
<1> DEFINE t == Append(s, "#")
<1>1. t \in Seq(S) /\ Len(t) = Len(s) + 1 /\ Len(s) \in Nat /\ Len(s) >= 1
  OBVIOUS
<1>2. t[Len(s) + 1] = "#" /\ \A i \in 1 .. Len(s) : t[i] = s[i]
  OBVIOUS
<1> HIDE DEF t
<1>3. Twice(t)
  BY <1>1, <1>2 DEF Plain, Twice
<1> QED
  BY <1>1, <1>3 DEF t

\* Receiving takes the first word.
LEMMA HeadTail ==
    ASSUME NEW S, NEW s \in Seq(S), s # <<>>
    PROVE  /\ Tail(s) \in Seq(S) /\ Len(s) \in Nat /\ Len(s) >= 1 /\ Len(Tail(s)) = Len(s) - 1
           /\ Head(s) = s[1] /\ \A i \in 1 .. Len(s) - 1 : Tail(s)[i] = s[i + 1]
           /\ Len(s) = 1 => Tail(s) = <<>>
<1>1. /\ Tail(s) \in Seq(S) /\ Len(Tail(s)) = Len(s) - 1
      /\ \A i \in 1 .. Len(Tail(s)) : Tail(s)[i] = s[i + 1]
  BY HeadTailProperties
<1>2. Len(s) \in Nat /\ Len(s) >= 1 /\ Head(s) = s[1]
  OBVIOUS
<1>3. Len(s) = 1 => Tail(s) = <<>>
  <2>1. \A t \in Seq(S) : Len(t) = 0 => t = <<>>
    BY EmptySeq
  <2>2. Len(s) = 1 => Len(s) - 1 = 0
    OBVIOUS
  <2> QED
    BY <1>1, <2>1, <2>2, Zenon
<1>4. 1 .. Len(Tail(s)) = 1 .. Len(s) - 1
  BY <1>1
<1> QED
  BY <1>1, <1>2, <1>3, <1>4, Zenon

\* A word is received: the last one is e.
LEMMA PlainTail ==
    ASSUME NEW S, NEW s \in Seq(S), NEW e, Plain(s, e), s # <<>>
    PROVE  /\ Tail(s) \in Seq(S) /\ Len(Tail(s)) = Len(s) - 1
           /\ \/ Head(s) = e /\ Tail(s) = <<>>
              \/ Head(s) = "w" /\ Tail(s) # <<>> /\ Plain(Tail(s), e)
<1> DEFINE t == Tail(s)
<1>1. /\ t \in Seq(S) /\ Len(s) \in Nat /\ Len(s) >= 1 /\ Len(t) = Len(s) - 1
      /\ Head(s) = s[1] /\ \A i \in 1 .. Len(s) - 1 : t[i] = s[i + 1]
      /\ Len(s) = 1 => t = <<>>
  BY HeadTail
<1> HIDE DEF t
<1>2. CASE Len(s) = 1
  BY <1>1, <1>2 DEF Plain, t
<1>3. CASE Len(s) > 1
  <2>1. Head(s) = "w" /\ t # <<>>
    BY <1>1, <1>3 DEF Plain
  <2>2. Plain(t, e)
    BY <1>1, <1>3 DEF Plain
  <2> QED
    BY <1>1, <2>1, <2>2 DEF t
<1> QED
  BY <1>1, <1>2, <1>3

\* A word is received: the last two are "#".
LEMMA TwiceTail ==
    ASSUME NEW S, NEW s \in Seq(S), Twice(s)
    PROVE  /\ Tail(s) \in Seq(S) /\ Len(Tail(s)) = Len(s) - 1 /\ s # <<>>
           /\ \/ Head(s) = "#" /\ Tail(s) = <<"#">>
              \/ Head(s) = "w" /\ Twice(Tail(s))
<1> DEFINE t == Tail(s)
<1>0. s # <<>>
  BY DEF Twice
<1>1. /\ t \in Seq(S) /\ Len(s) \in Nat /\ Len(s) >= 2 /\ Len(t) = Len(s) - 1
      /\ Head(s) = s[1] /\ \A i \in 1 .. Len(s) - 1 : t[i] = s[i + 1]
  BY <1>0, HeadTail DEF Twice
<1> HIDE DEF t
<1>2. CASE Len(s) = 2
  <2>1. Head(s) = "#" /\ Len(t) = 1 /\ t[1] = "#"
    BY <1>1, <1>2 DEF Twice
  <2>2. t = <<"#">>
    BY <1>1, <2>1
  <2> QED
    BY <1>0, <1>1, <2>1, <2>2 DEF t
<1>3. CASE Len(s) > 2
  <2>1. Head(s) = "w" /\ Twice(t)
    BY <1>1, <1>3 DEF Twice
  <2> QED
    BY <1>0, <1>1, <2>1 DEF t
<1> QED
  BY <1>1, <1>2, <1>3

\* The parts of the type invariant
LEMMA Types ==
    ASSUME TypeOK
    PROVE  /\ c2s \in Seq(Typed) /\ Len(c2s) \in Nat /\ Len(c2s) <= MaxWords + 2
           /\ s2c \in Seq(Typed \cup {Hello}) /\ Len(s2c) \in Nat /\ Len(s2c) <= MaxWords + 2
           /\ words \in Nat /\ words <= MaxWords /\ MaxWords \in Nat
<1>1. /\ c2s \in Seq(Typed) /\ s2c \in Seq(Typed \cup {Hello}) /\ words \in 0 .. MaxWords
      /\ Len(c2s) <= MaxWords + 2 /\ Len(s2c) <= MaxWords + 2
  BY Zenon DEF TypeOK
<1> QED
  BY <1>1, ChatAssumption

-----------------------------------------------------------------------------
(* The client's steps *)

\* The greeting begins the client's turn.
LEMMA HelloKeeps == ASSUME CInv, ClientHello PROVE CInv'
<1>1. Greeting /\ spc = "first" /\ s2c = <<Hello>> /\ c2s = <<>>
  BY DEF CInv, Greeting, ClientTurn, ServerTurn, ServerEnds, BothWait, FirstHash, ClientHello
<1>2. /\ cbuf' = Hello /\ s2c' = <<>> /\ cpc' = "type"
      /\ UNCHANGED <<c2s, cexit, spc, sbuf, sexit, words>>
  BY <1>1 DEF ClientHello, server
<1>3. Len(<<>>) = 0 /\ 0 <= MaxWords + 2 /\ <<>> \in Seq(Typed \cup {Hello}) /\ 0 <= words
  BY ChatAssumption, Types, EmptySeq DEF CInv
<1>4. TypeOK'
  BY <1>2, <1>3, Zenon DEF CInv, TypeOK
<1>5. ClientTurn'
  BY <1>1, <1>2, <1>3, PlainEmpty, Zenon DEF Greeting, ClientTurn
<1> QED
  BY <1>4, <1>5 DEF CInv

\* A word, the end of the turn or the first "#"
LEMMA ClientTypeKeeps == ASSUME CInv, ClientType PROVE CInv'
<1>1. ClientTurn /\ ~cexit /\ Plain(c2s, "w") /\ Len(c2s) <= words
  BY DEF CInv, Greeting, ClientTurn, ServerTurn, ServerEnds, BothWait, FirstHash, ClientType
<1>2. PICK x \in Typed :
          /\ Input(x)
          /\ c2s' = Append(c2s, x) /\ cbuf' = x
          /\ cpc' = CASE x = "w" -> "type" [] x = "*" -> "recv" [] x = "#" -> "type2"
  BY Zenon DEF ClientType
<1>3. UNCHANGED <<s2c, cexit, spc, sbuf, sexit>>
  BY DEF ClientType, server
<1>4. TypeOK
  BY DEF CInv
<1>5. /\ Plain(c2s', x) /\ c2s' # <<>> /\ c2s' \in Seq(Typed) /\ Len(c2s') = Len(c2s) + 1
  BY <1>1, <1>2, <1>4, PlainAppend, Types
<1>6. /\ words' \in 0 .. MaxWords /\ Len(c2s') <= MaxWords + 1 /\ Len(c2s') <= MaxWords + 2
      /\ x = "w" => Len(c2s') <= words'
  BY <1>1, <1>2, <1>4, <1>5, Types DEF Input
<1>7. \/ x = "w" /\ cpc' = "type"
      \/ x = "*" /\ cpc' = "recv"
      \/ x = "#" /\ cpc' = "type2"
  BY <1>2 DEF Typed
<1>8. TypeOK'
  BY <1>2, <1>3, <1>4, <1>5, <1>6, <1>7, Zenon DEF TypeOK
<1>9. ClientTurn'
  BY <1>1, <1>3, <1>5, <1>6, <1>7, Zenon DEF ClientTurn
<1> QED
  BY <1>8, <1>9 DEF CInv

\* The second "#"; in the meantime the server may have acted on the first.
LEMMA ClientHashKeeps == ASSUME CInv, ClientHash PROVE CInv'
<1>1. /\ cpc = "type2" /\ c2s' = Append(c2s, "#") /\ cbuf' = "*" /\ cexit' = TRUE
      /\ cpc' = "recv" /\ UNCHANGED <<s2c, spc, sbuf, sexit, words>>
  BY DEF ClientHash, server
<1>2. TypeOK /\ "*" \in Typed /\ "#" \in Typed
  BY DEF CInv, Typed
<1>3. \/ ClientTurn /\ c2s # <<>> /\ Plain(c2s, "#") /\ Len(c2s) <= MaxWords + 1
      \/ BothWait /\ c2s = <<>>
      \/ FirstHash /\ c2s = <<>>
  BY <1>1, Zenon DEF CInv, Greeting, ClientTurn, ServerTurn, ServerEnds, BothWait, FirstHash
<1>4. CASE ClientTurn /\ c2s # <<>> /\ Plain(c2s, "#") /\ Len(c2s) <= MaxWords + 1
  <2>1. Twice(c2s') /\ c2s' \in Seq(Typed) /\ Len(c2s') = Len(c2s) + 1
    BY <1>1, <1>2, <1>4, TwiceAppend, Types
  <2>2. Len(c2s') <= MaxWords + 2
    BY <1>2, <1>4, <2>1, Types
  <2>3. TypeOK'
    BY <1>1, <1>2, <2>1, <2>2, Zenon DEF TypeOK
  <2>4. ClientTurn'
    BY <1>1, <1>4, <2>1, Zenon DEF ClientTurn
  <2> QED
    BY <2>3, <2>4 DEF CInv
<1>5. CASE c2s = <<>> /\ (BothWait \/ FirstHash)
  <2>1. c2s' = <<"#">> /\ c2s' \in Seq(Typed) /\ Len(c2s') = 1
    BY <1>1, <1>2, <1>5
  <2>2. Len(c2s') <= MaxWords + 2
    BY <2>1, ChatAssumption
  <2>3. TypeOK'
    BY <1>1, <1>2, <2>1, <2>2, Zenon DEF TypeOK
  <2>4. CASE BothWait
    BY <1>1, <2>1, <2>3, <2>4, Zenon DEF CInv, BothWait
  <2>5. CASE FirstHash
    <3>1. FirstHash'
      BY <1>1, <2>1, <2>5, Zenon DEF FirstHash
    <3> QED
      BY <2>3, <3>1 DEF CInv
  <2> QED
    BY <1>5, <2>4, <2>5
<1> QED
  BY <1>3, <1>4, <1>5

\* What recv gives the client: a word of the server's turn.  The server never
\* closes first.
LEMMA ClientRecvStep ==
    ASSUME CInv, ClientRecv
    PROVE  /\ s2c # <<>> /\ cpc = "recv" /\ s2c' = Tail(s2c)
           /\ cbuf' = IF Head(s2c) = "#" THEN "*" ELSE Head(s2c)
           /\ cexit' = (cexit \/ Head(s2c) = "#")
           /\ cpc' = IF cbuf' # "*" THEN "recv" ELSE IF cexit' THEN "closed" ELSE "type"
           /\ UNCHANGED <<c2s, spc, sbuf, sexit, words>>
<1>1. cpc = "recv" /\ spc # "closed"
  BY Zenon DEF CInv, Greeting, ClientTurn, ServerTurn, ServerEnds, BothWait, FirstHash, ClientRecv
<1>2. s2c # <<>>
  BY <1>1, Zenon DEF ClientRecv
<1> QED
  BY <1>1, <1>2, Zenon DEF ClientRecv, server

\* A word of the server's turn, or its end
LEMMA ClientRecvKeeps == ASSUME CInv, ClientRecv PROVE CInv'
<1> DEFINE h == Head(s2c)
           t == Tail(s2c)
<1>1. /\ s2c # <<>> /\ cpc = "recv" /\ s2c' = t
      /\ cbuf' = IF h = "#" THEN "*" ELSE h
      /\ cexit' = (cexit \/ h = "#")
      /\ cpc' = IF cbuf' # "*" THEN "recv" ELSE IF cexit' THEN "closed" ELSE "type"
      /\ UNCHANGED <<c2s, spc, sbuf, sexit, words>>
  BY ClientRecvStep
<1>2. TypeOK /\ s2c \in Seq(Typed \cup {Hello})
  BY Types DEF CInv
<1>3. /\ \A e : Plain(s2c, e) => \/ h = e /\ t = <<>>
                                 \/ h = "w" /\ t # <<>> /\ Plain(t, e)
      /\ Twice(s2c) => \/ h = "#" /\ t = <<"#">>
                       \/ h = "w" /\ Twice(t)
      /\ t \in Seq(Typed \cup {Hello}) /\ Len(t) = Len(s2c) - 1
  BY <1>1, <1>2, PlainTail, TwiceTail, HeadTail
<1>4. /\ Len(t) <= MaxWords + 2 /\ (Len(s2c) <= words => Len(t) <= words)
      /\ (Len(s2c) <= MaxWords + 1 => Len(t) <= MaxWords + 1)
      /\ Len(<<>>) <= 1 /\ Len(<<"#">>) <= 1 /\ 0 <= words /\ Len(<<>>) <= words
  BY <1>2, <1>3, Types
<1> HIDE DEF h, t
<1>5. \/ Plain(s2c, "w") \/ Plain(s2c, "#") \/ Plain(s2c, "*") \/ Twice(s2c)
  BY <1>1, Zenon DEF CInv, Greeting, ClientTurn, ServerTurn, ServerEnds, BothWait, FirstHash
<1>6. h \in Typed
  BY <1>3, <1>5, Zenon DEF Typed
<1>7. cpc' \in {"recv", "closed", "type"} /\ cbuf' \in Typed /\ cexit' \in BOOLEAN
  BY <1>1, <1>6, Zenon DEF Typed
<1>8. TypeOK'
  BY <1>1, <1>2, <1>3, <1>4, <1>7, Zenon DEF TypeOK
<1>9. ServerTurn \/ FirstHash
  BY <1>1, Zenon DEF CInv, Greeting, ClientTurn, ServerEnds, BothWait
<1>10. CASE ServerTurn
  <2>1. h = "w" => ServerTurn'
    BY <1>1, <1>3, <1>4, <1>10, PlainEmpty, Zenon DEF ServerTurn
  <2>2. h = "#" => ServerEnds'
    BY <1>1, <1>3, <1>4, <1>10, Zenon DEF ServerTurn, ServerEnds
  <2>3. h = "*" => ClientTurn'
    BY <1>1, <1>3, <1>4, <1>10, PlainEmpty, Zenon DEF ServerTurn, ClientTurn
  <2> QED
    BY <1>6, <1>8, <2>1, <2>2, <2>3 DEF CInv, Typed
<1>11. CASE FirstHash
  <2>1. h = "w" => FirstHash'
    BY <1>1, <1>3, <1>4, <1>11, PlainEmpty, Zenon DEF FirstHash
  <2>2. h \in {"#", "*"} => FirstHash'
    BY <1>1, <1>3, <1>4, <1>11, Zenon DEF FirstHash
  <2> QED
    BY <1>6, <1>8, <2>1, <2>2 DEF CInv, Typed
<1> QED
  BY <1>9, <1>10, <1>11

-----------------------------------------------------------------------------
(* The server's steps *)

\* "Server connected..."
LEMMA GreetKeeps == ASSUME CInv, ServerGreet PROVE CInv'
<1>1. Greeting /\ s2c = <<>> /\ spc = "greet"
  BY Zenon DEF CInv, Greeting, ClientTurn, ServerTurn, ServerEnds, BothWait, FirstHash, ServerGreet
<1>2. /\ s2c' = Append(s2c, Hello) /\ sbuf' = Hello /\ spc' = "first"
      /\ UNCHANGED <<c2s, cpc, cbuf, cexit, sexit, words>>
  BY DEF ServerGreet, client
<1>3. s2c' = <<Hello>> /\ s2c' \in Seq(Typed \cup {Hello}) /\ Len(s2c') <= MaxWords + 2
  BY <1>1, <1>2, ChatAssumption
<1>4. TypeOK'
  BY <1>2, <1>3, Zenon DEF CInv, TypeOK
<1>5. Greeting'
  BY <1>1, <1>2, <1>3, Zenon DEF Greeting
<1> QED
  BY <1>4, <1>5 DEF CInv

\* A word of the client's turn is taken from the connection.
LEMMA ServerHears ==
    ASSUME CInv, c2s # <<>>
    PROVE  /\ \A e : Plain(c2s, e) => \/ Head(c2s) = e /\ Tail(c2s) = <<>>
                                      \/ /\ Head(c2s) = "w" /\ Tail(c2s) # <<>>
                                         /\ Plain(Tail(c2s), e)
           /\ Twice(c2s) => \/ Head(c2s) = "#" /\ Tail(c2s) = <<"#">>
                            \/ Head(c2s) = "w" /\ Twice(Tail(c2s))
           /\ Tail(c2s) \in Seq(Typed) /\ Head(c2s) \in Typed
           /\ Len(Tail(c2s)) <= MaxWords + 2
           /\ Len(c2s) <= words => Len(Tail(c2s)) <= words
           /\ Len(c2s) <= MaxWords + 1 => Len(Tail(c2s)) <= MaxWords + 1
<1>1. c2s \in Seq(Typed) /\ TypeOK
  BY Types DEF CInv
<1>2. Tail(c2s) \in Seq(Typed) /\ Len(Tail(c2s)) = Len(c2s) - 1 /\ Head(c2s) \in Typed
  BY <1>1, HeadTailProperties
<1>3. /\ Len(Tail(c2s)) <= MaxWords + 2
      /\ Len(c2s) <= words => Len(Tail(c2s)) <= words
      /\ Len(c2s) <= MaxWords + 1 => Len(Tail(c2s)) <= MaxWords + 1
  BY <1>1, <1>2, Types
<1> QED
  BY <1>1, <1>2, <1>3, PlainTail, TwiceTail

\* The first turn ends with "*" or "#".
LEMMA FirstKeeps == ASSUME CInv, ServerFirst PROVE CInv'
<1> DEFINE h == Head(c2s)
           t == Tail(c2s)
<1>1. /\ spc = "first" /\ c2s # <<>> /\ c2s' = t
      /\ sbuf' = IF h = "#" THEN "*" ELSE h
      /\ sexit' = (sexit \/ h = "#")
      /\ spc' = IF sbuf' = "*" THEN "type" ELSE "first"
      /\ UNCHANGED <<s2c, cpc, cbuf, cexit, words>>
  BY Zenon DEF ServerFirst, client
<1>2. /\ \A e : Plain(c2s, e) => \/ h = e /\ t = <<>>
                                 \/ h = "w" /\ t # <<>> /\ Plain(t, e)
      /\ Twice(c2s) => \/ h = "#" /\ t = <<"#">>
                       \/ h = "w" /\ Twice(t)
      /\ t \in Seq(Typed) /\ h \in Typed /\ Len(t) <= MaxWords + 2
      /\ Len(c2s) <= words => Len(t) <= words
      /\ Len(c2s) <= MaxWords + 1 => Len(t) <= MaxWords + 1
  BY <1>1, ServerHears
<1>3. Len(<<>>) <= words
  BY Types DEF CInv
<1> HIDE DEF h, t
<1>4. ClientTurn
  BY <1>1, Zenon DEF CInv, Greeting, ServerTurn, ServerEnds, BothWait, FirstHash
<1>5. spc' \in {"type", "first"} /\ sbuf' \in Typed /\ sexit' \in BOOLEAN
  BY <1>1, <1>2, Zenon DEF Typed
<1>6. TypeOK'
  BY <1>1, <1>2, <1>5, Zenon DEF CInv, TypeOK
<1>7. h = "w" => ClientTurn'
  BY <1>1, <1>2, <1>4, PlainEmpty, Zenon DEF ClientTurn
<1>8. h = "*" => ServerTurn'
  BY <1>1, <1>2, <1>3, <1>4, PlainEmpty, Zenon DEF ClientTurn, ServerTurn
<1>9. h = "#" => FirstHash'
  BY <1>1, <1>2, <1>3, <1>4, PlainEmpty, Zenon DEF ClientTurn, FirstHash
<1> QED
  BY <1>2, <1>6, <1>7, <1>8, <1>9 DEF CInv, Typed

\* The server's turn, whether it leaves after it or not
LEMMA ServerTypeKeeps == ASSUME CInv, ServerType PROVE CInv'
<1>1. PICK x \in Typed :
          /\ Input(x)
          /\ s2c' = Append(s2c, x) /\ sbuf' = x
          /\ spc' = CASE x = "w" -> "type" [] x = "*" -> "recv" [] x = "#" -> "type2"
  BY Zenon DEF ServerType
<1>2. spc = "type" /\ UNCHANGED <<c2s, sexit, cpc, cbuf, cexit>>
  BY DEF ServerType, client
<1>3. /\ TypeOK /\ Plain(s2c, "w") /\ Len(s2c) <= words /\ cpc # "closed"
      /\ ServerTurn \/ FirstHash
  BY <1>2, Zenon DEF CInv, Greeting, ClientTurn, ServerTurn, ServerEnds, BothWait, FirstHash
<1>4. /\ Plain(s2c', x) /\ s2c' # <<>> /\ s2c' \in Seq(Typed \cup {Hello})
      /\ Len(s2c') = Len(s2c) + 1
  BY <1>1, <1>3, PlainAppend, Types
<1>5. /\ words' \in 0 .. MaxWords /\ Len(s2c') <= MaxWords + 1 /\ Len(s2c') <= MaxWords + 2
      /\ x = "w" => Len(s2c') <= words'
  BY <1>1, <1>3, <1>4, Types DEF Input
<1>6. \/ x = "w" /\ spc' = "type"
      \/ x = "*" /\ spc' = "recv"
      \/ x = "#" /\ spc' = "type2"
  BY <1>1 DEF Typed
<1>7. TypeOK'
  BY <1>1, <1>2, <1>3, <1>4, <1>5, <1>6, Zenon DEF TypeOK
<1>8. ServerTurn => ServerTurn'
  BY <1>2, <1>4, <1>5, <1>6, Zenon DEF ServerTurn
<1>9. FirstHash => FirstHash'
  BY <1>2, <1>3, <1>4, <1>5, <1>6, Zenon DEF FirstHash
<1> QED
  BY <1>3, <1>7, <1>8, <1>9 DEF CInv

\* The second "#"; the first may have ended the client.
LEMMA ServerHashKeeps == ASSUME CInv, ServerHash PROVE CInv'
<1>1. /\ spc = "type2" /\ s2c' = Append(s2c, "#") /\ sbuf' = "*" /\ sexit' = TRUE
      /\ spc' = "recv" /\ UNCHANGED <<c2s, cpc, cbuf, cexit, words>>
  BY DEF ServerHash, client
<1>2. TypeOK /\ "*" \in Typed /\ "#" \in Typed \cup {Hello}
  BY DEF CInv, Typed
<1>3. /\ ServerTurn \/ ServerEnds \/ FirstHash
      /\ \/ s2c # <<>> /\ Plain(s2c, "#") /\ Len(s2c) <= MaxWords + 1 /\ cpc # "closed"
         \/ s2c = <<>> /\ cpc = "closed"
  BY <1>1, Zenon DEF CInv, Greeting, ClientTurn, ServerTurn, ServerEnds, BothWait, FirstHash
<1>4. CASE s2c # <<>> /\ Plain(s2c, "#") /\ Len(s2c) <= MaxWords + 1 /\ cpc # "closed"
  <2>1. Twice(s2c') /\ s2c' \in Seq(Typed \cup {Hello}) /\ Len(s2c') = Len(s2c) + 1
    BY <1>1, <1>2, <1>4, TwiceAppend, Types
  <2>2. Len(s2c') <= MaxWords + 2
    BY <1>2, <1>4, <2>1, Types
  <2>3. TypeOK'
    BY <1>1, <1>2, <2>1, <2>2, Zenon DEF TypeOK
  <2>4. ServerTurn => ServerTurn'
    BY <1>1, <2>1, Zenon DEF ServerTurn
  <2>5. FirstHash => FirstHash'
    BY <1>1, <1>4, <2>1, Zenon DEF FirstHash
  <2> QED
    BY <1>3, <1>4, <2>3, <2>4, <2>5, Zenon DEF CInv, ServerEnds
<1>5. CASE s2c = <<>> /\ cpc = "closed"
  <2>1. s2c' = <<"#">> /\ s2c' \in Seq(Typed \cup {Hello}) /\ Len(s2c') = 1
    BY <1>1, <1>2, <1>5
  <2>2. Len(s2c') <= MaxWords + 2 /\ Len(s2c') <= 1
    BY <2>1, ChatAssumption
  <2>3. TypeOK'
    BY <1>1, <1>2, <2>1, <2>2, Zenon DEF TypeOK
  <2>4. ServerEnds => ServerEnds'
    BY <1>1, <2>2, Zenon DEF ServerEnds
  <2>5. FirstHash => FirstHash'
    BY <1>1, <1>5, <2>2, Zenon DEF FirstHash
  <2> QED
    BY <1>3, <1>5, <2>3, <2>4, <2>5, Zenon DEF CInv, ServerTurn
<1> QED
  BY <1>3, <1>4, <1>5

\* recv on the connection that the client has closed leaves the buffer as it is: a
\* "*" lets the server close too, a "#" keeps it in its loop.
LEMMA ServerRecvClosed == ASSUME CInv, ServerRecv, c2s = <<>> PROVE CInv'
<1>1. /\ spc = "recv" /\ cpc = "closed" /\ sbuf' = sbuf
      /\ sexit' = (sexit \/ sbuf = "#")
      /\ spc' = IF sbuf # "*" THEN "recv" ELSE IF sexit' THEN "closed" ELSE "type"
      /\ UNCHANGED <<c2s, s2c, cpc, cbuf, cexit, words>>
  BY Zenon DEF ServerRecv, client
<1>2. ServerEnds \/ FirstHash
  BY <1>1, Zenon DEF CInv, Greeting, ClientTurn, ServerTurn, BothWait
<1>3. ServerEnds => ServerEnds' /\ spc' = "closed" /\ sexit'
  BY <1>1, Zenon DEF ServerEnds
<1>4. FirstHash => FirstHash' /\ spc' = "recv" /\ sexit'
  BY <1>1, Zenon DEF FirstHash
<1>5. TypeOK'
  BY <1>1, <1>2, <1>3, <1>4, Zenon DEF CInv, TypeOK
<1> QED
  BY <1>2, <1>3, <1>4, <1>5 DEF CInv

\* A word of one of the client's later turns, or its end
LEMMA ServerRecvWord == ASSUME CInv, ServerRecv, c2s # <<>> PROVE CInv'
<1> DEFINE h == Head(c2s)
           t == Tail(c2s)
<1>1. /\ spc = "recv" /\ c2s' = t /\ sbuf' = h
      /\ sexit' = (sexit \/ h = "#")
      /\ spc' = IF h # "*" THEN "recv" ELSE IF sexit' THEN "closed" ELSE "type"
      /\ UNCHANGED <<s2c, cpc, cbuf, cexit, words>>
  BY Zenon DEF ServerRecv, client
<1>2. /\ \A e : Plain(c2s, e) => \/ h = e /\ t = <<>>
                                 \/ h = "w" /\ t # <<>> /\ Plain(t, e)
      /\ Twice(c2s) => \/ h = "#" /\ t = <<"#">>
                       \/ h = "w" /\ Twice(t)
      /\ t \in Seq(Typed) /\ h \in Typed /\ Len(t) <= MaxWords + 2
      /\ Len(c2s) <= words => Len(t) <= words
      /\ Len(c2s) <= MaxWords + 1 => Len(t) <= MaxWords + 1
  BY ServerHears
<1>3. Len(<<>>) <= words
  BY Types DEF CInv
<1>4. c2s = <<"#">> => h = "#" /\ t = <<>>
  OBVIOUS
<1> HIDE DEF h, t
<1>5. ClientTurn \/ BothWait \/ FirstHash
  BY <1>1, Zenon DEF CInv, Greeting, ServerTurn, ServerEnds
<1>6. spc' \in {"recv", "closed", "type"} /\ sexit' \in BOOLEAN
  BY <1>1, Zenon
<1>7. TypeOK'
  BY <1>1, <1>2, <1>6, Zenon DEF CInv, TypeOK
<1>8. CASE ClientTurn
  <2>1. h = "w" => ClientTurn'
    BY <1>1, <1>2, <1>8, PlainEmpty, Zenon DEF ClientTurn
  <2>2. h = "*" => ServerTurn'
    BY <1>1, <1>2, <1>3, <1>8, PlainEmpty, Zenon DEF ClientTurn, ServerTurn
  <2>3. h = "#" => BothWait'
    BY <1>1, <1>2, <1>8, Zenon DEF ClientTurn, BothWait
  <2> QED
    BY <1>2, <1>7, <2>1, <2>2, <2>3 DEF CInv, Typed
<1>9. BothWait => BothWait'
  BY <1>1, <1>4, Zenon DEF BothWait
<1>10. FirstHash => FirstHash'
  BY <1>1, <1>4, Zenon DEF FirstHash
<1> QED
  BY <1>5, <1>7, <1>8, <1>9, <1>10 DEF CInv

-----------------------------------------------------------------------------
(* The invariant *)

\* The programs start before the greeting.
LEMMA InitCInv == Init => CInv
<1> SUFFICES ASSUME Init PROVE CInv
  OBVIOUS
<1>1. /\ Len(<<>>) <= MaxWords + 2 /\ 0 \in 0 .. MaxWords
      /\ <<>> \in Seq(Typed) /\ <<>> \in Seq(Typed \cup {Hello})
  BY ChatAssumption
<1>2. TypeOK
  BY <1>1, Zenon DEF Init, TypeOK
<1>3. Greeting
  BY Zenon DEF Init, Greeting
<1> QED
  BY <1>2, <1>3 DEF CInv

\* Every step of either program keeps it.
LEMMA NextCInv == CInv /\ [Next]_vars => CInv'
<1> SUFFICES ASSUME CInv, [Next]_vars PROVE CInv'
  OBVIOUS
<1>1. CASE Client
  BY <1>1, HelloKeeps, ClientTypeKeeps, ClientHashKeeps, ClientRecvKeeps, Zenon DEF Client
<1>2. CASE Server
  BY <1>2, GreetKeeps, FirstKeeps, ServerTypeKeeps, ServerHashKeeps, ServerRecvClosed,
     ServerRecvWord, Zenon DEF Server
<1>3. CASE UNCHANGED vars
  <2>1. UNCHANGED <<c2s, s2c, cpc, cbuf, cexit, spc, sbuf, sexit, words>>
    BY <1>3, Zenon DEF vars, client, server
  <2>2. TypeOK'
    BY <2>1, Zenon DEF CInv, TypeOK
  <2>3. (Greeting => Greeting') /\ (ClientTurn => ClientTurn')
    BY <2>1, Zenon DEF Greeting, ClientTurn
  <2>4. (ServerTurn => ServerTurn') /\ (ServerEnds => ServerEnds')
    BY <2>1, Zenon DEF ServerTurn, ServerEnds
  <2>5. (BothWait => BothWait') /\ (FirstHash => FirstHash')
    BY <2>1, Zenon DEF BothWait, FirstHash
  <2> QED
    BY <2>2, <2>3, <2>4, <2>5 DEF CInv
<1> QED
  BY <1>1, <1>2, <1>3 DEF Next

\* One of the six situations holds throughout.
LEMMA ChatInvariance == Spec => []CInv
  BY InitCInv, NextCInv, PTL DEF Spec

\* Whatever the users type, at most one turn and the second "#" are in flight in
\* either direction, and only words a user can type reach the server.
THEOREM ChatTypeCorrect == Spec => []TypeOK
<1>1. CInv => TypeOK
  BY Zenon DEF CInv
<1> QED
  BY <1>1, ChatInvariance, PTL

\* The client and the server never prompt their users at the same time, for turns
\* of any length.
THEOREM TurnsAlternate == Spec => []OneTurn
<1>1. CInv => OneTurn
  BY Zenon DEF CInv, OneTurn, Greeting, ClientTurn, ServerTurn, ServerEnds, BothWait, FirstHash
<1> QED
  BY <1>1, ChatInvariance, PTL

\* After the close of one side the other types no word into the connection.
THEOREM NothingTypedAfterClose == Spec => []NoSendAfterClose
<1>1. CInv => NoSendAfterClose
  BY Zenon DEF CInv, NoSendAfterClose, Greeting, ClientTurn, ServerTurn, ServerEnds, BothWait, FirstHash
<1> QED
  BY <1>1, ChatInvariance, PTL

-----------------------------------------------------------------------------
(* Induction and recursion over the natural numbers *)

\* Induction, for a set
LEMMA SetInduction ==
    ASSUME NEW S, 0 \in S, \A k \in Nat : k \in S => k + 1 \in S
    PROVE  Nat \subseteq S
<1> SUFFICES ASSUME Nat \ S # {} PROVE FALSE
  OBVIOUS
<1> DEFINE T == Nat \ S
           R == OpToRel(<, Nat)
<1>1. \E x \in T : \A y \in T : ~ (<<y, x>> \in R)
  BY WFMin, NatLessThanWellFounded, Zenon
<1>2. PICK x \in T : \A y \in T : ~ (<<y, x>> \in R)
  BY <1>1, Zenon
<1>3. x \in Nat /\ x # 0
  BY <1>2, Zenon
<1>4. x - 1 \in Nat /\ x - 1 + 1 = x
  BY <1>3
<1>5. x - 1 \in T
  <2>1. x \notin S
    BY <1>2, Zenon
  <2> QED
    BY <1>4, <2>1
<1>6. <<x - 1, x>> \in R
  BY <1>3, <1>4 DEF OpToRel
<1> QED
  BY <1>2, <1>5, <1>6, Zenon

\* h is the sequence of values that starts with a; step[k] leads from the k-th value
\* to the next.
Iterates(h, S, a, step) ==
    h \in [Nat -> S] /\ \A k \in Nat : h[k] = IF k = 0 THEN a ELSE step[k - 1][h[k - 1]]

\* A sequence of values is defined by its first one and its steps.
LEMMA Recursion ==
    ASSUME NEW S, NEW a \in S, NEW step \in [Nat -> [S -> S]]
    PROVE  \E h : Iterates(h, S, a, step)
<1> DEFINE Upto(m, g) == /\ g \in [0 .. m -> S] /\ g[0] = a
                         /\ \A k \in 0 .. m - 1 : g[k + 1] = step[k][g[k]]
           Some == {m \in Nat : \E g : Upto(m, g)}
<1>1. Nat \subseteq Some
  <2>1. 0 \in Some
    <3>1. Upto(0, [k \in 0 .. 0 |-> a])
      OBVIOUS
    <3> QED
      BY <3>1, Zenon
  <2>2. ASSUME NEW m \in Nat, m \in Some PROVE m + 1 \in Some
    <3>1. PICK g : Upto(m, g)
      BY <2>2
    <3>2. Upto(m + 1, [k \in 0 .. m + 1 |-> IF k <= m THEN g[k] ELSE step[m][g[m]]])
      BY <3>1
    <3>3. m + 1 \in Nat
      OBVIOUS
    <3> HIDE DEF Upto
    <3> QED
      BY <3>2, <3>3, Zenon
  <2> HIDE DEF Some
  <2> QED
    BY <2>1, <2>2, SetInduction
<1>2. ASSUME NEW m \in Nat, NEW g, NEW e, Upto(m, g), Upto(m + 1, e)
      PROVE  g[m] = e[m]
  <2> DEFINE Same == {k \in Nat : k <= m => g[k] = e[k]}
  <2>1. 0 \in Same
    BY <1>2
  <2>2. ASSUME NEW k \in Nat, k \in Same PROVE k + 1 \in Same
    BY <1>2, <2>2
  <2>3. Nat \subseteq Same
    <3> HIDE DEF Same
    <3> QED
      BY <2>1, <2>2, SetInduction
  <2> QED
    BY <2>3
<1> DEFINE F(m) == CHOOSE g : Upto(m, g)
           h == [m \in Nat |-> F(m)[m]]
<1>3. ASSUME NEW m \in Nat PROVE Upto(m, F(m))
  BY <1>1, Zenon
<1> HIDE DEF F
<1>4. h \in [Nat -> S]
  BY <1>3
<1>5. h[0] = a
  BY <1>3
<1>6. ASSUME NEW m \in Nat PROVE h[m + 1] = step[m][h[m]]
  <2>1. F(m)[m] = F(m + 1)[m]
    <3>1. Upto(m, F(m)) /\ Upto(m + 1, F(m + 1))
      BY <1>3
    <3> HIDE DEF Upto
    <3> QED
      BY <1>2, <3>1
  <2>2. F(m + 1)[m + 1] = step[m][F(m + 1)[m]]
    BY <1>3
  <2> QED
    BY <2>1, <2>2
<1> HIDE DEF h
<1>7. ASSUME NEW k \in Nat PROVE h[k] = IF k = 0 THEN a ELSE step[k - 1][h[k - 1]]
  <2>1. CASE k = 0
    BY <1>5, <2>1
  <2>2. CASE k # 0
    <3>1. k - 1 \in Nat /\ k - 1 + 1 = k
      BY <2>2
    <3>2. h[k - 1 + 1] = step[k - 1][h[k - 1]]
      BY <1>6, <3>1, Zenon
    <3> QED
      BY <2>2, <3>1, <3>2
  <2> QED
    BY <2>1, <2>2
<1> QED
  BY <1>4, <1>7 DEF Iterates

\* The same for finitely many steps
Rounds(h, m, S, a, step) ==
    h \in [0 .. m -> S] /\ \A k \in 0 .. m : h[k] = IF k = 0 THEN a ELSE step[k - 1][h[k - 1]]

\* Finitely many steps define their values, too.
LEMMA BoundedRecursion ==
    ASSUME NEW m \in Nat, NEW S, NEW a \in S, NEW step \in [0 .. m - 1 -> [S -> S]]
    PROVE  \E h : Rounds(h, m, S, a, step)
<1> DEFINE same == [x \in S |-> x]
           more == [k \in Nat |-> IF k < m THEN step[k] ELSE same]
<1>1. more \in [Nat -> [S -> S]]
  <2>1. ASSUME NEW k \in Nat PROVE (IF k < m THEN step[k] ELSE same) \in [S -> S]
    OBVIOUS
  <2> HIDE DEF same
  <2> QED
    BY <2>1, Zenon
<1>2. ASSUME NEW k \in 0 .. m - 1 PROVE more[k] = step[k]
  OBVIOUS
<1> HIDE DEF more
<1>3. PICK g : Iterates(g, S, a, more)
  BY <1>1, Recursion, Zenon
<1> DEFINE h == [k \in 0 .. m |-> g[k]]
<1>4. h \in [0 .. m -> S]
  BY <1>3 DEF Iterates
<1>5. ASSUME NEW k \in 0 .. m PROVE h[k] = IF k = 0 THEN a ELSE step[k - 1][h[k - 1]]
  <2>1. k \in Nat /\ h[k] = g[k]
    OBVIOUS
  <2>2. g[k] = IF k = 0 THEN a ELSE more[k - 1][g[k - 1]]
    BY <1>3, <2>1, Zenon DEF Iterates
  <2>3. CASE k = 0
    BY <2>1, <2>2, <2>3
  <2>4. CASE k # 0
    <3>1. k - 1 \in 0 .. m - 1 /\ k - 1 \in 0 .. m
      BY <2>4
    <3>2. more[k - 1] = step[k - 1] /\ h[k - 1] = g[k - 1]
      BY <1>2, <3>1
    <3> HIDE DEF h
    <3> QED
      BY <2>1, <2>2, <2>4, <3>2
  <2> QED
    BY <2>3, <2>4
<1> HIDE DEF h
<1> QED
  BY <1>4, <1>5 DEF Rounds

\* A remainder is known by the multiple it leaves.
LEMMA RemainderIs ==
    ASSUME NEW U \in Nat \ {0}, NEW x \in Int, NEW k \in Int, NEW y \in 0 .. U - 1, x = U * k + y
    PROVE  x % U = y
<1>1. x % U \in 0 .. U - 1 /\ x \div U \in Int /\ x = U * (x \div U) + (x % U)
  OBVIOUS
<1> DEFINE d == x \div U
           e == x % U
<1>2. d \in Int /\ e \in 0 .. U - 1 /\ U * (d - k) = y - e
  BY <1>1
<1> HIDE DEF d, e
<1>3. CASE d - k >= 1
  <2>1. U * (d - k) >= U
    BY <1>2, <1>3
  <2> QED
    BY <1>2, <2>1
<1>4. CASE d - k <= -1
  <2>1. U * (d - k) <= -U
    BY <1>2, <1>4
  <2> QED
    BY <1>2, <2>1
<1>5. CASE d - k = 0
  BY <1>2, <1>5 DEF e
<1> QED
  BY <1>2, <1>3, <1>4, <1>5

-----------------------------------------------------------------------------
(* MerkleTree: shifts, powers of two and the size of the blob *)

\* The equation that shr solves
LEMMA Shifts ==
    ASSUME NEW x \in Nat
    PROVE  /\ shr(x)[0] = x
           /\ \A k \in 0 .. Bits : shr(x)[k] \in Nat
           /\ \A k \in 0 .. Bits - 1 : shr(x)[k + 1] = shr(x)[k] \div 2
<1> DEFINE half == [y \in Nat |-> y \div 2]
           step == [k \in 0 .. Bits - 1 |-> half]
           Def(e) == e = [k \in 0 .. Bits |-> IF k = 0 THEN x ELSE e[k - 1] \div 2]
           y == CHOOSE e : Def(e)
<1>0. Bits \in Nat
  BY MerkleAssumption
<1>1. half \in [Nat -> Nat]
  OBVIOUS
<1>2. PICK h : Rounds(h, Bits, Nat, x, step)
  <2>1. step \in [0 .. Bits - 1 -> [Nat -> Nat]]
    BY <1>1
  <2> HIDE DEF step
  <2> QED
    BY <1>0, <2>1, BoundedRecursion, Zenon
<1>3. \A k \in 0 .. Bits : h[k] \in Nat
  BY <1>2 DEF Rounds
<1>4. Def(h)
  <2>1. h = [i \in 0 .. Bits |-> h[i]]
    BY <1>2 DEF Rounds
  <2>2. ASSUME NEW i \in 0 .. Bits PROVE h[i] = IF i = 0 THEN x ELSE h[i - 1] \div 2
    <3>1. h[i] = IF i = 0 THEN x ELSE step[i - 1][h[i - 1]]
      BY <1>2 DEF Rounds
    <3>2. CASE i = 0
      BY <3>1, <3>2
    <3>3. CASE i # 0
      <4>1. i - 1 \in 0 .. Bits - 1 /\ i - 1 \in 0 .. Bits
        BY <1>0, <3>3
      <4>2. step[i - 1][h[i - 1]] = h[i - 1] \div 2
        BY <1>3, <4>1
      <4> HIDE DEF step
      <4> QED
        BY <3>1, <3>3, <4>2
    <3> QED
      BY <3>2, <3>3
  <2> QED
    BY <2>1, <2>2, Zenon
<1>5. Def(y)
  BY <1>4, Zenon
<1>6. shr(x) = y
  BY DEF shr
<1> HIDE DEF y
<1>7. ASSUME NEW k \in 0 .. Bits PROVE y[k] = IF k = 0 THEN x ELSE y[k - 1] \div 2
  BY <1>5, Zenon
<1> HIDE DEF Def
<1>8. y[0] = x
  BY <1>0, <1>7
<1>9. ASSUME NEW k \in 0 .. Bits - 1 PROVE y[k + 1] = y[k] \div 2
  <2>1. k + 1 \in 0 .. Bits /\ k + 1 # 0 /\ k + 1 - 1 = k
    BY <1>0
  <2> QED
    BY <1>7, <2>1
<1> DEFINE Sized == {k \in Nat : k <= Bits => y[k] \in Nat}
<1>10. 0 \in Sized
  BY <1>8
<1>11. ASSUME NEW k \in Nat, k \in Sized PROVE k + 1 \in Sized
  <2>1. ASSUME k + 1 <= Bits PROVE y[k + 1] \in Nat
    <3>1. y[k] \in Nat /\ k \in 0 .. Bits - 1
      BY <1>0, <1>11, <2>1
    <3> QED
      BY <1>9, <3>1
  <2> QED
    BY <2>1
<1>12. Nat \subseteq Sized
  <2> HIDE DEF Sized
  <2> QED
    BY <1>10, <1>11, SetInduction
<1>13. ASSUME NEW k \in 0 .. Bits PROVE y[k] \in Nat
  BY <1>0, <1>12
<1> QED
  BY <1>6, <1>8, <1>9, <1>13

\* Shifting once more is shifting the half.
LEMMA ShiftHalf ==
    ASSUME NEW x \in Nat, NEW k \in 0 .. Bits - 1
    PROVE  shr(x)[k + 1] = shr(x \div 2)[k]
<1>0. Bits \in Nat
  BY MerkleAssumption
<1> DEFINE Same == {i \in Nat : i <= Bits - 1 => shr(x)[i + 1] = shr(x \div 2)[i]}
<1>1. x \div 2 \in Nat
  OBVIOUS
<1>2. 0 \in Same
  <2>1. ASSUME 0 <= Bits - 1 PROVE shr(x)[0 + 1] = shr(x \div 2)[0]
    <3>1. 0 \in 0 .. Bits - 1
      BY <1>0, <2>1
    <3>2. shr(x)[0 + 1] = x \div 2
      BY <3>1, Shifts
    <3> QED
      BY <1>1, <3>2, Shifts
  <2> QED
    BY <2>1
<1>3. ASSUME NEW i \in Nat, i \in Same PROVE i + 1 \in Same
  <2>1. ASSUME i + 1 <= Bits - 1 PROVE shr(x)[i + 1 + 1] = shr(x \div 2)[i + 1]
    <3>1. i \in 0 .. Bits - 1 /\ i + 1 \in 0 .. Bits - 1
      BY <1>0, <2>1
    <3>2. shr(x)[i + 1 + 1] = shr(x)[i + 1] \div 2
      BY <3>1, Shifts
    <3>3. shr(x \div 2)[i + 1] = shr(x \div 2)[i] \div 2
      BY <1>1, <3>1, Shifts
    <3>4. shr(x)[i + 1] = shr(x \div 2)[i]
      BY <1>3, <3>1
    <3> QED
      BY <3>2, <3>3, <3>4
  <2> QED
    BY <2>1
<1>4. Nat \subseteq Same
  <2> HIDE DEF Same
  <2> QED
    BY <1>2, <1>3, SetInduction
<1> QED
  BY <1>0, <1>4

\* A number without bits is 0.
LEMMA NoBits ==
    ASSUME NEW x \in Nat, NEW m \in 0 .. Bits, shr(x)[m] = 0,
           \A k \in 0 .. m - 1 : shr(x)[k] % 2 # 1
    PROVE  x = 0
<1>0. Bits \in Nat
  BY MerkleAssumption
<1> DEFINE OK == {i \in Nat : i <= m => (shr(x)[i] = 0 => x = 0)}
<1>1. 0 \in OK
  BY Shifts
<1>2. ASSUME NEW i \in Nat, i \in OK PROVE i + 1 \in OK
  <2> SUFFICES ASSUME i + 1 <= m, shr(x)[i + 1] = 0 PROVE x = 0
    OBVIOUS
  <2>1. i \in 0 .. Bits - 1 /\ i \in 0 .. Bits /\ i \in 0 .. m - 1
    BY <1>0
  <2>2. shr(x)[i] \in Nat /\ shr(x)[i] \div 2 = 0 /\ shr(x)[i] % 2 # 1
    BY <2>1, Shifts
  <2>3. shr(x)[i] = 0
    BY <2>2
  <2> QED
    BY <1>2, <2>1, <2>3
<1>3. Nat \subseteq OK
  <2> HIDE DEF OK
  <2> QED
    BY <1>1, <1>2, SetInduction
<1> QED
  BY <1>0, <1>3

\* The powers of two
Pow == CHOOSE h : Iterates(h, Nat, 1, [k \in Nat |-> [x \in Nat |-> 2 * x]])

\* Each power of two is twice the one before.
LEMMA Powers ==
    /\ Pow[0] = 1
    /\ \A k \in Nat : Pow[k] \in Nat \ {0} /\ Pow[k + 1] = 2 * Pow[k]
<1> DEFINE twice == [x \in Nat |-> 2 * x]
           step == [k \in Nat |-> twice]
<1>1. step \in [Nat -> [Nat -> Nat]] /\ 1 \in Nat
  <2>1. twice \in [Nat -> Nat]
    OBVIOUS
  <2> QED
    BY <2>1
<1>2. Iterates(Pow, Nat, 1, step)
  <2>1. \E h : Iterates(h, Nat, 1, step)
    <3> HIDE DEF step
    <3> QED
      BY <1>1, Recursion, Zenon
  <2> QED
    BY <2>1, Zenon DEF Pow
<1>3. Pow[0] = 1
  BY <1>2, Zenon DEF Iterates
<1>4. ASSUME NEW k \in Nat PROVE Pow[k] \in Nat
  BY <1>2 DEF Iterates
<1>5. ASSUME NEW k \in Nat PROVE Pow[k + 1] = 2 * Pow[k]
  <2>1. k + 1 \in Nat /\ k + 1 # 0 /\ k + 1 - 1 = k
    OBVIOUS
  <2>2. Pow[k + 1] = IF k + 1 = 0 THEN 1 ELSE step[k + 1 - 1][Pow[k + 1 - 1]]
    <3> HIDE DEF step
    <3>1. \A i \in Nat : Pow[i] = IF i = 0 THEN 1 ELSE step[i - 1][Pow[i - 1]]
      BY <1>2, Zenon DEF Iterates
    <3> QED
      BY <2>1, <3>1
  <2>3. step[k][Pow[k]] = 2 * Pow[k]
    BY <1>4
  <2> HIDE DEF step
  <2> QED
    BY <2>1, <2>2, <2>3
<1> DEFINE Positive == {k \in Nat : Pow[k] # 0}
<1>6. 0 \in Positive
  BY <1>3
<1>7. ASSUME NEW k \in Nat, k \in Positive PROVE k + 1 \in Positive
  BY <1>4, <1>5, <1>7
<1>8. Nat \subseteq Positive
  <2> HIDE DEF Positive
  <2> QED
    BY <1>6, <1>7, SetInduction
<1> QED
  BY <1>3, <1>4, <1>5, <1>8

\* x and y have no common bit among the lowest m.
Disjoint(x, y, m) == \A k \in 0 .. m - 1 : ~(shr(x)[k] % 2 = 1 /\ shr(y)[k] % 2 = 1)

\* The check with & finds the powers of two and nothing else.
LEMMA PowerOfTwo ==
    ASSUME NEW m \in 0 .. Bits, NEW b \in Nat \ {0}, shr(b - 1)[m] = 0, Disjoint(b - 1, b, m)
    PROVE  \E j \in 0 .. m : b = Pow[j]
<1>0. Bits \in Nat
  BY MerkleAssumption
<1> DEFINE Q(i, c) == shr(c - 1)[i] = 0 /\ Disjoint(c - 1, c, i) => \E j \in 0 .. i : c = Pow[j]
           OK == {i \in Nat : i <= Bits => \A c \in Nat \ {0} : Q(i, c)}
<1>1. 0 \in OK
  <2> SUFFICES ASSUME NEW c \in Nat \ {0}, shr(c - 1)[0] = 0 PROVE \E j \in 0 .. 0 : c = Pow[j]
    OBVIOUS
  <2>1. c = 1
    <3>1. c - 1 \in Nat
      OBVIOUS
    <3>2. c - 1 = 0
      BY <3>1, Shifts
    <3> QED
      BY <3>2
  <2> QED
    BY <2>1, Powers
<1>2. ASSUME NEW i \in Nat, i \in OK PROVE i + 1 \in OK
  <2> SUFFICES ASSUME i + 1 <= Bits, NEW c \in Nat \ {0}, shr(c - 1)[i + 1] = 0,
                      Disjoint(c - 1, c, i + 1)
               PROVE  \E j \in 0 .. i + 1 : c = Pow[j]
    OBVIOUS
  <2> DEFINE q == c \div 2
  <2>1. q \in Nat /\ (c = 2 * q \/ c = 2 * q + 1)
    OBVIOUS
  <2> HIDE DEF q
  <2>2. i \in 0 .. Bits - 1 /\ i \in 0 .. Bits /\ i + 1 \in 0 .. Bits
    BY <1>0
  <2>3. c - 1 \in Nat /\ c \in Nat
    OBVIOUS
  <2>4. ASSUME NEW k \in 0 .. i
        PROVE  ~(shr(c - 1)[k] % 2 = 1 /\ shr(c)[k] % 2 = 1)
    BY DEF Disjoint
  <2>5. CASE c = 2 * q
    <3>1. q \in Nat \ {0} /\ (c - 1) \div 2 = q - 1 /\ c \div 2 = q /\ q - 1 \in Nat
      BY <2>1, <2>5
    <3>2. shr(q - 1)[i] = 0
      BY <2>2, <2>3, <3>1, ShiftHalf, Zenon
    <3>3. ASSUME NEW k \in 0 .. i - 1
          PROVE  ~(shr(q - 1)[k] % 2 = 1 /\ shr(q)[k] % 2 = 1)
      <4>1. k \in 0 .. Bits - 1 /\ k + 1 \in 0 .. i
        BY <1>0, <2>2
      <4>2. shr(c - 1)[k + 1] = shr(q - 1)[k] /\ shr(c)[k + 1] = shr(q)[k]
        BY <2>3, <3>1, <4>1, ShiftHalf, Zenon
      <4> QED
        BY <2>4, <4>1, <4>2
    <3>4. Disjoint(q - 1, q, i)
      BY <3>3 DEF Disjoint
    <3>5. PICK j \in 0 .. i : q = Pow[j]
      BY <1>2, <2>2, <3>1, <3>2, <3>4
    <3>6. c = Pow[j + 1] /\ j + 1 \in 0 .. i + 1
      BY <2>5, <3>5, Powers
    <3> QED
      BY <3>6
  <2>6. CASE c = 2 * q + 1
    <3>1. (c - 1) \div 2 = q /\ c \div 2 = q
      BY <2>1, <2>6
    <3>2. shr(q)[i] = 0
      BY <2>2, <2>3, <3>1, ShiftHalf, Zenon
    <3>3. ASSUME NEW k \in 0 .. i - 1 PROVE shr(q)[k] % 2 # 1
      <4>1. k \in 0 .. Bits - 1 /\ k + 1 \in 0 .. i
        BY <1>0, <2>2
      <4>2. shr(c - 1)[k + 1] = shr(q)[k] /\ shr(c)[k + 1] = shr(q)[k]
        BY <2>3, <3>1, <4>1, ShiftHalf, Zenon
      <4> QED
        BY <2>4, <4>1, <4>2
    <3>4. q = 0
      BY <2>1, <2>2, <3>2, <3>3, NoBits
    <3>5. c = Pow[0] /\ 0 \in 0 .. i + 1
      BY <2>6, <3>4, Powers
    <3> QED
      BY <3>5
  <2> QED
    BY <2>1, <2>5, <2>6
<1>3. Nat \subseteq OK
  <2> HIDE DEF OK
  <2> QED
    BY <1>1, <1>2, SetInduction
<1>4. Q(m, b)
  BY <1>0, <1>3
<1> QED
  BY <1>4

\* Smaller powers of two divide larger ones.
LEMMA PowersDivide ==
    ASSUME NEW j \in Nat, NEW i \in Nat
    PROVE  \E d \in Nat \ {0} : Pow[j + i] = Pow[j] * d
<1> DEFINE OK == {k \in Nat : \E d \in Nat \ {0} : Pow[j + k] = Pow[j] * d}
<1>1. 0 \in OK
  <2>1. Pow[j + 0] = Pow[j] * 1
    BY Powers
  <2> QED
    BY <2>1
<1>2. ASSUME NEW k \in Nat, k \in OK PROVE k + 1 \in OK
  <2>1. PICK d \in Nat \ {0} : Pow[j + k] = Pow[j] * d
    BY <1>2
  <2>2. j + k \in Nat /\ j + (k + 1) = j + k + 1
    OBVIOUS
  <2>3. Pow[j + (k + 1)] = 2 * (Pow[j] * d)
    BY <2>1, <2>2, Powers
  <2>4. Pow[j] \in Nat
    BY Powers
  <2>5. 2 * (Pow[j] * d) = Pow[j] * (2 * d) /\ 2 * d \in Nat \ {0}
    BY <2>4
  <2> QED
    BY <2>3, <2>5
<1>3. Nat \subseteq OK
  <2> HIDE DEF OK
  <2> QED
    BY <1>1, <1>2, SetInduction
<1> QED
  BY <1>3

\* A block count that passes the check gives an empty blob, and is 0 or too large
\* then, or it is a power of two whose blob has its full size.
LEMMA BlobSize ==
    ASSUME block_count \in 0 .. Usize - 1, ~NotPower
    PROVE  \/ blob_size = 0 /\ (block_count = 0 \/ BLOCK_SIZE * block_count >= Usize)
           \/ \E j \in 0 .. Bits - 1 : /\ block_count = Pow[j]
                                       /\ blob_size = BLOCK_SIZE * Pow[j]
<1> DEFINE B == BLOCK_SIZE
           U == Usize
           b == block_count
           c == U \div B
<1>0. B \in Nat \ {0} /\ U \in Nat \ {0} /\ Bits \in Nat
  BY MerkleAssumption
<1>1. CASE b = 0
  <2>1. blob_size = 0
    BY <1>0, <1>1 DEF blob_size
  <2> QED
    BY <1>1, <2>1
<1>2. CASE b # 0
  <2>1. b \in Nat \ {0} /\ b - 1 \in 0 .. U - 1
    BY <1>0, <1>2
  <2>2. PICK i \in 0 .. Bits : b = Pow[i]
    <3>1. (b - 1) % U = b - 1
      BY <1>0, <2>1
    <3>2. Disjoint(b - 1, b, Bits)
      BY <3>1 DEF NotPower, Share, Disjoint
    <3>3. shr(b - 1)[Bits] = 0
      BY <2>1, MerkleAssumption
    <3>4. Bits \in 0 .. Bits
      BY <1>0
    <3> HIDE DEF b
    <3> QED
      BY <2>1, <3>2, <3>3, <3>4, PowerOfTwo
  <2>3. U = B * c /\ c \in Nat \ {0} /\ c - 1 \in 0 .. U - 1
    <3>1. U % B = 0
      BY MerkleAssumption
    <3> DEFINE d == U \div B
    <3>2. U = B * d /\ d \in Int
      BY <1>0, <3>1
    <3> HIDE DEF d, U, B
    <3>3. d > 0
      BY <1>0, <3>2
    <3>4. d <= U
      BY <1>0, <3>2, <3>3
    <3>5. d \in Nat \ {0} /\ d - 1 \in 0 .. U - 1
      BY <1>0, <3>2, <3>3, <3>4
    <3> QED
      BY <3>2, <3>5 DEF d, U, B
  <2>4. PICK j \in 0 .. Bits : c = Pow[j]
    <3>1. Disjoint(c - 1, c, Bits)
      BY MerkleAssumption DEF Share, Disjoint
    <3>2. shr(c - 1)[Bits] = 0
      BY <2>3, MerkleAssumption
    <3>3. Bits \in 0 .. Bits
      BY <1>0
    <3> HIDE DEF c
    <3> QED
      BY <2>3, <3>1, <3>2, <3>3, PowerOfTwo
  <2> HIDE DEF c
  <2>5. CASE i >= j
    <3>1. i - j \in Nat /\ j \in Nat /\ j + (i - j) = i
      BY <1>0, <2>5
    <3>2. PICK d \in Nat \ {0} : Pow[i] = Pow[j] * d
      BY <3>1, PowersDivide
    <3>3. B * b = U * d
      <4>1. B * b = B * (c * d)
        BY <2>2, <2>4, <3>2
      <4> HIDE DEF B, U, b
      <4>2. B * (c * d) = (B * c) * d
        BY <1>0, <2>3, <3>2
      <4> QED
        BY <2>3, <4>1, <4>2
    <3>4. U * d >= U /\ U * d \in Int /\ U * d = U * d + 0 /\ 0 \in 0 .. U - 1
      <4> HIDE DEF U
      <4> QED
        BY <1>0, <3>2
    <3>5. (U * d) % U = 0
      <4> HIDE DEF U
      <4> QED
        BY <1>0, <3>2, <3>4, RemainderIs
    <3>6. blob_size = 0 /\ BLOCK_SIZE * block_count >= Usize
      BY <3>3, <3>4, <3>5 DEF blob_size
    <3> QED
      BY <3>6
  <2>6. CASE i < j
    <3>1. j - i - 1 \in Nat /\ i \in Nat /\ i + (j - i - 1) + 1 = j /\ i + (j - i - 1) \in Nat
      BY <1>0, <2>6
    <3>2. PICK d \in Nat \ {0} : Pow[i + (j - i - 1)] = Pow[i] * d
      BY <3>1, PowersDivide, Zenon
    <3>3. c = 2 * (b * d)
      BY <2>2, <2>4, <3>1, <3>2, Powers
    <3>4. b * d >= b
      <4> HIDE DEF b
      <4> QED
        BY <2>1, <3>2
    <3>5. b < c
      <4> HIDE DEF b
      <4>1. b * d \in Int
        BY <2>1, <3>2
      <4> QED
        BY <2>1, <3>3, <3>4, <4>1
    <3>6. B * b \in 0 .. U - 1
      <4> HIDE DEF b, B, U
      <4>1. B * b < B * c /\ B * b \in Nat
        BY <1>0, <2>1, <2>3, <3>5
      <4> QED
        BY <1>0, <2>3, <4>1
    <3>7. blob_size = B * b
      BY <1>0, <3>6 DEF blob_size
    <3>8. i \in 0 .. Bits - 1
      BY <1>0, <2>6
    <3> QED
      BY <2>2, <3>7, <3>8
  <2> QED
    BY <1>0, <2>5, <2>6
<1> QED
  BY <1>1, <1>2

-----------------------------------------------------------------------------
(* MerkleTree: the tree that MerkleNode::new builds *)

\* The bytes of a block, the sequences of blocks that stand for hashes, and the nodes
\* and trees made of them
Block(o) == [i \in 1 .. BLOCK_SIZE |-> data[o + i - 1]]
Hashes == Seq({Block(o) : o \in Nat})
TreeNodes == [hash : Hashes, start_offset : Nat, blob_len : Nat]
Trees == [node : TreeNodes, below : SUBSET TreeNodes]

\* The tree of one block, and two trees under a new node
Leaf(offset, size) == [node |-> Node(hash(offset, size), offset, size), below |-> {}]
Joined(left, right, offset, size) ==
    [node |-> Node(left.node.hash \o right.node.hash, offset, size),
     below |-> {left.node, right.node} \cup left.below \cup right.below]

\* A call of MerkleNode::new with one call more on the stack than g has room for
NewNode(g, size, offset) ==
    IF size = BLOCK_SIZE THEN Leaf(offset, size)
    ELSE IF g[size \div 2][offset] = NoTree THEN NoTree
    ELSE Joined(g[size \div 2][offset], g[size \div 2][RightOffset(offset, size)], offset, size)

\* A leaf is a tree.
LEMMA LeafIsTree == ASSUME NEW o \in Nat PROVE Leaf(o, BLOCK_SIZE) \in Trees
<1>1. BLOCK_SIZE \in Nat
  BY MerkleAssumption
<1>2. Block(o) \in {Block(p) : p \in Nat}
  OBVIOUS
<1>3. hash(o, BLOCK_SIZE) = <<Block(o)>>
  BY DEF hash, Block
<1>4. hash(o, BLOCK_SIZE) \in Hashes
  <2> DEFINE S == {Block(p) : p \in Nat}
             e == Block(o)
  <2>1. e \in S
    BY <1>2
  <2> HIDE DEF S, e
  <2>2. <<e>> \in Seq(S)
    BY <2>1
  <2> QED
    BY <1>3, <2>2 DEF Hashes, S, e
<1>5. Node(hash(o, BLOCK_SIZE), o, BLOCK_SIZE) \in TreeNodes
  BY <1>1, <1>4 DEF Node, TreeNodes
<1> QED
  BY <1>5 DEF Leaf, Trees

\* Two trees joined under a new node are a tree.
LEMMA JoinedIsTree ==
    ASSUME NEW left \in Trees, NEW right \in Trees, NEW o \in Nat, NEW z \in Nat
    PROVE  Joined(left, right, o, z) \in Trees
<1>1. left.node \in TreeNodes /\ right.node \in TreeNodes
        /\ left.below \subseteq TreeNodes /\ right.below \subseteq TreeNodes
  BY DEF Trees
<1>2. left.node.hash \in Hashes /\ right.node.hash \in Hashes
  BY <1>1 DEF TreeNodes
<1>3. left.node.hash \o right.node.hash \in Hashes
  <2> DEFINE S == {Block(p) : p \in Nat}
  <2> HIDE DEF S
  <2>1. \A s, t \in Seq(S) : s \o t \in Seq(S)
    OBVIOUS
  <2> QED
    BY <1>2, <2>1 DEF Hashes, S
<1>4. Node(left.node.hash \o right.node.hash, o, z) \in TreeNodes
  BY <1>3 DEF Node, TreeNodes
<1>5. {left.node, right.node} \cup left.below \cup right.below \in SUBSET TreeNodes
  BY <1>1
<1> QED
  BY <1>4, <1>5 DEF Joined, Trees

\* So is the value that stands for a stack overflow.
LEMMA NoTreeIsTree == NoTree \in Trees
<1>1. <<>> \in Hashes
  BY DEF Hashes
<1>2. Node(<<>>, 0, 0) \in TreeNodes
  BY <1>1 DEF Node, TreeNodes
<1> QED
  BY <1>2 DEF NoTree, Trees

\* The trees of every size and offset
Grafts == [Nat -> [Nat -> Trees]]

\* A call of MerkleNode::new returns a tree when the calls in it do.
LEMMA NewNodeIsTree ==
    ASSUME NEW g \in Grafts, NEW z \in Nat, NEW o \in Nat
    PROVE  NewNode(g, z, o) \in Trees
<1>1. z \div 2 \in Nat /\ RightOffset(o, z) \in Nat
  BY DEF RightOffset
<1>2. g[z \div 2][o] \in Trees /\ g[z \div 2][RightOffset(o, z)] \in Trees
  BY <1>1 DEF Grafts
<1> QED
  BY <1>2, LeafIsTree, JoinedIsTree, NoTreeIsTree, Zenon DEF NewNode

\* The equation that MerkleNode solves
LEMMA NodeBuilt ==
    /\ \A room \in 0 .. StackDepth : MerkleNode[room] \in Grafts
    /\ \A z, o \in Nat : MerkleNode[0][z][o] = NoTree
    /\ \A room \in 0 .. StackDepth - 1 : \A z, o \in Nat :
          MerkleNode[room + 1][z][o] = NewNode(MerkleNode[room], z, o)
<1> DEFINE none == [z \in Nat |-> [o \in Nat |-> NoTree]]
           grown(g) == [z \in Nat |-> [o \in Nat |-> NewNode(g, z, o)]]
           step == [k \in 0 .. StackDepth - 1 |-> [g \in Grafts |-> grown(g)]]
           Def(e) == e = [room \in 0 .. StackDepth |-> [z \in Nat |-> [o \in Nat |->
                        IF room = 0 THEN NoTree ELSE NewNode(e[room - 1], z, o)]]]
           new == CHOOSE e : Def(e)
<1>0. StackDepth \in Nat
  BY MerkleAssumption
<1>1. none \in Grafts
  BY NoTreeIsTree DEF Grafts
<1>2. ASSUME NEW g \in Grafts PROVE grown(g) \in Grafts
  <2>1. ASSUME NEW z \in Nat, NEW o \in Nat PROVE NewNode(g, z, o) \in Trees
    BY NewNodeIsTree
  <2> QED
    BY <2>1 DEF Grafts
<1>3. PICK h : Rounds(h, StackDepth, Grafts, none, step)
  <2>1. ASSUME NEW g \in Grafts PROVE grown(g) \in Grafts
    BY <1>2
  <2> HIDE DEF grown
  <2>2. step \in [0 .. StackDepth - 1 -> [Grafts -> Grafts]]
    BY <2>1
  <2> HIDE DEF step, none
  <2> QED
    BY <1>0, <1>1, <2>2, BoundedRecursion, Zenon
<1>4. Def(h)
  <2>1. h = [i \in 0 .. StackDepth |-> h[i]]
    BY <1>3 DEF Rounds
  <2>2. ASSUME NEW i \in 0 .. StackDepth
        PROVE  h[i] = [z \in Nat |-> [o \in Nat |->
                        IF i = 0 THEN NoTree ELSE NewNode(h[i - 1], z, o)]]
    <3>1. h[i] = IF i = 0 THEN none ELSE step[i - 1][h[i - 1]]
      <4> HIDE DEF none, step
      <4> QED
        BY <1>3 DEF Rounds
    <3>2. CASE i = 0
      BY <3>1, <3>2
    <3>3. CASE i # 0
      <4>1. i - 1 \in 0 .. StackDepth - 1 /\ i - 1 \in 0 .. StackDepth
        BY <1>0, <3>3
      <4>2. h[i - 1] \in Grafts
        BY <1>3, <4>1 DEF Rounds
      <4>3. step[i - 1][h[i - 1]] = grown(h[i - 1])
        <5> HIDE DEF grown
        <5> QED
          BY <4>1, <4>2
      <4> HIDE DEF step
      <4> QED
        BY <3>1, <3>3, <4>3
    <3> QED
      BY <3>2, <3>3
  <2> HIDE DEF none, step
  <2> QED
    BY <2>1, <2>2
<1>5. Def(new)
  BY <1>4, Zenon
<1>6. MerkleNode = new
  BY DEF MerkleNode, NewNode, Leaf, Joined
<1> HIDE DEF new
<1>7. ASSUME NEW room \in 0 .. StackDepth
      PROVE  new[room] = [z \in Nat |-> [o \in Nat |->
                           IF room = 0 THEN NoTree ELSE NewNode(new[room - 1], z, o)]]
  BY <1>5, Zenon
<1> HIDE DEF Def
<1>8. ASSUME NEW z \in Nat, NEW o \in Nat PROVE new[0][z][o] = NoTree
  <2>1. 0 \in 0 .. StackDepth
    BY <1>0
  <2>2. new[0] = none
    BY <1>7, <2>1
  <2>3. none[z][o] = NoTree
    OBVIOUS
  <2> HIDE DEF none
  <2> QED
    BY <2>2, <2>3
<1>9. ASSUME NEW room \in 0 .. StackDepth - 1
      PROVE  new[room + 1] = grown(new[room])
  <2>1. room + 1 \in 0 .. StackDepth /\ room + 1 # 0 /\ room + 1 - 1 = room
    BY <1>0
  <2> QED
    BY <1>7, <2>1
<1> DEFINE Sized == {k \in Nat : k <= StackDepth => new[k] \in Grafts}
<1>10. 0 \in Sized
  <2>1. new[0] = none
    BY <1>0, <1>7
  <2> HIDE DEF none
  <2> QED
    BY <1>1, <2>1
<1>11. ASSUME NEW k \in Nat, k \in Sized PROVE k + 1 \in Sized
  <2>1. ASSUME k + 1 <= StackDepth PROVE new[k + 1] \in Grafts
    <3>1. new[k] \in Grafts /\ k \in 0 .. StackDepth - 1
      BY <1>0, <1>11, <2>1
    <3> HIDE DEF grown
    <3> QED
      BY <1>2, <1>9, <3>1
  <2> QED
    BY <2>1
<1>12. Nat \subseteq Sized
  <2> HIDE DEF Sized
  <2> QED
    BY <1>10, <1>11, SetInduction
<1>13. ASSUME NEW k \in 0 .. StackDepth PROVE new[k] \in Grafts
  BY <1>0, <1>12
<1>14. ASSUME NEW room \in 0 .. StackDepth - 1, NEW z \in Nat, NEW o \in Nat
       PROVE  new[room + 1][z][o] = NewNode(new[room], z, o)
  <2>1. new[room + 1] = grown(new[room])
    BY <1>9, Zenon
  <2>2. grown(new[room])[z][o] = NewNode(new[room], z, o)
    OBVIOUS
  <2> HIDE DEF grown
  <2> QED
    BY <2>1, <2>2
<1> QED
  BY <1>6, <1>8, <1>13, <1>14

\* The halves of s, of length p each, are u and v.
Halves(s, u, v, p, S) ==
    /\ p \in Nat /\ s \in [1 .. p + p -> S] /\ u \in [1 .. p -> S] /\ v \in [1 .. p -> S]
    /\ \A b \in 1 .. p : s[b] = u[b] /\ s[p + b] = v[b]

\* A sequence is the concatenation of its two halves.
LEMMA TwoHalves ==
    ASSUME NEW p, NEW S, NEW s, NEW u, NEW v, Halves(s, u, v, p, S)
    PROVE  s = u \o v
<1>0. /\ p \in Nat /\ s \in [1 .. p + p -> S] /\ u \in [1 .. p -> S] /\ v \in [1 .. p -> S]
      /\ \A b \in 1 .. p : s[b] = u[b] /\ s[p + b] = v[b]
  BY DEF Halves
<1>1. u \in Seq(S) /\ v \in Seq(S) /\ s \in Seq(S) /\ Len(u) = p /\ Len(v) = p /\ Len(s) = p + p
  BY <1>0
<1>2. u \o v \in Seq(S) /\ Len(u \o v) = p + p
        /\ \A b \in 1 .. Len(u) + Len(v) :
              (u \o v)[b] = IF b <= Len(u) THEN u[b] ELSE v[b - Len(u)]
  BY <1>0, <1>1, ConcatProperties
<1>3. ASSUME NEW b \in 1 .. p + p PROVE s[b] = (u \o v)[b]
  <2>1. CASE b <= p
    <3>1. b \in 1 .. p
      BY <1>0, <2>1
    <3>2. (u \o v)[b] = u[b]
      BY <1>0, <1>1, <1>2, <2>1
    <3> QED
      BY <1>0, <3>1, <3>2
  <2>2. CASE b > p
    <3>1. b - p \in 1 .. p /\ p + (b - p) = b
      BY <1>0, <2>2
    <3>2. (u \o v)[b] = v[b - p]
      BY <1>0, <1>1, <1>2, <2>2
    <3> QED
      BY <1>0, <3>1, <3>2, Zenon
  <2> QED
    BY <1>0, <2>1, <2>2
<1> QED
  BY <1>1, <1>2, <1>3, SeqEqual, Zenon

\* The digests of a range are those of its two halves.
LEMMA DigestsHalves ==
    ASSUME NEW p \in Nat \ {0}, NEW o \in Nat
    PROVE  Digests(o, BLOCK_SIZE * (2 * p))
             = Digests(o, BLOCK_SIZE * p) \o Digests(o + BLOCK_SIZE * p, BLOCK_SIZE * p)
<1> DEFINE B == BLOCK_SIZE
           block(e) == [i \in 1 .. B |-> created[e + i - 1]]
           S == {block(e) : e \in Int}
           s == [b \in 1 .. p + p |-> block(o + (b - 1) * B)]
           u == [b \in 1 .. p |-> block(o + (b - 1) * B)]
           v == [b \in 1 .. p |-> block(o + B * p + (b - 1) * B)]
<1>0. B \in Nat \ {0}
  BY MerkleAssumption
<1>1. (B * (2 * p)) \div B = p + p /\ (B * p) \div B = p
  <2> HIDE DEF B
  <2>1. \A k \in Nat : (B * k) \div B = k
    BY <1>0
  <2> QED
    BY <2>1
<1>2. Digests(o, B * (2 * p)) = s /\ Digests(o, B * p) = u /\ Digests(o + B * p, B * p) = v
  BY <1>1 DEF Digests
<1> HIDE DEF B, block
<1>3. s \in [1 .. p + p -> S] /\ u \in [1 .. p -> S] /\ v \in [1 .. p -> S]
  <2>1. ASSUME NEW e \in Int PROVE block(e) \in S
    OBVIOUS
  <2>2. ASSUME NEW b \in Int PROVE o + (b - 1) * B \in Int /\ o + B * p + (b - 1) * B \in Int
    BY <1>0
  <2> HIDE DEF S
  <2> QED
    BY <2>1, <2>2
<1>4. ASSUME NEW b \in 1 .. p PROVE s[b] = u[b] /\ s[p + b] = v[b]
  <2>1. b \in 1 .. p + p /\ p + b \in 1 .. p + p
    OBVIOUS
  <2>2. o + (p + b - 1) * B = o + B * p + (b - 1) * B
    BY <1>0
  <2> QED
    BY <2>1, <2>2
<1>5. s = u \o v
  <2> HIDE DEF s, u, v, S
  <2>1. Halves(s, u, v, p, S)
    BY <1>3, <1>4 DEF Halves
  <2> QED
    BY <2>1, TwoHalves, Zenon
<1> QED
  BY <1>2, <1>5, Zenon DEF B

\* A block's hash is its digest.
LEMMA LeafDigest ==
    ASSUME NEW o \in Nat, data = created
    PROVE  hash(o, BLOCK_SIZE) = Digests(o, BLOCK_SIZE)
<1> DEFINE B == BLOCK_SIZE
           block(e) == [i \in 1 .. B |-> created[e + i - 1]]
<1>0. B \in Nat \ {0}
  BY MerkleAssumption
<1>1. B \div B = 1
  BY <1>0
<1>2. Digests(o, B) = [b \in 1 .. 1 |-> block(o + (b - 1) * B)]
  BY <1>1 DEF Digests
<1>3. hash(o, B) = <<block(o)>>
  BY DEF hash
<1> HIDE DEF block, B
<1>4. ASSUME NEW b \in 1 .. 1 PROVE o + (b - 1) * B = o
  BY <1>0
<1>5. [b \in 1 .. 1 |-> block(o + (b - 1) * B)] = <<block(o)>>
  <2>1. [b \in 1 .. 1 |-> block(o + (b - 1) * B)] = [b \in 1 .. 1 |-> block(o)]
    BY <1>4
  <2> DEFINE e == block(o)
  <2> HIDE DEF e
  <2>2. [b \in 1 .. 1 |-> e] = <<e>>
    OBVIOUS
  <2> QED
    BY <2>1, <2>2 DEF e
<1> QED
  BY <1>2, <1>3, <1>5 DEF B

\* The tree t covers the blocks from o to o + z, and each of its nodes has the
\* digests of its blocks.
Covering(t, o, z) ==
    /\ t # NoTree /\ t.node.start_offset = o /\ t.node.blob_len = z
    /\ \A d \in {t.node} \cup t.below : d.hash = Digests(d.start_offset, d.blob_len)

\* With room for the height of the tree, the blob of a power of two of blocks gets
\* its tree.
LEMMA TreesCover ==
    ASSUME data = created, NEW j \in Nat, NEW room \in 0 .. StackDepth, room > j, NEW o \in Nat
    PROVE  Covering(MerkleNode[room][BLOCK_SIZE * Pow[j]][o], o, BLOCK_SIZE * Pow[j])
<1> DEFINE Made(k, e, i) == Covering(MerkleNode[e][BLOCK_SIZE * Pow[k]][i], i, BLOCK_SIZE * Pow[k])
           OK == {k \in Nat : \A e \in 0 .. StackDepth : \A i \in Nat : e > k => Made(k, e, i)}
<1>0. BLOCK_SIZE \in Nat \ {0} /\ StackDepth \in Nat
  BY MerkleAssumption
<1>a. ASSUME NEW t, NEW z \in Nat \ {0}, t.node.blob_len = z PROVE t # NoTree
  <2>1. NoTree.node.blob_len = 0
    BY DEF NoTree, Node
  <2> QED
    BY <1>a, <2>1
<1>1. 0 \in OK
  <2> SUFFICES ASSUME NEW e \in 0 .. StackDepth, NEW i \in Nat, e > 0 PROVE Made(0, e, i)
    OBVIOUS
  <2>1. BLOCK_SIZE * Pow[0] = BLOCK_SIZE
    BY <1>0, Powers
  <2>2. e - 1 \in 0 .. StackDepth - 1 /\ e - 1 + 1 = e
    BY <1>0
  <2>3. MerkleNode[e - 1 + 1][BLOCK_SIZE][i] = NewNode(MerkleNode[e - 1], BLOCK_SIZE, i)
    BY <1>0, <2>2, NodeBuilt
  <2>4. MerkleNode[e][BLOCK_SIZE][i] = Leaf(i, BLOCK_SIZE)
    BY <2>2, <2>3 DEF NewNode
  <2>5. Covering(Leaf(i, BLOCK_SIZE), i, BLOCK_SIZE)
    <3>1. Leaf(i, BLOCK_SIZE).node.blob_len = BLOCK_SIZE
      BY DEF Leaf, Node
    <3>2. Leaf(i, BLOCK_SIZE) # NoTree
      BY <1>0, <1>a, <3>1
    <3>3. /\ Leaf(i, BLOCK_SIZE).node.start_offset = i
          /\ Leaf(i, BLOCK_SIZE).node.hash = hash(i, BLOCK_SIZE)
          /\ Leaf(i, BLOCK_SIZE).below = {}
      BY DEF Leaf, Node
    <3> QED
      BY <3>1, <3>2, <3>3, LeafDigest DEF Covering
  <2> QED
    BY <2>1, <2>4, <2>5
<1>2. ASSUME NEW k \in Nat, k \in OK PROVE k + 1 \in OK
  <2> SUFFICES ASSUME NEW e \in 0 .. StackDepth, NEW i \in Nat, e > k + 1 PROVE Made(k + 1, e, i)
    OBVIOUS
  <2> DEFINE p == Pow[k]
             z == BLOCK_SIZE * p
             left == MerkleNode[e - 1][z][i]
             right == MerkleNode[e - 1][z][i + z]
             t == Joined(left, right, i, z + z)
  <2>1. p \in Nat \ {0} /\ Pow[k + 1] = 2 * p
    BY Powers
  <2>2. z \in Nat \ {0} /\ BLOCK_SIZE * (2 * p) = z + z
    <3> HIDE DEF p
    <3> QED
      BY <1>0, <2>1
  <2>3. z + z # BLOCK_SIZE
    <3> HIDE DEF p
    <3>1. z >= BLOCK_SIZE
      BY <1>0, <2>1
    <3> HIDE DEF z
    <3> QED
      BY <1>0, <2>2, <3>1
  <2>4. Covering(left, i, z) /\ Covering(right, i + z, z)
    <3>1. e - 1 \in 0 .. StackDepth /\ e - 1 > k
      BY <1>0
    <3>2. i + z \in Nat
      BY <2>2
    <3>3. Made(k, e - 1, i) /\ Made(k, e - 1, i + z)
      <4> HIDE DEF Made, z
      <4> QED
        BY <1>2, <3>1, <3>2
    <3> QED
      BY <3>3
  <2> HIDE DEF p
  <2>5. MerkleNode[e][z + z][i] = t
    <3>1. e - 1 \in 0 .. StackDepth - 1 /\ e - 1 + 1 = e
      BY <1>0
    <3>2. z + z \in Nat /\ (z + z) \div 2 = z /\ RightOffset(i, z + z) = i + z
      <4> HIDE DEF z
      <4> QED
        BY <2>2 DEF RightOffset
    <3>3. MerkleNode[e - 1 + 1][z + z][i] = NewNode(MerkleNode[e - 1], z + z, i)
      <4> HIDE DEF z
      <4> QED
        BY <3>1, <3>2, NodeBuilt
    <3>4. left # NoTree
      BY <2>4, Zenon DEF Covering
    <3> QED
      BY <2>3, <3>1, <3>2, <3>3, <3>4 DEF NewNode
  <2>6. Covering(t, i, z + z)
    <3> HIDE DEF left, right
    <3>1. /\ t.node.start_offset = i /\ t.node.blob_len = z + z
          /\ t.node.hash = left.node.hash \o right.node.hash
          /\ t.below = {left.node, right.node} \cup left.below \cup right.below
      BY Zenon DEF Joined, Node
    <3> HIDE DEF t
    <3>2. t # NoTree
      <4>1. z + z \in Nat \ {0}
        <5> HIDE DEF z
        <5> QED
          BY <2>2
      <4> QED
        BY <1>a, <3>1, <4>1
    <3>3. left.node.hash = Digests(i, z) /\ right.node.hash = Digests(i + z, z)
      <4> HIDE DEF z
      <4> QED
        BY <2>4 DEF Covering
    <3>4. Digests(i, z + z) = Digests(i, z) \o Digests(i + z, z)
      BY <2>1, <2>2, DigestsHalves, Zenon
    <3>5. t.node.hash = Digests(t.node.start_offset, t.node.blob_len)
      BY <3>1, <3>3, <3>4
    <3>6. ASSUME NEW d \in t.below PROVE d.hash = Digests(d.start_offset, d.blob_len)
      <4>1. d \in {left.node} \cup left.below \/ d \in {right.node} \cup right.below
        BY <3>1
      <4> HIDE DEF z
      <4> QED
        BY <2>4, <4>1 DEF Covering
    <3> HIDE DEF z
    <3> QED
      BY <3>1, <3>2, <3>5, <3>6 DEF Covering
  <2>7. BLOCK_SIZE * Pow[k + 1] = z + z
    BY <2>1, <2>2
  <2> HIDE DEF z, t
  <2> QED
    BY <2>5, <2>6, <2>7
<1>3. Nat \subseteq OK
  <2> HIDE DEF OK
  <2> QED
    BY <1>1, <1>2, SetInduction
<1>4. Made(j, room, o)
  <2> HIDE DEF Made
  <2> QED
    BY <1>3
<1> QED
  BY <1>4

\* A blob of no bytes overflows the stack.
LEMMA EmptyOverflows ==
    ASSUME NEW room \in 0 .. StackDepth, NEW o \in Nat
    PROVE  MerkleNode[room][0][o] = NoTree
<1>0. BLOCK_SIZE \in Nat \ {0} /\ StackDepth \in Nat
  BY MerkleAssumption
<1> DEFINE OK == {k \in Nat : k <= StackDepth => \A i \in Nat : MerkleNode[k][0][i] = NoTree}
<1>1. 0 \in OK
  BY NodeBuilt
<1>2. ASSUME NEW k \in Nat, k \in OK PROVE k + 1 \in OK
  <2> SUFFICES ASSUME k + 1 <= StackDepth, NEW i \in Nat PROVE MerkleNode[k + 1][0][i] = NoTree
    OBVIOUS
  <2>1. k \in 0 .. StackDepth - 1
    BY <1>0
  <2>2. MerkleNode[k + 1][0][i] = NewNode(MerkleNode[k], 0, i)
    BY <2>1, NodeBuilt
  <2>3. 0 # BLOCK_SIZE /\ 0 \div 2 = 0
    BY <1>0
  <2>4. MerkleNode[k][0][i] = NoTree
    BY <1>0, <1>2, <2>1
  <2> QED
    BY <2>2, <2>3, <2>4 DEF NewNode
<1>3. Nat \subseteq OK
  <2> HIDE DEF OK
  <2> QED
    BY <1>1, <1>2, SetInduction
<1> QED
  BY <1>0, <1>3

-----------------------------------------------------------------------------
(* MerkleTree: the invariant and the theorems *)

\* What every state of the Merkle tree workload satisfies: until the tree is built
\* the blob is as created, and between the two prompts the String holds one index.
MerkleInv ==
    /\ block_count \in 0 .. Usize - 1
    /\ DOMAIN data = DOMAIN created
    /\ prompt = "start" => data = created
    /\ prompt = "val" => \E k \in 0 .. Usize - 1 : user_input = <<k>>
    /\ TreeCovers
    /\ OnlyIndexStored

\* TreeCovers looks at these variables only.
LEMMA TreeKept ==
    ASSUME TreeCovers, prompt # "start", UNCHANGED <<block_count, created, root>>,
           prompt' = "overflowed" => prompt = "overflowed",
           prompt' \in {"idx", "val"} => prompt \in {"idx", "val"}
    PROVE  TreeCovers'
<1>1. \A o, z : Digests(o, z)' = Digests(o, z)
  BY DEF Digests
<1> QED
  BY <1>1 DEF TreeCovers

\* The tree that the constructor builds covers the blob.
LEMMA ConstructCovers ==
    ASSUME MerkleInv, Construct
    PROVE  TreeCovers'
<1>0. /\ BLOCK_SIZE \in Nat \ {0} /\ StackDepth \in Nat /\ Bits \in Nat /\ Bits <= StackDepth
      /\ Usize \in Nat \ {0}
  BY MerkleAssumption
<1>1. UNCHANGED <<block_count, data, created, user_input>> /\ prompt = "start" /\ data = created
  BY DEF Construct, MerkleInv
<1>2. CASE prompt' = "aborted"
  BY <1>2 DEF TreeCovers
<1>3. CASE /\ ~NotPower
           /\ root' = MerkleNode[StackDepth][blob_size][0]
           /\ prompt' = IF root' = NoTree THEN "overflowed" ELSE "idx"
  <2>1. block_count \in 0 .. Usize - 1
    BY DEF MerkleInv
  <2>2. CASE blob_size = 0 /\ (block_count = 0 \/ BLOCK_SIZE * block_count >= Usize)
    <3>1. root' = NoTree
      <4>1. StackDepth \in 0 .. StackDepth /\ 0 \in Nat
        BY <1>0
      <4>2. MerkleNode[StackDepth][0][0] = NoTree
        BY <4>1, EmptyOverflows
      <4> QED
        BY <1>3, <2>2, <4>2
    <3>2. prompt' = "overflowed"
      BY <1>3, <3>1
    <3> QED
      BY <1>1, <2>2, <3>2 DEF TreeCovers
  <2>3. ASSUME NEW j \in 0 .. Bits - 1, block_count = Pow[j], blob_size = BLOCK_SIZE * Pow[j]
        PROVE  TreeCovers'
    <3>1. j \in Nat /\ StackDepth \in 0 .. StackDepth /\ StackDepth > j /\ 0 \in Nat
      BY <1>0
    <3>2. Covering(MerkleNode[StackDepth][BLOCK_SIZE * Pow[j]][0], 0, BLOCK_SIZE * Pow[j])
      BY <1>1, <3>1, TreesCover
    <3>3. Covering(root', 0, BLOCK_SIZE * block_count)
      BY <1>3, <2>3, <3>2
    <3>4. prompt' = "idx"
      BY <1>3, <3>3 DEF Covering
    <3>5. \A o, z : Digests(o, z)' = Digests(o, z)
      BY <1>1 DEF Digests
    <3> QED
      BY <1>1, <3>3, <3>4, <3>5 DEF TreeCovers, Covering
  <2> QED
    BY <1>3, <2>1, <2>2, <2>3, BlobSize
<1> QED
  BY <1>2, <1>3 DEF Construct

\* Only the index is stored: the String holds the index alone when it is parsed
\* for the value.
LEMMA ParsedIndex ==
    ASSUME NEW k \in 0 .. Usize - 1, user_input = <<k>>, NEW line \in Lines,
           parse(user_input \o line, U8) # NaN
    PROVE  parse(user_input, Usize) = k /\ parse(user_input \o line, U8) = k
<1>0. Usize \in Nat /\ U8 \in Nat
  BY MerkleAssumption
<1>1. Len(<<k>>) = 1 /\ <<k>>[1] = k
  OBVIOUS
<1>2. parse(user_input, Usize) = k
  BY <1>1 DEF parse
<1>3. line = <<>> \/ \E e \in Int : line = <<e>>
  BY MerkleAssumption DEF Lines, NaN
<1>4. CASE line = <<>>
  <2>1. user_input \o line = <<k>>
    BY <1>4
  <2> QED
    BY <1>1, <1>2, <2>1 DEF parse
<1>5. ASSUME NEW e \in Int, line = <<e>> PROVE FALSE
  <2>1. Len(<<k>> \o <<e>>) = 2
    OBVIOUS
  <2>2. Len(user_input \o line) # 1
    BY <1>5, <2>1
  <2> QED
    BY <2>2 DEF parse
<1> QED
  BY <1>3, <1>4, <1>5, <1>2

\* The invariant holds at first, and every step keeps it.
LEMMA MerkleInductive ==
    /\ MInit => MerkleInv
    /\ MerkleInv /\ [MNext]_mvars => MerkleInv'
<1>1. ASSUME MInit PROVE MerkleInv
  <2>1. block_count \in 0 .. Usize - 1
    BY <1>1, MerkleAssumption DEF MInit
  <2> QED
    BY <1>1, <2>1 DEF MInit, MerkleInv, TreeCovers, OnlyIndexStored
<1>2. ASSUME MerkleInv, Construct PROVE MerkleInv'
  <2>1. UNCHANGED <<block_count, data, created, user_input>>
    BY <1>2 DEF Construct
  <2>2. prompt' \in {"aborted", "overflowed", "idx"}
    BY <1>2 DEF Construct
  <2>3. TreeCovers'
    BY <1>2, ConstructCovers
  <2> QED
    BY <1>2, <2>1, <2>2, <2>3 DEF MerkleInv, OnlyIndexStored
<1>3. ASSUME MerkleInv, ReadIdx PROVE MerkleInv'
  <2>1. UNCHANGED <<block_count, data, created, root>> /\ prompt = "idx"
    BY <1>3 DEF ReadIdx
  <2>2. PICK line \in Lines :
          IF parse(line, Usize) = NaN
          THEN UNCHANGED <<user_input, prompt>>
          ELSE user_input' = line /\ prompt' = "val"
    BY <1>3 DEF ReadIdx
  <2>3. prompt' \in {"idx", "val"}
    BY <2>1, <2>2
  <2>4. prompt' = "val" => \E k \in 0 .. Usize - 1 : user_input' = <<k>>
    <3> SUFFICES ASSUME prompt' = "val" PROVE \E k \in 0 .. Usize - 1 : user_input' = <<k>>
      OBVIOUS
    <3>1. user_input' = line /\ parse(line, Usize) # NaN
      BY <2>1, <2>2
    <3>2. Len(line) = 1 /\ line[1] \in 0 .. Usize - 1
      BY <3>1 DEF parse
    <3>3. line = <<>> \/ \E e \in Int : line = <<e>>
      BY MerkleAssumption DEF Lines, NaN
    <3>4. line = <<line[1]>>
      BY <3>2, <3>3
    <3> QED
      BY <3>1, <3>2, <3>4
  <2>5. TreeCovers'
    BY <1>3, <2>1, <2>3, TreeKept DEF MerkleInv
  <2> QED
    BY <1>3, <2>1, <2>3, <2>4, <2>5 DEF MerkleInv, OnlyIndexStored
<1>4. ASSUME MerkleInv, ReadVal PROVE MerkleInv'
  <2>1. UNCHANGED <<block_count, created>> /\ prompt = "val"
    BY <1>4 DEF ReadVal
  <2>2. PICK line \in Lines :
          IF parse(user_input \o line, U8) = NaN
          THEN prompt' = "idx" /\ UNCHANGED <<data, root>>
          ELSE set(parse(user_input, Usize), parse(user_input \o line, U8))
    BY <1>4 DEF ReadVal
  <2>3. PICK k \in 0 .. Usize - 1 : user_input = <<k>>
    BY <1>4, <2>1 DEF MerkleInv
  <2>4. root' = root /\ prompt' \in {"idx", "panicked"}
    BY <2>2 DEF set, update
  <2>5. data' = data \/ (k \in DOMAIN data /\ data' = [data EXCEPT ![k] = k])
    <3>1. CASE parse(user_input \o line, U8) = NaN
      BY <2>2, <3>1
    <3>2. CASE parse(user_input \o line, U8) # NaN
      <4>1. parse(user_input, Usize) = k /\ parse(user_input \o line, U8) = k
        BY <2>3, <3>2, ParsedIndex
      <4>2. set(k, k)
        BY <2>2, <3>2, <4>1
      <4> QED
        BY <4>2 DEF set
    <3> QED
      BY <3>1, <3>2
  <2>6. OnlyIndexStored'
    BY <1>4, <2>1, <2>5 DEF MerkleInv, OnlyIndexStored
  <2>7. DOMAIN data' = DOMAIN data
    BY <2>5
  <2>8. TreeCovers'
    BY <1>4, <2>1, <2>4, TreeKept DEF MerkleInv
  <2> QED
    BY <1>4, <2>1, <2>4, <2>6, <2>7, <2>8 DEF MerkleInv
<1>5. ASSUME MerkleInv, UNCHANGED mvars PROVE MerkleInv'
  <2>1. \A o, z : Digests(o, z)' = Digests(o, z)
    BY <1>5 DEF Digests, mvars
  <2>2. TreeCovers'
    BY <1>5, <2>1 DEF TreeCovers, mvars, MerkleInv
  <2> QED
    BY <1>5, <2>2 DEF MerkleInv, OnlyIndexStored, mvars
<1> QED
  BY <1>1, <1>2, <1>3, <1>4, <1>5 DEF MNext

\* Whatever the block size, the block count and the width of a usize, a block count
\* that passes the check gets a tree whose nodes have the digests of their blocks,
\* unless it is 0 or its blob does not fit.
THEOREM TreeBuilt == MSpec => []TreeCovers
<1>1. MSpec => []MerkleInv
  BY MerkleInductive, PTL DEF MSpec
<1>2. MerkleInv => TreeCovers
  BY DEF MerkleInv
<1> QED
  BY <1>1, <1>2, PTL

\* Whatever is typed, a byte that was set holds its own index.
THEOREM IndexStored == MSpec => []OnlyIndexStored
<1>1. MSpec => []MerkleInv
  BY MerkleInductive, PTL DEF MSpec
<1>2. MerkleInv => OnlyIndexStored
  BY DEF MerkleInv
<1> QED
  BY <1>1, <1>2, PTL
=============================================================================
