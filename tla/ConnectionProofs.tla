-------------------------- MODULE ConnectionProofs --------------------------
(***************************************************************************)
(* Proofs about Connection, for answers cut into any number of parts and   *)
(* requests numbered modulo any number: requests and answers alternate, no *)
(* answer is lost but the two known kinds, and getAnswer never returns an  *)
(* answer that is not the one its caller waits for.                        *)
(*                                                                         *)
(* None of the three is inductive: each needs to know, for every step the  *)
(* client may be at, everything that may be on the way to it. Inv says     *)
(* that, one phase of the conversation at a time. A stretch of bytes is    *)
(* described piece by piece (Pieces) rather than by concatenations, so     *)
(* that a read of k parts is a shift of an index.                          *)
(***************************************************************************)
EXTENDS Connection, FiniteSetTheorems, SequenceTheorems, TLAPS

AnswerParts == [of : Answers, part : 1 .. Parts]

\* The answer of a kind to the client's last request.
Reply(kind) == [tag |-> tag, kind |-> kind]

\* The i-th part of the stream in which answer b follows answer a.
Piece(i, a, b) ==
    IF i <= Parts THEN [of |-> a, part |-> i]
                  ELSE [of |-> b, part |-> i - Parts]

\* s is what that stream holds after its first skip parts.
Pieces(s, skip, a, b) == \A i \in 1 .. Len(s) : s[i] = Piece(skip + i, a, b)

\* What was read, s, and what may still be read, r, are together the first n
\* parts of that stream.
Halves(s, r, n, a, b) ==
    /\ Len(s) + Len(r) = n
    /\ Pieces(s, 0, a, b) /\ Pieces(r, Len(s), a, b)

OnTheWay(n, a, b) == Halves(buf, s2c, n, a, b)

\* What is left of an answer whose first parts are gone.
Remainder(r, a) ==
    \E skip \in 1 .. Parts : Len(r) = Parts - skip /\ Pieces(r, skip, a, a)

\* No byte of an answer is on the way.
Silent == buf = <<>> /\ s2c = <<>>

\* The client has sent its login and waits for the flag: the request is still
\* there; it was refused; it was accepted, and the flag and the User follow
\* each other; or the server died before it had sent both.
FlagPhase ==
    /\ cmdOut = {}
    /\ \/ /\ Silent /\ spc = "auth" /\ c2s = <<tag>> /\ authOut = <<>>
       \/ /\ Silent /\ spc = "auth" /\ c2s = <<>>
          /\ authOut = <<Reply("false")>>
       \/ /\ c2s = <<>> /\ authOut = <<>>
          /\ OnTheWay(Parts, Reply("false"), Reply("false"))
       \/ /\ Silent /\ spc = "serve" /\ c2s = <<>>
          /\ authOut = <<Reply("true"), Reply("user")>>
       \/ /\ spc = "serve" /\ c2s = <<>> /\ authOut = <<Reply("user")>>
          /\ OnTheWay(Parts, Reply("true"), Reply("user"))
       \/ /\ spc # "auth" /\ c2s = <<>> /\ authOut = <<>>
          /\ OnTheWay(Parts + Parts, Reply("true"), Reply("user"))
       \/ /\ spc = "closed" /\ c2s = <<>> /\ authOut = <<>>
          /\ Silent \/ OnTheWay(Parts, Reply("true"), Reply("user"))

\* The client has the flag and waits for the User: it is not sent yet, it is
\* all there, or its first skip parts went with the buffer of the flag.
UserPhase ==
    /\ cmdOut = {} /\ c2s = <<>> /\ spc # "auth"
    /\ \/ Silent /\ spc = "serve" /\ authOut = <<Reply("user")>>
       \/ authOut = <<>> /\ OnTheWay(Parts, Reply("user"), Reply("user"))
       \/ authOut = <<>> /\ buf = <<>> /\ Remainder(s2c, Reply("user"))

\* The client waits for the answer to a command: the request is there, or the
\* answer is in the pool, or on its way, or lost.
AwaitPhase ==
    /\ authOut = <<>> /\ spc # "auth"
    /\ \/ Silent /\ spc = "serve" /\ c2s = <<tag>> /\ cmdOut = {}
       \/ /\ Silent /\ spc = "serve" /\ c2s = <<>>
          /\ \E kind \in {"answer", "big"} : cmdOut = {Reply(kind)}
       \/ /\ c2s = <<>> /\ cmdOut = {}
          /\ Silent \/ OnTheWay(Parts, Reply("answer"), Reply("answer"))

\* The client waits for nothing and the server has nothing to do.
Settled == c2s = <<>> /\ authOut = <<>> /\ cmdOut = {} /\ buf = <<>>

\* What is on the way, by the step the client stands at.
Phase ==
    /\ cpc = "out" => Settled
    /\ cpc = "flag" => FlagPhase
    /\ cpc = "user" => UserPhase
    /\ cpc = "ready" => Settled /\ s2c = <<>> /\ spc # "auth"
    /\ cpc = "await" => AwaitPhase

\* A side that works has its end open; getAnswer holds less than an answer.
Ends ==
    /\ sopen <=> spc # "closed"
    /\ cpc # "out" => copen
    /\ Len(buf) < Parts

\* The inductive invariant.
Inv == TypeOK /\ Ends /\ Phase /\ OnlyKnownLosses

-----------------------------------------------------------------------------
(* Sequences *)

\* A read of k parts that follow what the buffer holds: what is read so far,
\* and what is left in the socket.
LEMMA Reading ==
    ASSUME NEW S, NEW s \in Seq(S), NEW r \in Seq(S), NEW k \in 1 .. Len(r)
    PROVE  LET all == s \o SubSeq(r, 1, k)
               rest == SubSeq(r, k + 1, Len(r))
           IN  /\ all \in Seq(S) /\ Len(all) = Len(s) + k
               /\ \A i \in 1 .. Len(s) : all[i] = s[i]
               /\ \A i \in 1 .. k : all[Len(s) + i] = r[i]
               /\ rest \in Seq(S) /\ Len(rest) = Len(r) - k
               /\ \A i \in 1 .. Len(r) - k : rest[i] = r[k + i]
<1> DEFINE head == SubSeq(r, 1, k)
<1> DEFINE rest == SubSeq(r, k + 1, Len(r))
<1> DEFINE all == s \o head
<1>1. Len(r) \in Nat /\ Len(s) \in Nat /\ k \in Nat
  OBVIOUS
<1>2. /\ head \in Seq(S) /\ Len(head) = k
      /\ \A i \in 1 .. k : head[i] = r[i]
  BY <1>1, SubSeqProperties
<1>3. /\ rest \in Seq(S) /\ Len(rest) = Len(r) - k
      /\ \A i \in 1 .. Len(r) - k : rest[i] = r[k + i]
  BY <1>1, SubSeqProperties
<1>4. /\ all \in Seq(S) /\ Len(all) = Len(s) + k
      /\ \A i \in 1 .. Len(s) + k :
            all[i] = IF i <= Len(s) THEN s[i] ELSE head[i - Len(s)]
  <2> HIDE DEF head
  <2>1. /\ all \in Seq(S) /\ Len(all) = Len(s) + Len(head)
        /\ \A i \in 1 .. Len(s) + Len(head) :
              all[i] = IF i <= Len(s) THEN s[i] ELSE head[i - Len(s)]
    BY <1>2, ConcatProperties, Zenon
  <2> QED
    BY <1>2, <2>1
<1>5. \A i \in 1 .. Len(s) : all[i] = s[i]
  <2> HIDE DEF all, head
  <2> QED
    BY <1>1, <1>4
<1>6. ASSUME NEW i \in 1 .. k PROVE all[Len(s) + i] = r[i]
  <2> HIDE DEF all, head
  <2>1. /\ Len(s) + i \in 1 .. Len(s) + k
        /\ ~ (Len(s) + i <= Len(s)) /\ Len(s) + i - Len(s) = i
    BY <1>1
  <2>2. all[Len(s) + i] = head[Len(s) + i - Len(s)]
    BY <1>1, <1>4, <2>1
  <2> QED
    BY <1>2, <2>1, <2>2
<1> QED
  BY <1>3, <1>4, <1>5, <1>6

\* What a client that reads k parts of a stream has read, and what it has
\* not.
LEMMA ReadingPieces ==
    ASSUME ConnectionAssumption,
           NEW s \in Seq(AnswerParts), NEW r \in Seq(AnswerParts),
           NEW k \in 1 .. Len(r), NEW a, NEW b, NEW skip \in Nat,
           Pieces(s, skip, a, b), Pieces(r, skip + Len(s), a, b)
    PROVE  LET all == s \o SubSeq(r, 1, k)
               rest == SubSeq(r, k + 1, Len(r))
           IN  /\ Pieces(all, skip, a, b)
               /\ Pieces(rest, skip + Len(all), a, b)
<1> DEFINE rest == SubSeq(r, k + 1, Len(r))
<1> DEFINE all == s \o SubSeq(r, 1, k)
<1>1. /\ all \in Seq(AnswerParts) /\ Len(all) = Len(s) + k
      /\ \A i \in 1 .. Len(s) : all[i] = s[i]
      /\ \A i \in 1 .. k : all[Len(s) + i] = r[i]
      /\ rest \in Seq(AnswerParts) /\ Len(rest) = Len(r) - k
      /\ \A i \in 1 .. Len(r) - k : rest[i] = r[k + i]
  BY Reading
<1> HIDE DEF rest, all
<1>2. Len(s) \in Nat /\ Len(r) \in Nat /\ k \in Nat
  OBVIOUS
<1>3. ASSUME NEW i \in 1 .. Len(all) PROVE all[i] = Piece(skip + i, a, b)
  <2>1. CASE i <= Len(s)
    <3>1. i \in 1 .. Len(s)
      BY <1>1, <1>2, <2>1
    <3> QED
      BY <1>1, <3>1 DEF Pieces
  <2>2. CASE i > Len(s)
    <3>1. PICK j \in 1 .. k : i = Len(s) + j
      <4>1. i - Len(s) \in 1 .. k /\ i = Len(s) + (i - Len(s))
        BY <1>1, <1>2, <2>2
      <4> QED
        BY <4>1
    <3>2. r[j] = Piece(skip + Len(s) + j, a, b)
      BY <1>2 DEF Pieces
    <3> QED
      BY <1>1, <1>2, <3>1, <3>2
  <2> QED
    BY <1>1, <1>2, <2>1, <2>2
<1>4. ASSUME NEW i \in 1 .. Len(rest)
      PROVE  rest[i] = Piece(skip + Len(all) + i, a, b)
  <2>1. r[k + i] = Piece(skip + Len(s) + (k + i), a, b)
    BY <1>1, <1>2 DEF Pieces
  <2>2. skip + Len(s) + (k + i) = skip + Len(all) + i
    BY <1>1, <1>2
  <2> QED
    BY <1>1, <1>2, <2>1, <2>2
<1> QED
  BY <1>3, <1>4 DEF Pieces, all, rest

\* What goes out when an answer is sent is the answer, piece by piece.
LEMMA CutPieces ==
    ASSUME ConnectionAssumption, NEW a \in Answers
    PROVE  /\ Cut(a) \in Seq(AnswerParts) /\ Len(Cut(a)) = Parts
           /\ \A i \in 1 .. Parts : Cut(a)[i] = [of |-> a, part |-> i]
<1>1. Parts \in Nat
  BY DEF ConnectionAssumption
<1>2. \A i \in 1 .. Parts : [of |-> a, part |-> i] \in AnswerParts
  BY DEF AnswerParts
<1>3. Cut(a) \in [1 .. Parts -> AnswerParts]
  BY <1>2 DEF Cut
<1>4. Cut(a) \in Seq(AnswerParts)
  BY <1>1, <1>3, SeqDef
<1>5. Len(Cut(a)) = Parts
  BY <1>1, <1>3, <1>4, LenProperties
<1> QED
  BY <1>4, <1>5 DEF Cut

\* The first answer that is sent to a silent connection is all that is on it.
LEMMA FirstSent ==
    ASSUME ConnectionAssumption, NEW a \in Answers, NEW b
    PROVE  Halves(<<>>, <<>> \o Cut(a), Parts, a, b)
<1>1. /\ Cut(a) \in Seq(AnswerParts) /\ Len(Cut(a)) = Parts
      /\ \A i \in 1 .. Parts : Cut(a)[i] = [of |-> a, part |-> i]
  BY CutPieces
<1>2. <<>> \o Cut(a) = Cut(a)
  BY <1>1, ConcatEmptySeq
<1>3. Pieces(Cut(a), 0, a, b)
  BY <1>1 DEF Pieces, Piece, ConnectionAssumption
<1>4. Pieces(<<>>, 0, a, b) /\ Len(<<>>) = 0
  BY DEF Pieces
<1> QED
  BY <1>1, <1>2, <1>3, <1>4 DEF Halves, ConnectionAssumption

\* The second answer follows the parts of the first.
LEMMA SecondSent ==
    ASSUME ConnectionAssumption, NEW a, NEW b \in Answers,
           NEW s \in Seq(AnswerParts), NEW r \in Seq(AnswerParts),
           Halves(s, r, Parts, a, b)
    PROVE  Halves(s, r \o Cut(b), Parts + Parts, a, b)
<1> DEFINE sent == r \o Cut(b)
<1>1. /\ Cut(b) \in Seq(AnswerParts) /\ Len(Cut(b)) = Parts
      /\ \A i \in 1 .. Parts : Cut(b)[i] = [of |-> b, part |-> i]
  BY CutPieces
<1>2. /\ Len(sent) = Len(r) + Parts
      /\ \A i \in 1 .. Len(r) + Parts :
            sent[i] = IF i <= Len(r) THEN r[i] ELSE Cut(b)[i - Len(r)]
  <2>1. /\ Len(sent) = Len(r) + Len(Cut(b))
        /\ \A i \in 1 .. Len(r) + Len(Cut(b)) :
            sent[i] = IF i <= Len(r) THEN r[i] ELSE Cut(b)[i - Len(r)]
    BY <1>1, ConcatProperties, Zenon
  <2> QED
    BY <1>1, <2>1
<1>3. /\ Len(s) \in Nat /\ Len(r) \in Nat /\ Parts \in Nat
      /\ Len(s) + Len(r) = Parts
  BY DEF Halves, ConnectionAssumption
<1> HIDE DEF sent
<1>4. ASSUME NEW i \in 1 .. Len(sent) PROVE sent[i] = Piece(Len(s) + i, a, b)
  <2>1. i \in 1 .. Len(r) + Parts
    BY <1>2
  <2>2. CASE i <= Len(r)
    BY <1>2, <1>3, <2>1, <2>2 DEF Halves, Pieces
  <2>3. CASE ~ (i <= Len(r))
    <3>1. /\ i - Len(r) \in 1 .. Parts
          /\ ~ (Len(s) + i <= Parts) /\ Len(s) + i - Parts = i - Len(r)
      BY <1>3, <2>1, <2>3
    <3>2. sent[i] = Cut(b)[i - Len(r)]
      BY <1>2, <2>1, <2>3
    <3>3. sent[i] = [of |-> b, part |-> i - Len(r)]
      BY <1>1, <3>1, <3>2
    <3> QED
      BY <3>1, <3>3 DEF Piece
  <2> QED
    BY <2>2, <2>3
<1>5. Len(s) + Len(sent) = Parts + Parts
  <2>1. Len(sent) = Len(r) + Parts
    BY <1>2
  <2> QED
    BY <1>3, <2>1
<1> QED
  BY <1>4, <1>5 DEF Halves, Pieces, sent

\* Sending an answer keeps the type of what is in the socket.
LEMMA SentTyped ==
    ASSUME ConnectionAssumption, NEW a \in Answers, NEW r \in Seq(AnswerParts)
    PROVE  r \o Cut(a) \in Seq(AnswerParts)
BY CutPieces, ConcatProperties

-----------------------------------------------------------------------------
(* Which phase a step finds *)

\* The answers of this protocol.
LEMMA Replies ==
    ASSUME TypeOK, NEW kind \in Kinds PROVE Reply(kind) \in Answers
BY DEF TypeOK, Reply, Answers

\* A login that the Session has not looked at is all there is.
LEMMA LoginPending ==
    ASSUME Inv, spc = "auth", c2s # <<>>
    PROVE  /\ cpc = "flag" /\ Silent /\ c2s = <<tag>>
           /\ authOut = <<>> /\ cmdOut = {}
BY DEF Inv, TypeOK, Phase, Waiting, Settled, FlagPhase, UserPhase, AwaitPhase

\* A command that the Session has not looked at is all there is.
LEMMA CommandPending ==
    ASSUME Inv, spc = "serve", c2s # <<>>
    PROVE  /\ cpc = "await" /\ Silent /\ c2s = <<tag>>
           /\ authOut = <<>> /\ cmdOut = {}
BY DEF Inv, TypeOK, Phase, Waiting, Settled, FlagPhase, UserPhase, AwaitPhase

\* What Account's pool may hold, and for whom.
LEMMA AuthPending ==
    ASSUME Inv, authOut # <<>>
    PROVE  /\ cmdOut = {} /\ c2s = <<>>
           /\ \/ /\ cpc = "flag" /\ Silent /\ spc = "auth"
                 /\ authOut = <<Reply("false")>>
              \/ /\ cpc = "flag" /\ Silent /\ spc = "serve"
                 /\ authOut = <<Reply("true"), Reply("user")>>
              \/ /\ cpc = "flag" /\ spc = "serve"
                 /\ authOut = <<Reply("user")>>
                 /\ OnTheWay(Parts, Reply("true"), Reply("user"))
              \/ /\ cpc = "user" /\ Silent /\ spc = "serve"
                 /\ authOut = <<Reply("user")>>
BY DEF Inv, TypeOK, Phase, Waiting, Settled, FlagPhase, UserPhase, AwaitPhase

\* What the session's pool may hold, and for whom.
LEMMA AnswerPending ==
    ASSUME Inv, cmdOut # {}
    PROVE  /\ cpc = "await" /\ Silent /\ spc = "serve"
           /\ c2s = <<>> /\ authOut = <<>>
           /\ \E kind \in {"answer", "big"} : cmdOut = {Reply(kind)}
BY DEF Inv, TypeOK, Phase, Waiting, Settled, FlagPhase, UserPhase, AwaitPhase

-----------------------------------------------------------------------------
(* The steps keep the invariant *)

\* The number of the next request.
LEMMA NextTag ==
    ASSUME TypeOK, tag' = (tag + 1) % Tags
    PROVE  tag' \in 0 .. Tags - 1
BY ConnectionAssumption DEF ConnectionAssumption, TypeOK

\* A new connection starts with the login on its way.
LEMMA ConnectKeeps == ASSUME Inv, Connect PROVE Inv'
<1>1. TypeOK'
  <2>1. tag' \in 0 .. Tags - 1
    BY NextTag DEF Inv, Connect
  <2> QED
    BY <2>1 DEF Inv, TypeOK, Connect, Waiting
<1>2. Ends'
  BY ConnectionAssumption DEF ConnectionAssumption, Ends, Connect
<1>3. Phase'
  BY DEF Phase, FlagPhase, Silent, Connect
<1> QED
  BY <1>1, <1>2, <1>3 DEF Inv, OnlyKnownLosses, Connect

\* A request of a client that waits for nothing is all there is, or goes to a
\* closed socket.
LEMMA SendCommandKeeps == ASSUME Inv, SendCommand PROVE Inv'
<1>1. /\ Settled /\ s2c = <<>> /\ spc # "auth" /\ copen
      /\ spc \in {"serve", "closed"} /\ (sopen <=> spc # "closed")
  BY DEF Inv, TypeOK, Phase, Ends, SendCommand
<1>2. tag' \in 0 .. Tags - 1
  BY NextTag DEF Inv, SendCommand
<1>3. c2s' = (IF sopen THEN <<tag'>> ELSE <<>>)
  BY <1>1 DEF SendCommand, Write, Settled
<1>4. TypeOK'
  <2>1. <<tag'>> \in Seq(0 .. Tags - 1) /\ <<>> \in Seq(0 .. Tags - 1)
    BY <1>2
  <2>2. c2s' \in Seq(0 .. Tags - 1)
    BY <1>3, <2>1, Zenon
  <2> QED
    BY <1>2, <2>2 DEF Inv, TypeOK, SendCommand, serverVars, Waiting
<1>5. Phase'
  BY <1>1, <1>3 DEF Phase, AwaitPhase, Silent, Settled, SendCommand, serverVars
<1> QED
  BY <1>1, <1>4, <1>5
  DEF Inv, Ends, OnlyKnownLosses, SendCommand, serverVars

\* logOut leaves a silent connection.
LEMMA LogOutKeeps == ASSUME Inv, LogOut PROVE Inv'
BY DEF Inv, TypeOK, Ends, Phase, Settled, OnlyKnownLosses, LogOut, serverVars,
       Waiting

\* A login is answered with FALSE, or with TRUE and the User.
LEMMA AuthenticateKeeps == ASSUME Inv, Authenticate PROVE Inv'
<1>1. /\ cpc = "flag" /\ Silent /\ c2s = <<tag>>
      /\ authOut = <<>> /\ cmdOut = {}
  BY LoginPending DEF Authenticate
<1>2. c2s' = <<>> /\ Head(c2s) = tag
  BY <1>1 DEF Authenticate
<1>3. \/ spc' = "serve" /\ authOut' = <<Reply("true"), Reply("user")>>
      \/ spc' = "auth" /\ authOut' = <<Reply("false")>>
  BY <1>1, <1>2 DEF Authenticate, Reply
<1>4. /\ Reply("true") \in Answers /\ Reply("user") \in Answers
      /\ Reply("false") \in Answers
  BY Replies DEF Inv, Kinds
<1>5. TypeOK'
  <2>1. /\ <<Reply("true"), Reply("user")>> \in Seq(Answers)
        /\ <<Reply("false")>> \in Seq(Answers)
    <3> HIDE DEF Answers
    <3> QED
      BY <1>4
  <2>2. authOut' \in Seq(Answers) /\ spc' \in {"auth", "serve"}
    BY <1>3, <2>1
  <2> QED
    BY <1>2, <2>2 DEF Inv, TypeOK, Authenticate
<1>6. Phase'
  BY <1>1, <1>2, <1>3 DEF Phase, FlagPhase, Silent, Reply, Authenticate
<1>7. Ends'
  BY <1>1, <1>3 DEF Inv, Ends, Authenticate
<1> QED
  BY <1>5, <1>6, <1>7 DEF Inv, OnlyKnownLosses, Authenticate

\* The answer to the command goes to the empty pool.
LEMMA ServeKeeps == ASSUME Inv, Serve PROVE Inv'
<1>1. /\ cpc = "await" /\ Silent /\ c2s = <<tag>>
      /\ authOut = <<>> /\ cmdOut = {} /\ spc = "serve"
  BY CommandPending DEF Serve
<1>2. c2s' = <<>> /\ Head(c2s) = tag
  BY <1>1 DEF Serve
<1>3. PICK kind \in {"answer", "big"} : cmdOut' = {Reply(kind)}
  BY <1>1, <1>2 DEF Serve, Reply
<1>4. Reply(kind) \in Answers
  BY Replies DEF Inv, Kinds
<1>5. TypeOK'
  BY <1>2, <1>3, <1>4 DEF Inv, TypeOK, Serve
<1>6. Phase'
  BY <1>1, <1>2, <1>3 DEF Phase, AwaitPhase, Silent, Reply, Serve
<1> QED
  BY <1>1, <1>5, <1>6 DEF Inv, Ends, OnlyKnownLosses, Serve

\* A command that throws leaves a silent, closed connection.
LEMMA AbortKeeps == ASSUME Inv, Abort PROVE Inv'
<1>1. /\ cpc = "await" /\ Silent /\ c2s = <<tag>>
      /\ authOut = <<>> /\ cmdOut = {}
  BY CommandPending DEF Abort
<1>2. c2s' = <<>>
  BY <1>1 DEF Abort
<1>3. TypeOK'
  <2>1. c2s' \in Seq(0 .. Tags - 1)
    BY <1>2
  <2> QED
    BY <2>1 DEF Inv, TypeOK, Abort
<1>4. Phase'
  BY <1>1, <1>2 DEF Phase, AwaitPhase, Silent, Abort
<1> QED
  BY <1>1, <1>3, <1>4 DEF Inv, Ends, OnlyKnownLosses, Abort

\* Only a client that left makes the Session see the end of the stream.
LEMMA SeeEndKeeps == ASSUME Inv, SeeEnd PROVE Inv'
BY DEF Inv, TypeOK, Ends, Phase, Settled, OnlyKnownLosses, SeeEnd, Waiting

\* The pool of Account sends the flag, or the User after it.
LEMMA SendAuthAnswerKeeps == ASSUME Inv, SendAuthAnswer PROVE Inv'
<1>1. authOut # <<>>
  BY DEF SendAuthAnswer
<1>2. cmdOut = {} /\ c2s = <<>> /\ sopen
  BY <1>1, AuthPending DEF Inv, Ends
<1>3. /\ Reply("true") \in Answers /\ Reply("user") \in Answers
      /\ Reply("false") \in Answers
  BY Replies DEF Inv, Kinds
<1>4. Reply("true")' = Reply("true") /\ Reply("user")' = Reply("user")
      /\ Reply("false")' = Reply("false")
  BY DEF Reply, SendAuthAnswer
<1>5. s2c \in Seq(AnswerParts) /\ buf \in Seq(AnswerParts)
  BY DEF Inv, TypeOK, AnswerParts
<1>6. ASSUME NEW a \in Answers, a.kind # "big", Head(authOut) = a,
             Tail(authOut) \in Seq(Answers)
      PROVE  /\ s2c' = s2c \o Cut(a) /\ dropped' = dropped
             /\ TypeOK' /\ Ends' /\ OnlyKnownLosses'
  <2>1. s2c' = s2c \o Cut(a) /\ dropped' = dropped
    BY <1>2, <1>6 DEF SendAuthAnswer, Transmit
  <2>2. s2c' \in Seq(AnswerParts)
    BY <1>5, <2>1, SentTyped, ConnectionAssumption
  <2>3. TypeOK'
    BY <1>6, <2>1, <2>2 DEF Inv, TypeOK, SendAuthAnswer, AnswerParts
  <2> QED
    BY <2>1, <2>3 DEF Inv, Ends, OnlyKnownLosses, SendAuthAnswer
<1>7. CASE cpc = "flag" /\ Silent /\ spc = "auth" /\ authOut = <<Reply("false")>>
  <2>1. /\ Head(authOut) = Reply("false") /\ Tail(authOut) = <<>>
        /\ Reply("false").kind # "big" /\ <<>> \in Seq(Answers)
    BY <1>7 DEF Reply
  <2>2. s2c' = s2c \o Cut(Reply("false")) /\ TypeOK' /\ Ends' /\ OnlyKnownLosses'
    BY <1>3, <1>6, <2>1, Zenon
  <2>3. Halves(buf, s2c', Parts, Reply("false"), Reply("false"))
    BY <1>3, <1>7, <2>2, FirstSent, ConnectionAssumption DEF Silent
  <2>4. OnTheWay(Parts, Reply("false"), Reply("false"))'
    BY <1>4, <2>3 DEF OnTheWay, SendAuthAnswer
  <2>5. Phase'
    BY <1>2, <1>7, <2>1, <2>4 DEF Phase, FlagPhase, SendAuthAnswer
  <2> QED
    BY <2>2, <2>5 DEF Inv
<1>8. CASE /\ cpc = "flag" /\ Silent /\ spc = "serve"
           /\ authOut = <<Reply("true"), Reply("user")>>
  <2>1. /\ Head(authOut) = Reply("true") /\ Tail(authOut) = <<Reply("user")>>
        /\ Reply("true").kind # "big"
    BY <1>8 DEF Reply
  <2>2. <<Reply("user")>> \in Seq(Answers)
    BY <1>3
  <2>3. s2c' = s2c \o Cut(Reply("true")) /\ TypeOK' /\ Ends' /\ OnlyKnownLosses'
    BY <1>3, <1>6, <2>1, <2>2, Zenon
  <2>4. Halves(buf, s2c', Parts, Reply("true"), Reply("user"))
    BY <1>3, <1>8, <2>3, FirstSent, ConnectionAssumption DEF Silent
  <2>5. OnTheWay(Parts, Reply("true"), Reply("user"))'
    BY <1>4, <2>4 DEF OnTheWay, SendAuthAnswer
  <2>6. authOut' = <<Reply("user")'>>
    BY <1>4, <2>1 DEF SendAuthAnswer
  <2>7. Phase'
    BY <1>2, <1>8, <2>5, <2>6 DEF Phase, FlagPhase, SendAuthAnswer
  <2> QED
    BY <2>3, <2>7 DEF Inv
<1>9. CASE authOut = <<Reply("user")>>
  <2>1. /\ Head(authOut) = Reply("user") /\ Tail(authOut) = <<>>
        /\ Reply("user").kind # "big" /\ <<>> \in Seq(Answers)
    BY <1>9 DEF Reply
  <2>2. s2c' = s2c \o Cut(Reply("user")) /\ TypeOK' /\ Ends' /\ OnlyKnownLosses'
    BY <1>3, <1>6, <2>1, Zenon
  <2>3. ASSUME cpc = "flag", spc = "serve",
               OnTheWay(Parts, Reply("true"), Reply("user"))
        PROVE  Phase'
    <3>1. Halves(buf, s2c', Parts + Parts, Reply("true"), Reply("user"))
      BY <1>3, <1>5, <2>2, <2>3, SecondSent, ConnectionAssumption DEF OnTheWay
    <3>2. OnTheWay(Parts + Parts, Reply("true"), Reply("user"))'
      BY <1>4, <3>1 DEF OnTheWay, SendAuthAnswer
    <3> QED
      BY <1>2, <2>1, <2>3, <3>2 DEF Phase, FlagPhase, SendAuthAnswer
  <2>4. ASSUME cpc = "user", Silent, spc = "serve" PROVE Phase'
    <3>1. Halves(buf, s2c', Parts, Reply("user"), Reply("user"))
      BY <1>3, <2>2, <2>4, FirstSent, ConnectionAssumption DEF Silent
    <3>2. OnTheWay(Parts, Reply("user"), Reply("user"))'
      BY <1>4, <3>1 DEF OnTheWay, SendAuthAnswer
    <3> QED
      BY <1>2, <2>1, <2>4, <3>2 DEF Phase, UserPhase, SendAuthAnswer
  <2>5. authOut # <<Reply("false")>> /\ authOut # <<Reply("true"), Reply("user")>>
    BY <1>9 DEF Reply
  <2>6. Phase'
    BY <1>1, <2>3, <2>4, <2>5, AuthPending
  <2> QED
    BY <2>2, <2>6 DEF Inv
<1> QED
  BY <1>1, <1>7, <1>8, <1>9, AuthPending

\* The pool of five sends the one answer, or drops it.
LEMMA SendAnswerKeeps == ASSUME Inv, SendAnswer PROVE Inv'
<1>1. PICK a \in cmdOut :
        /\ Transmit(a) /\ cmdOut' = cmdOut \ {a}
        /\ UNCHANGED <<cpc, tag, buf, got, c2s, copen, sopen, spc, authOut>>
  BY DEF SendAnswer
<1>2. /\ cpc = "await" /\ Silent /\ spc = "serve"
      /\ c2s = <<>> /\ authOut = <<>>
      /\ \E kind \in {"answer", "big"} : cmdOut = {Reply(kind)}
  BY <1>1, AnswerPending
<1>3. PICK kind \in {"answer", "big"} : cmdOut = {Reply(kind)}
  BY <1>2
<1>4. /\ a = Reply(kind) /\ a.kind = kind /\ cmdOut' = {} /\ sopen
      /\ Reply("answer")' = Reply("answer")
  BY <1>1, <1>2, <1>3 DEF Reply, Inv, Ends
<1>5. Reply("answer") \in Answers /\ Reply("answer").kind = "answer"
  BY Replies DEF Inv, Kinds, Reply
<1>6. CASE kind = "big"
  <2>1. s2c' = s2c /\ dropped' = dropped \union {"big"}
    BY <1>1, <1>4, <1>6 DEF Transmit
  <2>2. TypeOK'
    BY <1>1, <1>4, <2>1 DEF Inv, TypeOK, Kinds
  <2>3. Phase'
    BY <1>1, <1>2, <1>4, <2>1 DEF Phase, AwaitPhase, Silent
  <2>4. OnlyKnownLosses' /\ Ends'
    BY <1>1, <2>1 DEF Inv, OnlyKnownLosses, Ends
  <2> QED
    BY <2>2, <2>3, <2>4 DEF Inv
<1>7. CASE kind = "answer"
  <2>1. s2c' = s2c \o Cut(Reply("answer")) /\ dropped' = dropped
    BY <1>1, <1>4, <1>7 DEF Transmit
  <2>2. s2c' \in Seq(AnswerParts)
    BY <1>5, <2>1, SentTyped, ConnectionAssumption DEF Inv, TypeOK, AnswerParts
  <2>3. TypeOK'
    BY <1>1, <1>4, <2>1, <2>2 DEF Inv, TypeOK, AnswerParts
  <2>4. Halves(buf, s2c', Parts, Reply("answer"), Reply("answer"))
    BY <1>2, <1>5, <2>1, FirstSent, ConnectionAssumption DEF Silent
  <2>5. OnTheWay(Parts, Reply("answer"), Reply("answer"))'
    BY <1>1, <1>4, <2>4 DEF OnTheWay
  <2>6. Phase'
    BY <1>1, <1>2, <1>4, <2>5 DEF Phase, AwaitPhase
  <2>7. OnlyKnownLosses' /\ Ends'
    BY <1>1, <2>1 DEF Inv, OnlyKnownLosses, Ends
  <2> QED
    BY <2>3, <2>6, <2>7 DEF Inv
<1> QED
  BY <1>6, <1>7

\* The server dies: what it had sent is still there, the rest is gone.
LEMMA CrashKeeps == ASSUME Inv, Crash PROVE Inv'
<1>1. TypeOK'
  <2>1. /\ c2s' \in Seq(0 .. Tags - 1) /\ authOut' \in Seq(Answers)
        /\ cmdOut' \in SUBSET Answers
    BY DEF Crash
  <2> QED
    BY <2>1 DEF Inv, TypeOK, Crash
<1>2. Ends' /\ OnlyKnownLosses'
  BY DEF Inv, Ends, OnlyKnownLosses, Crash
<1>3. cpc = "out" \/ cpc = "ready" => Phase'
  BY DEF Inv, Phase, Settled, Crash
<1>4. cpc = "flag" => Phase'
  BY DEF Inv, Phase, FlagPhase, OnTheWay, Silent, Reply, Crash
<1>5. CASE cpc = "user"
  <2>1. /\ cpc' = "user" /\ cmdOut' = {} /\ c2s' = <<>> /\ spc' = "closed"
        /\ authOut' = <<>> /\ buf' = buf /\ s2c' = s2c
        /\ Reply("user")' = Reply("user")
    BY <1>5 DEF Crash, Reply
  <2>2. Silent => buf = <<>> /\ Remainder(s2c, Reply("user"))
    BY ConnectionAssumption
    DEF Silent, Remainder, Pieces, ConnectionAssumption
  <2>3. \/ Halves(buf, s2c, Parts, Reply("user"), Reply("user"))
        \/ buf = <<>> /\ Remainder(s2c, Reply("user"))
    BY <1>5, <2>2 DEF Inv, Phase, UserPhase, OnTheWay
  <2>4. \/ Halves(buf', s2c', Parts, Reply("user")', Reply("user")')
        \/ buf' = <<>> /\ Remainder(s2c', Reply("user")')
    BY <2>1, <2>3
  <2>5. UserPhase'
    BY <2>1, <2>4 DEF UserPhase, OnTheWay
  <2> QED
    BY <1>1, <1>2, <2>1, <2>5 DEF Inv, Phase
<1>6. cpc = "await" => Phase'
  BY DEF Inv, Phase, AwaitPhase, OnTheWay, Silent, Reply, Crash
<1> QED
  BY <1>1, <1>2, <1>3, <1>4, <1>5, <1>6 DEF Inv, TypeOK, Waiting

\* The end of the stream ends the wait.
LEMMA ReadEndKeeps == ASSUME Inv, ReadEnd PROVE Inv'
<1>1. spc = "closed"
  BY DEF Inv, Ends, ReadEnd
<1>2. c2s = <<>> /\ authOut = <<>> /\ cmdOut = {}
  BY <1>1, AuthPending, AnswerPending
  DEF Inv, TypeOK, Phase, FlagPhase, UserPhase, AwaitPhase, Settled, Waiting
<1>3. cpc' \in {"out", "ready"} /\ (cpc # "out" => copen)
  BY DEF Inv, Ends, ReadEnd, GiveUp, Waiting
<1>4. TypeOK'
  BY <1>3 DEF Inv, TypeOK, ReadEnd, serverVars
<1>5. Phase'
  BY <1>1, <1>2, <1>3 DEF Phase, Settled, ReadEnd, serverVars
<1>6. Ends'
  BY <1>3, ConnectionAssumption
  DEF Inv, Ends, ReadEnd, Waiting, serverVars, ConnectionAssumption
<1> QED
  BY <1>4, <1>5, <1>6 DEF Inv, OnlyKnownLosses, ReadEnd

-----------------------------------------------------------------------------
(* Reading *)

\* A read shifts the border between what was read and what was not. What has
\* been read begins with the first part of the first answer.
LEMMA ReadShifts ==
    ASSUME ConnectionAssumption,
           NEW s \in Seq(AnswerParts), NEW r \in Seq(AnswerParts),
           NEW k \in 1 .. Len(r), NEW n, NEW a, NEW b, Halves(s, r, n, a, b)
    PROVE  LET all == s \o SubSeq(r, 1, k)
               rest == SubSeq(r, k + 1, Len(r))
           IN  /\ Halves(all, rest, n, a, b)
               /\ all[1].part = 1 /\ all[1].of = a
<1> DEFINE rest == SubSeq(r, k + 1, Len(r))
<1> DEFINE all == s \o SubSeq(r, 1, k)
<1>1. /\ Pieces(s, 0, a, b) /\ Pieces(r, 0 + Len(s), a, b)
      /\ Len(s) + Len(r) = n /\ Len(s) \in Nat /\ Len(r) \in Nat
  BY DEF Halves
<1>2. Pieces(all, 0, a, b) /\ Pieces(rest, 0 + Len(all), a, b)
  BY <1>1, ReadingPieces
<1>3. Len(all) = Len(s) + k /\ Len(rest) = Len(r) - k
  BY Reading
<1> HIDE DEF all, rest
<1>4. Halves(all, rest, n, a, b)
  BY <1>1, <1>2, <1>3 DEF Halves
<1>5. all[1] = Piece(1, a, b)
  BY <1>1, <1>2, <1>3 DEF Pieces
<1>6. all[1] = [of |-> a, part |-> 1]
  BY <1>5 DEF Piece, ConnectionAssumption
<1> QED
  BY <1>4, <1>6 DEF all, rest

\* A read of all there is of one answer leaves nothing and drops nothing.
LEMMA ReadOne ==
    ASSUME ConnectionAssumption,
           NEW s \in Seq(AnswerParts), NEW r \in Seq(AnswerParts), NEW a, NEW b,
           Halves(s, r, Parts, a, b), Len(s) >= Parts
    PROVE  r = <<>> /\ Rest(s) = {}
<1>1. Len(s) = Parts /\ Len(r) = 0 /\ Parts \in Nat
  BY DEF Halves, ConnectionAssumption
<1>2. (Parts + 1) .. Len(s) = {}
  BY <1>1
<1> QED
  BY <1>1, <1>2, EmptySeq DEF Rest

\* A read that has the first of two answers drops only what it has of the
\* second, and the rest of the second is still to come.
LEMMA ReadFirst ==
    ASSUME ConnectionAssumption,
           NEW s \in Seq(AnswerParts), NEW r \in Seq(AnswerParts), NEW a, NEW b,
           Halves(s, r, Parts + Parts, a, b), Len(s) >= Parts
    PROVE  /\ Halves(<<>>, r, Parts, b, b) \/ Remainder(r, b)
           /\ Rest(s) \subseteq {b.kind}
<1>1. /\ Len(s) \in Nat /\ Len(r) \in Nat /\ Parts \in Nat
      /\ Len(s) + Len(r) = Parts + Parts
  BY DEF Halves, ConnectionAssumption
<1> DEFINE skip == Len(s) - Parts
<1>2. skip \in 0 .. Parts /\ Len(r) = Parts - skip
  BY <1>1
<1>3. ASSUME NEW i \in 1 .. Len(r) PROVE r[i] = Piece(skip + i, b, b)
  <2>1. r[i] = Piece(Len(s) + i, a, b)
    BY DEF Halves, Pieces
  <2>2. /\ ~ (Len(s) + i <= Parts) /\ skip + i <= Parts
        /\ Len(s) + i - Parts = skip + i
    BY <1>1
  <2> QED
    BY <2>1, <2>2 DEF Piece
<1>4. Halves(<<>>, r, Parts, b, b) \/ Remainder(r, b)
  <2>1. CASE skip = 0
    <3>1. Len(<<>>) = skip /\ Len(<<>>) + Len(r) = Parts
      BY <1>1, <1>2, <2>1
    <3>2. Pieces(r, Len(<<>>), b, b)
      BY <1>3, <3>1 DEF Pieces
    <3> QED
      BY <3>1, <3>2 DEF Halves, Pieces
  <2>2. CASE skip \in 1 .. Parts
    BY <1>2, <1>3, <2>2 DEF Remainder, Pieces
  <2> QED
    BY <1>1, <1>2, <2>1, <2>2
<1>5. ASSUME NEW i \in (Parts + 1) .. Len(s) PROVE s[i].of.kind = b.kind
  <2>1. i \in 1 .. Len(s) /\ 0 + i = i /\ ~ (i <= Parts)
    BY <1>1
  <2>2. s[i] = Piece(i, a, b)
    BY <2>1 DEF Halves, Pieces
  <2>3. s[i] = [of |-> b, part |-> i - Parts]
    BY <2>1, <2>2 DEF Piece
  <2> QED
    BY <2>3
<1> QED
  BY <1>4, <1>5 DEF Rest

\* What is left of an answer does not begin an object.
LEMMA ReadRemainder ==
    ASSUME ConnectionAssumption, NEW r \in Seq(AnswerParts), NEW a,
           Remainder(r, a), NEW k \in 1 .. Len(r)
    PROVE  (<<>> \o SubSeq(r, 1, k))[1].part # 1
<1> DEFINE all == <<>> \o SubSeq(r, 1, k)
<1>1. PICK skip \in 1 .. Parts : Len(r) = Parts - skip /\ Pieces(r, skip, a, a)
  BY DEF Remainder
<1>2. <<>> \in Seq(AnswerParts) /\ Len(<<>>) = 0
  OBVIOUS
<1>3. \A i \in 1 .. k : all[Len(<<>>) + i] = r[i]
  BY <1>2, Reading
<1> HIDE DEF all
<1>4. 1 \in 1 .. k /\ 1 \in 1 .. Len(r) /\ Len(<<>>) + 1 = 1
  BY <1>2
<1>5. all[1] = r[1]
  BY <1>3, <1>4
<1>6. r[1] = Piece(skip + 1, a, a)
  BY <1>1, <1>4 DEF Pieces
<1>7. skip + 1 <= Parts /\ skip + 1 # 1
  BY <1>1, <1>4 DEF ConnectionAssumption
<1>8. r[1] = [of |-> a, part |-> skip + 1]
  BY <1>6, <1>7 DEF Piece
<1> QED
  BY <1>5, <1>7, <1>8 DEF all

\* What a step may do to the answer getAnswer returned last.
GotReply ==
    \/ got' = got \/ got' = IOFailure
    \/ \E kind \in Expected[cpc] : got' = Reply(kind)

\* The bytes of getAnswer keep their type whatever a read finds.
LEMMA ReadTyped ==
    ASSUME Inv, NEW k \in 1 .. Len(s2c),
           s2c' = SubSeq(s2c, k + 1, Len(s2c)),
           buf' \in {<<>>, buf \o SubSeq(s2c, 1, k)},
           cpc' \in Waiting \union {"out", "ready"},
           got' \in Answers \union {NullAnswer, IOFailure},
           dropped' \in SUBSET Kinds, UNCHANGED <<tag, c2s, copen, serverVars>>
    PROVE  TypeOK'
<1>1. s2c \in Seq(AnswerParts) /\ buf \in Seq(AnswerParts)
  BY DEF Inv, TypeOK, AnswerParts
<1>2. /\ s2c' \in Seq(AnswerParts)
      /\ buf \o SubSeq(s2c, 1, k) \in Seq(AnswerParts)
      /\ <<>> \in Seq(AnswerParts)
  BY <1>1, Reading
<1>3. s2c' \in Seq(AnswerParts) /\ buf' \in Seq(AnswerParts)
  BY <1>2
<1> QED
  BY <1>3 DEF Inv, TypeOK, serverVars, AnswerParts

\* A read of the client when the bytes of answer a, and of b after it, are on
\* the way: getAnswer goes on, with the same stream, or returns a.
LEMMA ReadOutcome ==
    ASSUME Inv, Read, NEW n, NEW a, NEW b, OnTheWay(n, a, b)
    PROVE  \/ /\ Halves(buf', s2c', n, a, b) /\ Len(buf') < Parts
              /\ UNCHANGED <<cpc, got, dropped>> /\ TypeOK'
           \/ /\ buf' = <<>> /\ got' = a /\ cpc' = Accept(a.kind) /\ TypeOK'
              /\ s2c' \in Seq(AnswerParts)
              /\ \E all \in Seq(AnswerParts) :
                    /\ Halves(all, s2c', n, a, b) /\ Len(all) >= Parts
                    /\ dropped' = dropped \union Rest(all)
<1>1. s2c \in Seq(AnswerParts) /\ buf \in Seq(AnswerParts)
  BY DEF Inv, TypeOK, AnswerParts
<1>2. PICK k \in 1 .. Len(s2c) :
          LET all == buf \o SubSeq(s2c, 1, k) IN
          /\ s2c' = SubSeq(s2c, k + 1, Len(s2c))
          /\ \/ /\ all[1].part # 1
                /\ buf' = <<>> /\ got' = IOFailure /\ cpc' = GiveUp(cpc)
                /\ UNCHANGED dropped
             \/ /\ all[1].part = 1 /\ Len(all) < Parts
                /\ buf' = all
                /\ UNCHANGED <<cpc, got, dropped>>
             \/ /\ all[1].part = 1 /\ Len(all) >= Parts
                /\ buf' = <<>> /\ got' = all[1].of
                /\ cpc' = Accept(got'.kind)
                /\ dropped' = dropped \union Rest(all)
  BY DEF Read
<1> DEFINE all == buf \o SubSeq(s2c, 1, k)
<1>3. /\ Halves(all, s2c', n, a, b)
      /\ all[1].part = 1 /\ all[1].of = a
  BY <1>1, <1>2, ReadShifts, ConnectionAssumption DEF OnTheWay
<1>4. /\ all \in Seq(AnswerParts) /\ Len(all) = Len(buf) + k
      /\ s2c' \in Seq(AnswerParts)
  BY <1>1, <1>2, Reading
<1>5. UNCHANGED <<tag, c2s, copen, serverVars>> /\ cpc \in Waiting
  BY DEF Read
<1>6. s2c' = SubSeq(s2c, k + 1, Len(s2c))
  BY <1>2
<1>7. \/ Len(all) < Parts /\ buf' = all /\ UNCHANGED <<cpc, got, dropped>>
      \/ /\ Len(all) >= Parts /\ buf' = <<>> /\ got' = a
         /\ cpc' = Accept(a.kind) /\ dropped' = dropped \union Rest(all)
  BY <1>2, <1>3
<1>8. buf' \in {<<>>, all}
  BY <1>7
<1>9. CASE Len(all) < Parts /\ buf' = all /\ UNCHANGED <<cpc, got, dropped>>
  <2>1. TypeOK'
    <3>1. /\ cpc' \in Waiting \union {"out", "ready"}
          /\ got' \in Answers \union {NullAnswer, IOFailure}
          /\ dropped' \in SUBSET Kinds
      BY <1>9 DEF Inv, TypeOK
    <3> QED
      BY <1>5, <1>6, <1>8, <3>1, ReadTyped
  <2> QED
    BY <1>3, <1>9, <2>1
<1>10. CASE /\ Len(all) >= Parts /\ buf' = <<>> /\ got' = a
            /\ cpc' = Accept(a.kind) /\ dropped' = dropped \union Rest(all)
  <2>1. Len(all) \in Nat /\ Len(all) >= 1 /\ Parts \in Nat
    <3> HIDE DEF all
    <3> QED
      BY <1>1, <1>4, ConnectionAssumption DEF ConnectionAssumption
  <2>2. \A i \in 1 .. Len(all) : all[i].of \in Answers /\ all[i].of.kind \in Kinds
    <3> HIDE DEF all
    <3>1. \A i \in 1 .. Len(all) : all[i] \in AnswerParts
      BY <1>4, ElementOfSeq
    <3> QED
      BY <3>1 DEF AnswerParts, Answers
  <2>3. a \in Answers
    BY <1>3, <2>1, <2>2
  <2>4. Rest(all) \subseteq Kinds
    <3> HIDE DEF all
    <3>1. \A i \in (Parts + 1) .. Len(all) : i \in 1 .. Len(all)
      BY <2>1
    <3> QED
      BY <2>2, <3>1 DEF Rest
  <2>5. TypeOK'
    <3>1. /\ cpc' \in Waiting \union {"out", "ready"}
          /\ got' \in Answers \union {NullAnswer, IOFailure}
          /\ dropped' \in SUBSET Kinds
      BY <1>10, <2>3, <2>4 DEF Inv, TypeOK, Accept, Waiting
    <3> QED
      BY <1>5, <1>6, <1>8, <3>1, ReadTyped
  <2> HIDE DEF all
  <2> QED
    BY <1>3, <1>4, <1>10, <2>5
<1> QED
  BY <1>7, <1>9, <1>10

\* A client that reads finds parts: the connection is not silent.
LEMMA ReadNotSilent == ASSUME Inv, Read PROVE ~ Silent
<1>1. Len(<<>>) = 0
  OBVIOUS
<1> QED
  BY <1>1 DEF Read, Silent

\* Reading the answer to a login: the flag, and what came with it.
LEMMA ReadFlag == ASSUME Inv, Read, cpc = "flag" PROVE Inv' /\ GotReply
<1>1. FlagPhase /\ ~ Silent /\ cmdOut = {}
  BY ReadNotSilent DEF Inv, Phase, FlagPhase
<1>2. /\ UNCHANGED <<tag, c2s, copen, sopen, spc, authOut, cmdOut>>
      /\ \A kind \in Kinds : Reply(kind)' = Reply(kind)
  BY DEF Read, serverVars, Reply
<1>3. /\ "true" \in Expected["flag"] /\ "false" \in Expected["flag"]
      /\ Reply("true").kind = "true" /\ Reply("false").kind = "false"
      /\ Reply("user").kind = "user"
      /\ Accept("true") = "user" /\ Accept("false") = "out"
      /\ {"true", "false", "user"} \subseteq Kinds
  BY DEF Expected, Reply, Accept, Kinds
<1>4. /\ copen /\ (sopen <=> spc # "closed") /\ Len(buf) < Parts
      /\ OnlyKnownLosses /\ Parts \in Nat /\ 0 < Parts /\ Len(<<>>) = 0
  BY ConnectionAssumption DEF Inv, Ends, ConnectionAssumption
<1>5. CASE /\ c2s = <<>> /\ authOut = <<>>
           /\ OnTheWay(Parts, Reply("false"), Reply("false"))
  <2>1. CASE /\ Halves(buf', s2c', Parts, Reply("false"), Reply("false"))
             /\ Len(buf') < Parts /\ UNCHANGED <<cpc, got, dropped>> /\ TypeOK'
    <3>1. OnTheWay(Parts, Reply("false"), Reply("false"))'
      BY <1>2, <1>3, <2>1 DEF OnTheWay
    <3>2. FlagPhase'
      BY <1>1, <1>2, <1>5, <3>1 DEF FlagPhase
    <3>3. Phase' /\ Ends' /\ OnlyKnownLosses' /\ GotReply
      BY <1>2, <1>4, <2>1, <3>2
      DEF Phase, Ends, OnlyKnownLosses, GotReply
    <3> QED
      BY <2>1, <3>3 DEF Inv
  <2>2. CASE /\ buf' = <<>> /\ got' = Reply("false") /\ TypeOK'
             /\ cpc' = Accept(Reply("false").kind)
             /\ s2c' \in Seq(AnswerParts)
             /\ \E all \in Seq(AnswerParts) :
                /\ Halves(all, s2c', Parts, Reply("false"), Reply("false"))
                /\ Len(all) >= Parts /\ dropped' = dropped \union Rest(all)
    <3>1. cpc' = "out" /\ dropped' = dropped
      BY <1>3, <2>2, ReadOne, ConnectionAssumption
    <3>2. Phase' /\ Ends' /\ OnlyKnownLosses' /\ GotReply
      BY <1>1, <1>2, <1>3, <1>4, <1>5, <2>2, <3>1
      DEF Phase, Settled, Ends, OnlyKnownLosses, GotReply
    <3> QED
      BY <2>2, <3>2 DEF Inv
  <2> QED
    BY <1>5, <2>1, <2>2, ReadOutcome
<1>6. CASE \E n \in {Parts, Parts + Parts} :
           /\ c2s = <<>> /\ spc # "auth" /\ OnTheWay(n, Reply("true"), Reply("user"))
           /\ \/ n = Parts /\ spc = "serve" /\ authOut = <<Reply("user")>>
              \/ n = Parts /\ spc = "closed" /\ authOut = <<>>
              \/ n = Parts + Parts /\ authOut = <<>>
  <2>1. PICK n \in {Parts, Parts + Parts} :
           /\ c2s = <<>> /\ spc # "auth" /\ OnTheWay(n, Reply("true"), Reply("user"))
           /\ \/ n = Parts /\ spc = "serve" /\ authOut = <<Reply("user")>>
              \/ n = Parts /\ spc = "closed" /\ authOut = <<>>
              \/ n = Parts + Parts /\ authOut = <<>>
    BY <1>6
  <2>2. CASE /\ Halves(buf', s2c', n, Reply("true"), Reply("user"))
             /\ Len(buf') < Parts /\ UNCHANGED <<cpc, got, dropped>> /\ TypeOK'
    <3>1. OnTheWay(n, Reply("true"), Reply("user"))'
      BY <1>2, <1>3, <2>2 DEF OnTheWay
    <3>2. authOut = <<Reply("user")>> => authOut' = <<Reply("user")'>>
      BY <1>2, <1>3
    <3>3. FlagPhase'
      BY <1>1, <1>2, <2>1, <3>1, <3>2 DEF FlagPhase
    <3>4. Phase' /\ Ends' /\ OnlyKnownLosses' /\ GotReply
      BY <1>2, <1>4, <2>2, <3>3
      DEF Phase, Ends, OnlyKnownLosses, GotReply
    <3> QED
      BY <2>2, <3>4 DEF Inv
  <2>3. CASE /\ buf' = <<>> /\ got' = Reply("true") /\ TypeOK'
             /\ cpc' = Accept(Reply("true").kind)
             /\ s2c' \in Seq(AnswerParts)
             /\ \E all \in Seq(AnswerParts) :
                /\ Halves(all, s2c', n, Reply("true"), Reply("user"))
                /\ Len(all) >= Parts /\ dropped' = dropped \union Rest(all)
    <3>1. PICK all \in Seq(AnswerParts) :
                /\ Halves(all, s2c', n, Reply("true"), Reply("user"))
                /\ Len(all) >= Parts /\ dropped' = dropped \union Rest(all)
      BY <2>3
    <3>2. cpc' = "user" /\ GotReply
      BY <1>3, <2>3 DEF GotReply
    <3>3. CASE n = Parts
      <4>1. s2c' = <<>> /\ dropped' = dropped
        BY <2>3, <3>1, <3>3, ReadOne, ConnectionAssumption
      <4>2. Remainder(<<>>, Reply("user"))
        BY <1>4 DEF Remainder, Pieces
      <4>3. authOut = <<Reply("user")>> => authOut' = <<Reply("user")'>>
        BY <1>2, <1>3
      <4>4. Remainder(s2c', Reply("user")')
        BY <1>2, <1>3, <4>1, <4>2
      <4>5. UserPhase'
        BY <1>1, <1>2, <2>1, <2>3, <3>3, <4>1, <4>3, <4>4 DEF UserPhase, Silent
      <4>6. Phase' /\ Ends' /\ OnlyKnownLosses'
        BY <1>2, <1>4, <2>3, <3>2, <4>1, <4>5 DEF Phase, Ends, OnlyKnownLosses
      <4> QED
        BY <2>3, <3>2, <4>6 DEF Inv
    <3>4. CASE n = Parts + Parts /\ authOut = <<>>
      <4>1. /\ \/ Halves(<<>>, s2c', Parts, Reply("user"), Reply("user"))
               \/ Remainder(s2c', Reply("user"))
            /\ Rest(all) \subseteq {"user"}
        BY <1>3, <2>3, <3>1, <3>4, ReadFirst, ConnectionAssumption
      <4>2. \/ OnTheWay(Parts, Reply("user"), Reply("user"))'
            \/ Remainder(s2c', Reply("user")')
        BY <1>2, <1>3, <2>3, <4>1 DEF OnTheWay
      <4>3. UserPhase'
        BY <1>1, <1>2, <2>1, <2>3, <3>4, <4>2 DEF UserPhase
      <4>4. Phase' /\ Ends' /\ OnlyKnownLosses'
        BY <1>2, <1>4, <2>3, <3>1, <3>2, <4>1, <4>3
        DEF Phase, Ends, OnlyKnownLosses
      <4> QED
        BY <2>3, <3>2, <4>4 DEF Inv
    <3> QED
      BY <2>1, <3>3, <3>4
  <2> QED
    BY <2>1, <2>2, <2>3, ReadOutcome
<1> QED
  BY <1>1, <1>5, <1>6 DEF FlagPhase

\* Reading the User: all of it, or a remainder that ends the attempt.
LEMMA ReadUser == ASSUME Inv, Read, cpc = "user" PROVE Inv' /\ GotReply
<1>1. UserPhase /\ ~ Silent /\ cmdOut = {} /\ c2s = <<>> /\ spc # "auth"
  BY ReadNotSilent DEF Inv, Phase, UserPhase
<1>2. /\ UNCHANGED <<tag, c2s, copen, sopen, spc, authOut, cmdOut>>
      /\ Reply("user")' = Reply("user")
  BY DEF Read, serverVars, Reply
<1>3. /\ "user" \in Expected["user"] /\ Reply("user").kind = "user"
      /\ Accept("user") = "ready"
  BY DEF Expected, Reply, Accept
<1>4. /\ copen /\ (sopen <=> spc # "closed") /\ Len(buf) < Parts
      /\ OnlyKnownLosses /\ Parts \in Nat /\ 0 < Parts /\ Len(<<>>) = 0
  BY ConnectionAssumption DEF Inv, Ends, ConnectionAssumption
<1>5. CASE authOut = <<>> /\ OnTheWay(Parts, Reply("user"), Reply("user"))
  <2>1. CASE /\ Halves(buf', s2c', Parts, Reply("user"), Reply("user"))
             /\ Len(buf') < Parts /\ UNCHANGED <<cpc, got, dropped>> /\ TypeOK'
    <3>1. OnTheWay(Parts, Reply("user"), Reply("user"))'
      BY <1>2, <1>3, <2>1 DEF OnTheWay
    <3>2. UserPhase'
      BY <1>1, <1>2, <1>5, <3>1 DEF UserPhase
    <3>3. Phase' /\ Ends' /\ OnlyKnownLosses' /\ GotReply
      BY <1>2, <1>4, <2>1, <3>2
      DEF Phase, Ends, OnlyKnownLosses, GotReply
    <3> QED
      BY <2>1, <3>3 DEF Inv
  <2>2. CASE /\ buf' = <<>> /\ got' = Reply("user") /\ TypeOK'
             /\ cpc' = Accept(Reply("user").kind)
             /\ s2c' \in Seq(AnswerParts)
             /\ \E all \in Seq(AnswerParts) :
                /\ Halves(all, s2c', Parts, Reply("user"), Reply("user"))
                /\ Len(all) >= Parts /\ dropped' = dropped \union Rest(all)
    <3>1. cpc' = "ready" /\ dropped' = dropped /\ s2c' = <<>>
      BY <1>3, <2>2, ReadOne, ConnectionAssumption
    <3>2. Phase' /\ Ends' /\ OnlyKnownLosses' /\ GotReply
      BY <1>1, <1>2, <1>3, <1>4, <1>5, <2>2, <3>1
      DEF Phase, Settled, Ends, OnlyKnownLosses, GotReply
    <3> QED
      BY <2>2, <3>2 DEF Inv
  <2> QED
    BY <1>5, <2>1, <2>2, ReadOutcome
<1>6. CASE authOut = <<>> /\ buf = <<>> /\ Remainder(s2c, Reply("user"))
  <2>1. s2c \in Seq(AnswerParts)
    BY DEF Inv, TypeOK, AnswerParts
  <2>2. PICK k \in 1 .. Len(s2c) :
          LET all == buf \o SubSeq(s2c, 1, k) IN
          /\ s2c' = SubSeq(s2c, k + 1, Len(s2c))
          /\ all[1].part # 1 =>
                /\ buf' = <<>> /\ got' = IOFailure /\ cpc' = GiveUp(cpc)
                /\ UNCHANGED dropped
    BY DEF Read
  <2>3. (buf \o SubSeq(s2c, 1, k))[1].part # 1
    BY <1>6, <2>1, ReadRemainder, ConnectionAssumption
  <2>4. /\ buf' = <<>> /\ got' = IOFailure /\ cpc' = "out"
        /\ dropped' = dropped /\ s2c' = SubSeq(s2c, k + 1, Len(s2c))
    BY <2>2, <2>3 DEF GiveUp
  <2>5. UNCHANGED serverVars
    BY DEF Read
  <2>6. TypeOK'
    <3>1. /\ cpc' \in Waiting \union {"out", "ready"}
          /\ got' \in Answers \union {NullAnswer, IOFailure}
          /\ dropped' \in SUBSET Kinds
          /\ buf' \in {<<>>, buf \o SubSeq(s2c, 1, k)}
      BY <2>4 DEF Inv, TypeOK
    <3> QED
      BY <1>2, <2>4, <2>5, <3>1, ReadTyped
  <2>7. Phase' /\ Ends' /\ OnlyKnownLosses' /\ GotReply
    BY <1>1, <1>2, <1>4, <1>6, <2>4
    DEF Phase, Settled, Ends, OnlyKnownLosses, GotReply
  <2> QED
    BY <2>6, <2>7 DEF Inv
<1> QED
  BY <1>1, <1>5, <1>6 DEF UserPhase

\* Reading the answer to a command.
LEMMA ReadAwait == ASSUME Inv, Read, cpc = "await" PROVE Inv' /\ GotReply
<1>1. AwaitPhase /\ ~ Silent /\ authOut = <<>> /\ spc # "auth"
  BY ReadNotSilent DEF Inv, Phase, AwaitPhase
<1>2. /\ UNCHANGED <<tag, c2s, copen, sopen, spc, authOut, cmdOut>>
      /\ Reply("answer")' = Reply("answer")
  BY DEF Read, serverVars, Reply
<1>3. /\ "answer" \in Expected["await"] /\ Reply("answer").kind = "answer"
      /\ Accept("answer") = "ready"
  BY DEF Expected, Reply, Accept
<1>4. /\ copen /\ (sopen <=> spc # "closed") /\ Len(buf) < Parts
      /\ OnlyKnownLosses /\ Parts \in Nat /\ 0 < Parts /\ Len(<<>>) = 0
  BY ConnectionAssumption DEF Inv, Ends, ConnectionAssumption
<1>5. CASE /\ c2s = <<>> /\ cmdOut = {}
           /\ OnTheWay(Parts, Reply("answer"), Reply("answer"))
  <2>1. CASE /\ Halves(buf', s2c', Parts, Reply("answer"), Reply("answer"))
             /\ Len(buf') < Parts /\ UNCHANGED <<cpc, got, dropped>> /\ TypeOK'
    <3>1. OnTheWay(Parts, Reply("answer"), Reply("answer"))'
      BY <1>2, <1>3, <2>1 DEF OnTheWay
    <3>2. AwaitPhase'
      BY <1>1, <1>2, <1>5, <3>1 DEF AwaitPhase
    <3>3. Phase' /\ Ends' /\ OnlyKnownLosses' /\ GotReply
      BY <1>2, <1>4, <2>1, <3>2
      DEF Phase, Ends, OnlyKnownLosses, GotReply
    <3> QED
      BY <2>1, <3>3 DEF Inv
  <2>2. CASE /\ buf' = <<>> /\ got' = Reply("answer") /\ TypeOK'
             /\ cpc' = Accept(Reply("answer").kind)
             /\ s2c' \in Seq(AnswerParts)
             /\ \E all \in Seq(AnswerParts) :
                /\ Halves(all, s2c', Parts, Reply("answer"), Reply("answer"))
                /\ Len(all) >= Parts /\ dropped' = dropped \union Rest(all)
    <3>1. cpc' = "ready" /\ dropped' = dropped /\ s2c' = <<>>
      BY <1>3, <2>2, ReadOne, ConnectionAssumption
    <3>2. Phase' /\ Ends' /\ OnlyKnownLosses' /\ GotReply
      BY <1>1, <1>2, <1>3, <1>4, <1>5, <2>2, <3>1
      DEF Phase, Settled, Ends, OnlyKnownLosses, GotReply
    <3> QED
      BY <2>2, <3>2 DEF Inv
  <2> QED
    BY <1>5, <2>1, <2>2, ReadOutcome
<1> QED
  BY <1>1, <1>5 DEF AwaitPhase

-----------------------------------------------------------------------------
(* The theorems *)

\* Nothing is on the way before the first connection.
LEMMA InitInv == Init => Inv
<1> SUFFICES ASSUME Init PROVE Inv
  OBVIOUS
<1>1. TypeOK
  <2>1. tag \in 0 .. Tags - 1
    BY ConnectionAssumption DEF ConnectionAssumption, Init
  <2>2. buf \in Seq(AnswerParts) /\ s2c \in Seq(AnswerParts)
    BY DEF Init
  <2>3. /\ c2s \in Seq(0 .. Tags - 1) /\ authOut \in Seq(Answers)
        /\ cmdOut \in SUBSET Answers /\ dropped \in SUBSET Kinds
    BY DEF Init
  <2>4. got \in Answers \union {NullAnswer, IOFailure}
    BY DEF Init
  <2> QED
    BY <2>1, <2>2, <2>3, <2>4 DEF Init, TypeOK, AnswerParts
<1>2. Ends /\ Phase /\ OnlyKnownLosses
  BY ConnectionAssumption
  DEF ConnectionAssumption, Init, Ends, Phase, Settled, OnlyKnownLosses
<1> QED
  BY <1>1, <1>2 DEF Inv

\* A read keeps the invariant and returns no answer but the expected one.
LEMMA ReadKeeps == ASSUME Inv, Read PROVE Inv' /\ GotReply
BY ReadFlag, ReadUser, ReadAwait DEF Read, Waiting

\* A stuttering step changes nothing.
LEMMA StutterKeeps == ASSUME Inv, UNCHANGED vars PROVE Inv'
<1>1. TypeOK' /\ Ends' /\ OnlyKnownLosses'
  BY DEF Inv, TypeOK, Ends, OnlyKnownLosses, vars
<1>2. FlagPhase' = FlagPhase /\ UserPhase' = UserPhase
  BY DEF FlagPhase, UserPhase, OnTheWay, Silent, Reply, vars
<1>3. AwaitPhase' = AwaitPhase /\ Settled' = Settled
  BY DEF AwaitPhase, Settled, OnTheWay, Silent, Reply, vars
<1>4. Phase'
  BY <1>2, <1>3 DEF Inv, Phase, vars
<1> QED
  BY <1>1, <1>4 DEF Inv

\* Every step keeps the invariant.
LEMMA NextKeeps == Inv /\ [Next]_vars => Inv'
BY ConnectKeeps, SendCommandKeeps, LogOutKeeps, ReadKeeps, ReadEndKeeps,
   SeeEndKeeps, AuthenticateKeeps, ServeKeeps, SendAuthAnswerKeeps,
   SendAnswerKeeps, AbortKeeps, CrashKeeps, StutterKeeps
DEF Next, Work

\* Every reachable state satisfies the inductive invariant.
THEOREM Invariance == Spec => []Inv
BY InitInv, NextKeeps, PTL DEF Spec

\* Every variable of the conversation has its type: what is read from the
\* socket is always made of parts of answers.
THEOREM TypeCorrect == Spec => []TypeOK
<1>1. Inv => TypeOK
  BY DEF Inv
<1> QED
  BY <1>1, Invariance, PTL

\* Requests and answers alternate although nothing orders the threads of the
\* pools: at most one request or pooled command answer exists, and a pooled
\* answer is the one the client waits for.
THEOREM AlternationHolds == Spec => []Alternation
<1>1. Inv => Alternation
  <2> SUFFICES ASSUME Inv PROVE Alternation
    OBVIOUS
  <2>1. Cardinality({}) = 0 /\ \A a : Cardinality({a}) = 1
    BY FS_EmptySet, FS_Singleton
  <2>2. CASE cmdOut = {}
    <3>1. c2s = <<>> \/ c2s = <<tag>>
      BY LoginPending, CommandPending
      DEF Inv, TypeOK, Phase, FlagPhase, UserPhase, AwaitPhase, Settled, Waiting
    <3>2. Len(c2s) \in {0, 1}
      BY <3>1
    <3>3. Cardinality(cmdOut) = 0
      BY <2>1, <2>2
    <3> QED
      BY <2>2, <3>2, <3>3 DEF Alternation
  <2>3. CASE cmdOut # {}
    <3>1. /\ cpc = "await" /\ Silent /\ c2s = <<>>
          /\ \E kind \in {"answer", "big"} : cmdOut = {Reply(kind)}
      BY <2>3, AnswerPending
    <3>2. Len(c2s) = 0
      BY <3>1
    <3>3. Cardinality(cmdOut) = 1
      BY <2>1, <3>1, Zenon
    <3>4. \A a \in cmdOut : a.tag = tag
      BY <3>1 DEF Reply
    <3> QED
      BY <3>1, <3>2, <3>3, <3>4 DEF Alternation, Silent
  <2> QED
    BY <2>2, <2>3
<1> QED
  BY <1>1, Invariance, PTL

\* No answer is lost on the way but the User that came in one read with TRUE
\* and the answer that is too big for the buffer of Serializer.
THEOREM LossesKnown == Spec => []OnlyKnownLosses
<1>1. Inv => OnlyKnownLosses
  BY DEF Inv
<1> QED
  BY <1>1, Invariance, PTL

\* getAnswer returns no answer but the one to the request its caller has just
\* sent, of the class the caller casts it to.
THEOREM AnswersAreMatched == Spec => AnswersMatch
<1> DEFINE Matched ==
      got' # got /\ got' \in Answers =>
          cpc \in Waiting /\ got'.tag = tag /\ got'.kind \in Expected[cpc]
<1>1. ASSUME Inv, Read PROVE Matched
  <2>1. cpc \in Waiting /\ GotReply
    BY <1>1, ReadKeeps DEF Read
  <2>2. IOFailure \notin Answers
    BY DEF IOFailure, Answers, Kinds
  <2>3. \A kind \in Expected[cpc] : Reply(kind).tag = tag /\ Reply(kind).kind = kind
    BY DEF Reply
  <2> QED
    BY <2>1, <2>2, <2>3 DEF GotReply
<1>2. ASSUME ReadEnd PROVE Matched
  <2>1. NullAnswer \notin Answers /\ IOFailure \notin Answers
    BY DEF NullAnswer, IOFailure, Answers, Kinds
  <2> QED
    BY <1>2, <2>1 DEF ReadEnd
<1>3. ASSUME Next, ~ Read, ~ ReadEnd PROVE got' = got
  BY <1>3 DEF Next, Work, Connect, SendCommand, LogOut, SeeEnd, Authenticate,
     Serve, SendAuthAnswer, SendAnswer, Abort, Crash
<1>4. Inv /\ [Next]_vars => [Matched]_vars
  BY <1>1, <1>2, <1>3
<1> QED
  BY <1>4, Invariance, PTL DEF Spec, AnswersMatch

=============================================================================
