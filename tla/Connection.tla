----------------------------- MODULE Connection -----------------------------
(***************************************************************************)
(* One client of ProgLab8 and the Session that serves it: the handshake of *)
(* Authorizer with Account, then strictly alternating requests and         *)
(* answers. TCP keeps the order of bytes and nothing else, so an answer is *)
(* a run of parts and a read takes any number of the parts that are there. *)
(* GetAnswer deserialises one object from what it has read and drops the   *)
(* rest of its buffer.                                                     *)
(***************************************************************************)
EXTENDS Integers, Sequences, FiniteSets

CONSTANTS Parts,        \* the number of parts an answer is cut into
          Tags          \* requests are told apart by their number modulo Tags

ASSUME ConnectionAssumption == Parts \in Nat \ {0} /\ Tags \in Nat \ {0, 1}

VARIABLES cpc,          \* where the client's FX thread stands
          tag,          \* the number of the client's last request
          buf,          \* what the running getAnswer has read
          got,          \* the answer getAnswer returned last
          c2s, s2c,     \* the two directions of the socket
          copen, sopen, \* whether each side has its end open
          spc,          \* where the Session thread stands
          authOut,      \* answers queued in Account's one-thread pool
          cmdOut,       \* answers given to the session's pool of five
          dropped       \* kinds of this connection's answers that are lost

vars == <<cpc, tag, buf, got, c2s, s2c, copen, sopen, spc, authOut, cmdOut,
          dropped>>
serverVars == <<sopen, spc, authOut, cmdOut>>

Kinds == {"true", "false", "user", "answer", "big"}
Answers == [tag : 0 .. Tags - 1, kind : Kinds]
NullAnswer == [tag |-> 0, kind |-> "null"]      \* getAnswer returned null
IOFailure == [tag |-> 0, kind |-> "failure"]    \* getAnswer threw IOException

Waiting == {"flag", "user", "await"}

\* An answer as it travels.
Cut(a) == [i \in 1 .. Parts |-> [of |-> a, part |-> i]]

-----------------------------------------------------------------------------
(* The client *)

\* connectToPort, then logIn or createAccount sends its request. The channel
\* of an earlier attempt is forgotten, not closed.
Connect ==
    /\ cpc = "out"
    /\ cpc' = "flag"
    /\ tag' = (tag + 1) % Tags
    /\ c2s' = <<tag'>> /\ s2c' = <<>> /\ buf' = <<>>
    /\ copen' = TRUE /\ sopen' = TRUE
    /\ spc' = "auth" /\ authOut' = <<>> /\ cmdOut' = {}
    /\ dropped' = {}
    /\ UNCHANGED got

\* The bytes of a request, which a closed socket discards.
Write(t) == c2s' = IF sopen THEN Append(c2s, t) ELSE c2s

\* MUTANT: the handler sends the request and leaves the answer for later.
SendCommand_DoesNotWait ==
    /\ cpc = "ready"
    /\ tag' = (tag + 1) % Tags
    /\ Write(tag')
    /\ UNCHANGED <<cpc, buf, got, s2c, copen, serverVars, dropped>>

\* sendRequestAndGetAnswer: a request of the workspace or of a script line.
SendCommand ==
    /\ cpc = "ready"
    /\ cpc' = "await"
    /\ tag' = (tag + 1) % Tags
    /\ Write(tag')
    /\ UNCHANGED <<buf, got, s2c, copen, serverVars, dropped>>

\* MUTANT: the client takes the flag for the whole answer to its login.
Accept_NoUser(kind) == IF kind = "false" THEN "out" ELSE "ready"

\* What the caller of getAnswer does with the object it gets.
Accept(kind) ==
    CASE kind = "true" -> "user"
      [] kind = "false" -> "out"
      [] OTHER -> "ready"

\* The other answers whose parts are in a buffer that is thrown away.
Rest(parts) == {parts[i].of.kind : i \in (Parts + 1) .. Len(parts)}

\* Where a handler that ends without its answer leaves the client.
GiveUp(step) == IF step = "await" THEN "ready" ELSE "out"

\* socketChannel.read and the attempt to deserialise. Bytes that do not begin
\* an object are a StreamCorruptedException, which is an IOException; short of
\* one whole answer getAnswer reads again, else it returns. Either way the
\* buffer is gone.
Read ==
    /\ cpc \in Waiting
    /\ \E k \in 1 .. Len(s2c) :
          LET all == buf \o SubSeq(s2c, 1, k) IN
          /\ s2c' = SubSeq(s2c, k + 1, Len(s2c))
          /\ \/ /\ all[1].part # 1
                /\ buf' = <<>> /\ got' = IOFailure /\ cpc' = GiveUp(cpc)
                /\ UNCHANGED dropped
             \/ /\ all[1].part = 1 /\ Len(all) < Parts
                /\ buf' = all
                /\ UNCHANGED <<cpc, got, dropped>>
             \/ /\ all[1].part = 1 /\ Len(all) >= Parts
                /\ buf' = <<>> /\ got' = all[1].of
                /\ cpc' = Accept(got'.kind)
                /\ dropped' = dropped \union Rest(all)
    /\ UNCHANGED <<tag, c2s, copen, serverVars>>

\* read returns -1: getAnswer returns null and its caller dereferences it; or
\* the connection was reset: unread bytes are gone and read throws. Both end
\* the handler; the window stays what it was.
ReadEnd ==
    /\ cpc \in Waiting /\ ~ sopen
    /\ \/ s2c = <<>> /\ got' = NullAnswer
       \/ got' = IOFailure
    /\ s2c' = <<>> /\ buf' = <<>>
    /\ cpc' = GiveUp(cpc)
    /\ UNCHANGED <<tag, c2s, copen, serverVars, dropped>>

\* logOut closes the channel and opens the welcome menu.
LogOut ==
    /\ cpc = "ready"
    /\ cpc' = "out"
    /\ copen' = FALSE
    /\ UNCHANGED <<tag, buf, got, c2s, s2c, serverVars, dropped>>

-----------------------------------------------------------------------------
(* The server *)

\* MUTANT: a refusal by exception is logged and not answered.
Authenticate_SilentRefusal ==
    /\ spc = "auth" /\ c2s # <<>>
    /\ c2s' = Tail(c2s)
    /\ \/ /\ spc' = "serve"
          /\ authOut' = authOut \o <<[tag |-> Head(c2s), kind |-> "true"],
                                     [tag |-> Head(c2s), kind |-> "user"]>>
       \/ spc' = "auth" /\ UNCHANGED authOut
    /\ UNCHANGED <<cpc, tag, buf, got, s2c, copen, sopen, cmdOut, dropped>>

\* Session.run before the login: Account submits one answer or two.
Authenticate ==
    /\ spc = "auth" /\ c2s # <<>>
    /\ c2s' = Tail(c2s)
    /\ \/ /\ spc' = "serve"
          /\ authOut' = authOut \o <<[tag |-> Head(c2s), kind |-> "true"],
                                     [tag |-> Head(c2s), kind |-> "user"]>>
       \/ /\ spc' = "auth"
          /\ authOut' = Append(authOut, [tag |-> Head(c2s), kind |-> "false"])
    /\ UNCHANGED <<cpc, tag, buf, got, s2c, copen, sopen, cmdOut, dropped>>

\* MUTANT: a command with nothing to say is answered with null.
Serve_Null ==
    /\ spc = "serve" /\ c2s # <<>>
    /\ c2s' = Tail(c2s)
    /\ cmdOut' = cmdOut \union {NullAnswer}
    /\ UNCHANGED <<cpc, tag, buf, got, s2c, copen, sopen, spc, authOut, dropped>>

\* Session.run after the login: the answer goes to the pool. An answer may be
\* too big for the buffer of Serializer.
Serve ==
    /\ spc = "serve" /\ c2s # <<>>
    /\ c2s' = Tail(c2s)
    /\ \E kind \in {"answer", "big"} :
          cmdOut' = cmdOut \union {[tag |-> Head(c2s), kind |-> kind]}
    /\ UNCHANGED <<cpc, tag, buf, got, s2c, copen, sopen, spc, authOut, dropped>>

\* The command throws: ExecutionException, and finally closes the socket.
Abort ==
    /\ spc = "serve" /\ c2s # <<>>
    /\ c2s' = Tail(c2s)
    /\ spc' = "closed" /\ sopen' = FALSE
    /\ UNCHANGED <<cpc, tag, buf, got, s2c, copen, authOut, cmdOut, dropped>>

\* SendAnswer.run. BufferOverflowException ends the task: nothing is sent.
\* After the socket is closed the write fails and is logged.
Transmit(a) ==
    IF a.kind = "big"
    THEN dropped' = dropped \union {"big"} /\ UNCHANGED s2c
    ELSE s2c' = (IF sopen THEN s2c \o Cut(a) ELSE s2c) /\ UNCHANGED dropped

SendAuthAnswer ==
    /\ authOut # <<>>
    /\ Transmit(Head(authOut))
    /\ authOut' = Tail(authOut)
    /\ UNCHANGED <<cpc, tag, buf, got, c2s, copen, sopen, spc, cmdOut>>

SendAnswer ==
    \E a \in cmdOut :
        /\ Transmit(a)
        /\ cmdOut' = cmdOut \ {a}
        /\ UNCHANGED <<cpc, tag, buf, got, c2s, copen, sopen, spc, authOut>>

\* GetRequest meets the end of the stream.
SeeEnd ==
    /\ spc \in {"auth", "serve"} /\ c2s = <<>> /\ ~ copen
    /\ spc' = "closed" /\ sopen' = FALSE
    /\ UNCHANGED <<cpc, tag, buf, got, c2s, s2c, copen, authOut, cmdOut, dropped>>

\* The server process dies with everything it had not written.
Crash ==
    /\ spc # "closed"
    /\ spc' = "closed" /\ sopen' = FALSE
    /\ authOut' = <<>> /\ cmdOut' = {} /\ c2s' = <<>>
    /\ UNCHANGED <<cpc, tag, buf, got, s2c, copen, dropped>>

Init ==
    /\ cpc = "out" /\ tag = 0 /\ buf = <<>> /\ got = NullAnswer
    /\ c2s = <<>> /\ s2c = <<>> /\ copen = FALSE /\ sopen = FALSE
    /\ spc = "closed" /\ authOut = <<>> /\ cmdOut = {}
    /\ dropped = {}

\* Steps the threads take by themselves; the others are up to the user, or
\* are failures.
Work == \/ Read \/ ReadEnd \/ SeeEnd
        \/ Authenticate \/ Serve \/ SendAuthAnswer \/ SendAnswer

Next == Connect \/ SendCommand \/ LogOut \/ Work \/ Abort \/ Crash

Spec == Init /\ [][Next]_vars

FairSpec ==
    /\ Spec
    /\ WF_vars(Read) /\ WF_vars(ReadEnd) /\ WF_vars(SeeEnd)
    /\ WF_vars(Authenticate) /\ WF_vars(Serve)
    /\ WF_vars(SendAuthAnswer) /\ WF_vars(SendAnswer)

-----------------------------------------------------------------------------
(* Properties *)

TypeOK ==
    /\ cpc \in Waiting \union {"out", "ready"}
    /\ tag \in 0 .. Tags - 1
    /\ buf \in Seq([of : Answers, part : 1 .. Parts])
    /\ got \in Answers \union {NullAnswer, IOFailure}
    /\ c2s \in Seq(0 .. Tags - 1)
    /\ s2c \in Seq([of : Answers, part : 1 .. Parts])
    /\ copen \in BOOLEAN /\ sopen \in BOOLEAN
    /\ spc \in {"auth", "serve", "closed"}
    /\ authOut \in Seq(Answers) /\ cmdOut \in SUBSET Answers
    /\ dropped \in SUBSET Kinds

\* What a caller of getAnswer is waiting for, by its step.
Expected == [flag |-> {"true", "false"}, user |-> {"user"},
             await |-> {"answer"}]

\* Every answer getAnswer returns is the answer to the request its caller has
\* just sent, and of the class the caller casts it to: no answer is ever taken
\* for the one before or after it, whichever pool sent it, however the bytes
\* were cut, and whatever was thrown away.
AnswersMatch ==
    [][got' # got /\ got' \in Answers =>
          cpc \in Waiting /\ got'.tag = tag /\ got'.kind \in Expected[cpc]]_vars

\* Requests and answers alternate strictly, which is the only thing that
\* keeps them in order: SendAnswer's lock is a new object every time, and the
\* session's pool has five threads. One request or one answer is on its way,
\* and while an answer is in the pool the client waits for that very one.
Alternation ==
    /\ Len(c2s) + Cardinality(cmdOut) <= 1
    /\ cmdOut # {} /\ sopen => cpc = "await" /\ s2c = <<>> /\ buf = <<>>
    /\ \A a \in cmdOut : a.tag = tag

\* The only answers that get lost on the way are the User object that came in
\* one read with TRUE, and the ones that do not fit the serialisation buffer.
OnlyKnownLosses == dropped \subseteq {"user", "big"}

\* The FX thread does not spin in getAnswer for ever, unless its answer was
\* lost: it gets an answer or the end of the connection.
WaitEnds == cpc \in Waiting ~> (cpc \notin Waiting \/ dropped # {})

=============================================================================
