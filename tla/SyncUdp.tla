------------------------------- MODULE SyncUdp -------------------------------
(***************************************************************************)
(* The UDP servers that receive and answer in one thread, with their       *)
(* clients, which send one datagram each:                                  *)
(*   hello    boost_tutorial_UDP_server.cpp: a constant text               *)
(*   phones   boost_protobuf_server.cpp: a list of phones, serialised      *)
(*   reverse  StackoverflowExample: the text in reverse                    *)
(*   size     UDP-Server.cpp: the size of a file; it serves one client     *)
(*   sink     YTube/UDPServer.cpp and UDP_protobuf_server.cpp: prints what *)
(*            it receives and answers nothing                              *)
(*                                                                         *)
(* The buffers are modelled with what is left in them: an array that a     *)
(* datagram does not fill keeps what it had, or has any contents at first. *)
(* A datagram that does not fit is an error (on Windows).                  *)
(***************************************************************************)
EXTENDS OneShotClients, FileSizes, RadioWire

CONSTANTS Texts,       \* what clients may send, sequences of characters
          Buffer,      \* the length of the buffers of reverse, size and sink
          Hello,       \* the text of the hello server
          PhoneLists,  \* the lists of the phones server, by time(NULL)
          Junk         \* the contents of a client's fresh recv_buf of 128

\* What the constants must satisfy.
SyncUdpAssumption ==
  /\ FileSizesAssumption
  /\ Texts \subseteq Seq(Nat) /\ Buffer \in Nat \ {0}
  /\ Junk \subseteq Seq(Nat)
  /\ \A list \in PhoneLists, junk \in Junk :
       list \in Seq(Phones) /\ Len(Serialize(list)) <= Len(junk)

VARIABLES system,  \* which server and clients run
          server,  \* "receiving" or "ended"
          buffer,  \* the server's buffer
          text,    \* text[c]: what c sends
          answer,  \* answer[c]: the last answer to c, phones not serialised yet
          heard,   \* heard[c]: what c has printed, or the sink of c
          overrun  \* history: a byte was written or read past the buffer

dataVars == <<text, answer, heard>>
vars == <<clientVars, dataVars, system, server, buffer, overrun>>

Systems == {"hello", "phones", "reverse", "size", "sink"}

\* The one byte that asks for an answer.
Zero == <<0>>

\* A char array as a C string: the characters before the first 0.
CString(s) ==
  LET zero == SelectInSeq(s, LAMBDA ch : ch = 0)
  IN  IF zero = 0 THEN s ELSE SubSeq(s, 1, zero - 1)

\* The array old after s was put into it.
Overlay(old, s) == s \o SubSeq(old, Len(s) + 1, Len(old))

-----------------------------------------------------------------------------
(* The clients.                                                            *)

\* What c may send: a file's name is shorter than the buffer it is typed into.
MaySend ==
  CASE system \in {"hello", "phones"} -> {Zero}
    [] system = "size" -> {t \in Texts : Len(t) < Buffer /\ CString(t) = t}
    [] OTHER -> Texts

\* sendto of the size client, which does not look at what it returns.
AskUnchecked(c) ==
  /\ client[c] = "new"
  /\ client' = [client EXCEPT ![c] = "waiting"]
  /\ \/ asked' = [asked EXCEPT ![c] = @ + 1] /\ UNCHANGED faulty
     \/ faulty' = TRUE /\ UNCHANGED asked
  /\ UNCHANGED <<answers, refused>>

Send(c) ==
  /\ system # "sink"
  /\ IF system = "size" THEN AskUnchecked(c) ELSE Ask(c)
  /\ text' \in {[text EXCEPT ![c] = t] : t \in MaySend}
  /\ UNCHANGED <<answer, heard, system, server, buffer, overrun>>

\* A client of the sink ends when it has sent.
SendAway(c) ==
  /\ system = "sink" /\ client[c] = "new"
  /\ client' = [client EXCEPT ![c] = "done"]
  /\ asked' = [asked EXCEPT ![c] = @ + 1]
  /\ text' \in {[text EXCEPT ![c] = t] : t \in MaySend}
  /\ UNCHANGED <<answers, refused, faulty, answer, heard, system, server,
                 buffer, overrun>>

\* The phones client parses all of its buffer, not only what was received, and
\* does not ask whether all could be parsed.
ReadPhones ==
  [list \in PhoneLists |->
     {Parse(Overlay(junk, Serialize(list))).list : junk \in Junk}]

HearAnswer(c) ==
  /\ Hear(c)
  /\ IF system = "phones"
       THEN \E list \in ReadPhones[answer[c]] :
              heard' = [heard EXCEPT ![c] = list]
       ELSE heard' = [heard EXCEPT ![c] = answer[c]]
  /\ UNCHANGED <<text, answer, system, server, buffer, overrun>>

\* A client whose receive fails throws, and is gone; the size client does not look
\* at the result and goes on to the end: the size it prints has no characters.
Unheard(c) ==
  /\ client[c] = "waiting"
  /\ client' = [client EXCEPT ![c] = IF system = "size" THEN "done" ELSE "gone"]

\* Nobody receives any more: the client's receive may be told, and then fails.
Unreachable(c) ==
  /\ server = "ended" /\ asked[c] > 0
  /\ asked' = [asked EXCEPT ![c] = @ - 1]
  /\ Unheard(c) \/ UNCHANGED client
  /\ UNCHANGED <<answers, refused, faulty, dataVars, system, server, buffer,
                 overrun>>

\* recvfrom of the size client fails by itself; of the others Interrupt tells.
HearsNothing(c) ==
  /\ system = "size"
  /\ Unheard(c)
  /\ faulty' = TRUE
  /\ UNCHANGED <<asked, answers, refused, dataVars, system, server, buffer,
                 overrun>>

OtherClient(c) ==
  /\ Interrupt(c) \/ Lose(c) \/ Bounce(c)
  /\ UNCHANGED <<dataVars, system, server, buffer, overrun>>

-----------------------------------------------------------------------------
(* The servers.                                                            *)

\* Mutant: the end of the text is not marked.
TerminatesNot(old, s) == Overlay(old, s)

\* The text whose end is marked in the buffer: recvfrom, and buffer[ret] = 0,
\* which a datagram as long as the buffer puts past its end.
Terminated(old, s) ==
  IF Len(s) < Buffer THEN Overlay(old, Append(s, 0)) ELSE s

\* What the server answers to s, with buf in its buffer.
Reply(s, buf) ==
  CASE system = "hello" -> {Hello}
    [] system = "phones" -> PhoneLists
    [] system = "reverse" -> {Reverse(CString(buf))}
    [] system = "size" -> {Decimal(FileSize(s))}

\* receive_from or recvfrom returns a datagram that fits.
Receive(c) ==
  /\ server = "receiving"
  /\ asked[c] > 0 /\ Len(text[c]) <= Buffer
  /\ asked' = [asked EXCEPT ![c] = @ - 1]

\* The buffer of a server that answers.
Fill(c) ==
  /\ buffer' = IF system = "reverse" THEN Terminated(buffer, text[c])
                                     ELSE Overlay(buffer, text[c])
  /\ overrun' = (overrun \/ (system = "reverse" /\ Len(text[c]) = Buffer))

\* Mutant: an empty text is not answered.
SkipsEmpty(c) ==
  /\ system # "sink"
  /\ Receive(c) /\ Fill(c)
  /\ IF text[c] = <<>> THEN UNCHANGED <<answers, answer>>
     ELSE /\ answers' = [answers EXCEPT ![c] = @ + 1]
          /\ answer' \in
               {[answer EXCEPT ![c] = r] : r \in Reply(text[c], buffer')}
  /\ server' = IF system = "size" THEN "ended" ELSE server
  /\ UNCHANGED <<client, refused, faulty, text, heard, system>>

\* A datagram is received and answered.
Serve(c) ==
  /\ system # "sink"
  /\ Receive(c) /\ Fill(c)
  /\ answers' = [answers EXCEPT ![c] = @ + 1]
  /\ answer' \in {[answer EXCEPT ![c] = r] : r \in Reply(text[c], buffer')}
  /\ server' = IF system = "size" THEN "ended" ELSE server
  /\ UNCHANGED <<client, refused, faulty, text, heard, system>>

\* The send fails: the reverse server throws, the others do not notice.
ServeUnsent(c) ==
  /\ system # "sink"
  /\ Receive(c) /\ Fill(c)
  /\ server' = IF system \in {"size", "reverse"} THEN "ended" ELSE server
  /\ faulty' = TRUE
  /\ UNCHANGED <<client, answers, refused, dataVars, system>>

\* A buffer printed as a C string, with what may lie beyond it if no 0 is in it.
AsPrinted(buf) ==
  IF CString(buf) # buf THEN {CString(buf)} ELSE {buf, buf \o <<9>>}

\* Mutant: the buffer is not cleared before it is received into.
PrintsStale(c) ==
  /\ system = "sink"
  /\ Receive(c)
  /\ buffer' = Overlay(buffer, text[c])
  /\ overrun' = (overrun \/ CString(buffer') = buffer')
  /\ heard' \in {[heard EXCEPT ![c] = s] : s \in AsPrinted(buffer')}
  /\ UNCHANGED <<client, answers, refused, faulty, text, answer, system, server>>

\* The sink clears its buffer, receives, and prints the buffer.
Swallow(c) ==
  /\ system = "sink"
  /\ Receive(c)
  /\ buffer' = Overlay([i \in 1..Buffer |-> 0], text[c])
  /\ overrun' = (overrun \/ CString(buffer') = buffer')
  /\ heard' \in {[heard EXCEPT ![c] = s] : s \in AsPrinted(buffer')}
  /\ UNCHANGED <<client, answers, refused, faulty, text, answer, system, server>>

\* Mutant: the sink ends with an error, as the other servers do.
EndsOnError ==
  server' = "ended"

\* What a receive that fails does: the boost servers, the reverse server and,
\* after an answer to nobody, the size server end; the sink goes on.
Fail ==
  server' = IF system = "sink" THEN server ELSE "ended"

\* The datagram is longer than the buffer.
TooLong(c) ==
  /\ server = "receiving"
  /\ asked[c] > 0 /\ Len(text[c]) > Buffer
  /\ asked' = [asked EXCEPT ![c] = @ - 1]
  /\ Fail
  /\ UNCHANGED <<client, answers, refused, faulty, dataVars, system, buffer,
                 overrun>>

\* An answer came back from a client's host, or the call fails by itself.
ReceiveFails ==
  /\ server = "receiving"
  /\ \/ refused /\ refused' = FALSE /\ UNCHANGED faulty
     \/ faulty' = TRUE /\ UNCHANGED refused
  /\ Fail
  /\ UNCHANGED <<client, asked, answers, dataVars, system, buffer, overrun>>

\* A program that has written or read past an array may fail at any time.
Crash ==
  /\ overrun /\ server = "receiving"
  /\ server' = "ended"
  /\ UNCHANGED <<clientVars, dataVars, system, buffer, overrun>>

-----------------------------------------------------------------------------
\* A fresh buffer has any contents: here none of them ends a string.
Init ==
  /\ ClientInit
  /\ system \in Systems
  /\ server = "receiving"
  /\ buffer = [i \in 1..Buffer |-> 9]
  /\ text = [c \in Clients |-> <<>>]
  /\ answer = [c \in Clients |-> <<>>]
  /\ heard = [c \in Clients |-> <<>>]
  /\ overrun = FALSE

Server == ReceiveFails \/ Crash
          \/ \E c \in Clients :
               Serve(c) \/ ServeUnsent(c) \/ Swallow(c) \/ TooLong(c)

Next ==
  \/ Server
  \/ \E c \in Clients :
       \/ Send(c) \/ SendAway(c) \/ HearAnswer(c)
       \/ Unreachable(c) \/ HearsNothing(c) \/ OtherClient(c)

Spec == Init /\ [][Next]_vars

\* The server serves each of those that wait, and a client prints what came.
Fairness ==
  \A c \in Clients :
    /\ WF_vars(Serve(c) \/ ServeUnsent(c) \/ Swallow(c) \/ TooLong(c))
    /\ WF_vars(HearAnswer(c))

FairSpec == Spec /\ Fairness

-----------------------------------------------------------------------------
(* Properties.                                                             *)

TypeOK ==
  /\ ClientTypeOK
  /\ system \in Systems
  /\ server \in {"receiving", "ended"}
  /\ Len(buffer) = Buffer
  /\ \A c \in Clients : text[c] \in Texts \cup {Zero, <<>>}
  /\ overrun \in BOOLEAN

\* A client prints what it should, whatever the buffers on both sides had in
\* them and whoever was served before: the reverse of its own text, the size of
\* its own file, the phones that were sent, in their order, though others may
\* follow that the rest of its buffer happens to spell.  An empty size, which the
\* size client prints when it was told nothing, means that something failed or
\* that the server had served another, and ended.
RightAnswer ==
  \A c \in Clients :
    client[c] = "done" =>
      CASE system = "hello" -> heard[c] = Hello
        [] system = "phones" -> \E l \in PhoneLists : IsPrefix(l, heard[c])
        [] system = "reverse" -> heard[c] = Reverse(CString(text[c]))
        [] system = "size" ->
             IF heard[c] = <<>>
               THEN faulty \/ \E d \in Clients \ {c} : answer[d] # <<>>
               ELSE Told(text[c], heard[c])
        [] OTHER -> TRUE

\* The sink prints of each datagram its text and nothing of an earlier one, or of
\* what lies beyond its buffer, as long as the text leaves room for a 0.
SinkPrintsOwn ==
  \A c \in Clients :
    system = "sink" /\ heard[c] # <<>> /\ Len(CString(text[c])) < Buffer
      => heard[c] = CString(text[c])

\* A server that loops ends only when something went wrong, which a datagram
\* that fills its buffer can bring about, and the sink not even then.
EndsForCause ==
  server = "ended" =>
    \/ system = "size" \/ overrun
    \/ system # "sink" /\ (faulty \/ \E c \in Clients : Len(text[c]) > Buffer)

\* Who has asked is answered, unless something is lost or the server has ended.
Served ==
  \A c \in Clients :
    client[c] = "waiting"
      ~> client[c] = "done" \/ faulty \/ server = "ended"
=============================================================================
