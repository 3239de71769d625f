-------------------------------- MODULE Assembly ------------------------------
(***************************************************************************)
(* How messages come together: handleNewConnection, handleExistingConnec-  *)
(* tion, and of handleClient and handleServer what they do to the partial  *)
(* buffer and to server_list.  A message arrives in reads of any size, its *)
(* words standing for the bytes.  Tunnels, the cache, and what ends the    *)
(* process there, are left to Proxy.                                       *)
(***************************************************************************)
EXTENDS PartialBuffer, Parsers

CONSTANTS
  Requests,      \* the requests of clients
  Responses,     \* the answers of origins
  NoMessage,
  Part,          \* what the parsers may cut a text to
  MaxNodes       \* bound: the nodes of one descriptor in server_list

\* A message: the three words of its first line, its fields and its body.  A field may
\* have no value, and in a request no blank after its colon; to parse_http_res the colon
\* is as good as a blank.
Word == Seq(Part) \ {Blank}
Field == [name : Part, value : Seq(Word), glued : BOOLEAN]
Message == [start : Seq(Word), fields : Seq(Field), body : Seq(Seq(Part))]

ASSUME AssemblyAssumption ==
  /\ {"Host", "Content-Length", "Cache-Control"} \subseteq Part /\ "" \notin Part
  /\ Requests \subseteq Message /\ Responses \subseteq Message
  /\ Requests \cap Responses = {} /\ NoMessage \notin Requests \cup Responses
  /\ \A m \in Requests \cup Responses :
       /\ Len(m.start) = 3
       /\ \A k \in DOMAIN m.fields :
            m.fields[k].glued => m \in Requests /\ m.fields[k].value # <<>>
  /\ MaxNodes \in Nat \ {0}

VARIABLES
  sent,          \* history: the message a peer is sending, NoMessage if none
  wire,          \* the words of it that were not read yet
  text,          \* buffers[fd]->buffer up to its length
  nodes,         \* how many nodes of server_list have the descriptor
  header,        \* history: what the last message on fd was parsed to
  plain          \* history: all that was sent on the connection is plain

vars == <<memory, sent, wire, text, nodes, header, plain>>

\* What a peer sends for a field, and for a message.
FieldWords(f) ==
  IF f.glued THEN <<<<f.name>> \o f.value[1]>> \o Tail(f.value)
  ELSE <<<<f.name>>>> \o f.value

Words(m) ==
  m.start \o FlattenSeq([k \in 1..Len(m.fields) |-> FieldWords(m.fields[k])])
          \o <<Blank>> \o m.body

Init ==
  /\ MemoryInit
  /\ sent = [fd \in Fds |-> NoMessage]
  /\ wire = [fd \in Fds |-> <<>>]
  /\ text = [fd \in Fds |-> <<>>]
  /\ nodes = [fd \in Fds |-> 0]
  /\ header = [fd \in Fds |-> Incomplete]
  /\ plain = [fd \in Fds |-> TRUE]

(***************************************************************************)
(* The messages the parsers are made for: every field has a value, after a *)
(* blank, that is not the name of a field; no number is in a request but   *)
(* the port of its host, and no body; in a response one length, that of    *)
(* its body, and at most one Cache-Control, whose max-age, if it has one,  *)
(* is its first directive and has its number after the '='; a request fits *)
(* the stack, the header of a response MAX_HEADER_SIZE, and each half of   *)
(* the largest int.                                                        *)
(***************************************************************************)
Once(m, name) == \E k \in DOMAIN m.fields : \A l \in DOMAIN m.fields :
                   m.fields[l].name = name <=> l = k
Clean(f) ==
  /\ f.value # <<>> /\ ~f.glued
  /\ ToSet(FlattenSeq(f.value)) \cap {"Host", "Content-Length", "Cache-Control"} = {}

PlainRequest(m) ==
  /\ Once(m, "Host") /\ m.body = <<>>
  /\ \A k \in DOMAIN m.fields :
       LET f == m.fields[k]
           parts == FlattenSeq(f.value)
       IN  /\ ~string_is_number(f.name)
           /\ \A l \in DOMAIN parts : string_is_number(parts[l]) => f.name = "Host" /\ l = 2
  /\ Len(Words(m)) <= StackSize

\* A directive is a word, the comma after it left out.
IsMaxAge(directive) == directive[1] = "max-age"

PlainResponse(m) ==
  /\ Once(m, "Content-Length")
  /\ \A k, l \in DOMAIN m.fields :
       m.fields[k].name = "Cache-Control" /\ m.fields[l].name = "Cache-Control" => k = l
  /\ \A k \in DOMAIN m.fields :
       LET f == m.fields[k] IN
       /\ f.name = "Content-Length" => atoi(f.value[1][1]) = Len(m.body)
       /\ f.name = "Cache-Control" =>
            \A l \in DOMAIN f.value : IsMaxAge(f.value[l]) => l = 1 /\ Len(f.value[1]) > 1
  /\ Len(Words(m)) - Len(m.body) <= MaxHeaderSize

Plain(m) ==
  /\ \A k \in DOMAIN m.fields : Clean(m.fields[k])
  /\ m \in Requests => PlainRequest(m)
  /\ m \in Responses => PlainResponse(m)
  /\ Len(Words(m)) <= MaxInt \div 2

Begin(fd, m, before) ==
  /\ plain' = [plain EXCEPT ![fd] = before /\ Plain(m)]
  /\ sent' = [sent EXCEPT ![fd] = m]
  /\ wire' = [wire EXCEPT ![fd] = Words(m)]
  /\ header' = [header EXCEPT ![fd] = Incomplete]

\* isServer, pushFrontServerNode and deleteFromServerList, of one descriptor's nodes.
isServer(fd) == nodes[fd] > 0

pushFrontServerNode(fd) ==
  nodes[fd] < MaxNodes /\ nodes' = [nodes EXCEPT ![fd] = @ + 1]

deleteFromServerList(fd) == nodes' = [nodes EXCEPT ![fd] = @ - 1]

\* A connection opens, and its peer has something to say.
Connect(fd, messages) ==
  /\ \A g \in Fds : g < fd => g \in open   \* the kernel's choice
  /\ Open(fd)
  /\ \E m \in messages : Begin(fd, m, TRUE)
  /\ text' = [text EXCEPT ![fd] = <<>>]

handleNewConnection(fd) == Connect(fd, Requests) /\ UNCHANGED nodes

\* handleClient, of the connection it opens for a request.
ConnectOrigin(fd) == Connect(fd, Responses) /\ pushFrontServerNode(fd)

\* A client whose request was read and parsed sends another.
NextRequest(fd) ==
  /\ ~ended /\ fd \in open
  /\ sent[fd] \in Requests /\ wire[fd] = <<>> /\ header[fd] # Incomplete
  /\ \E m \in Requests : Begin(fd, m, plain[fd])
  /\ UNCHANGED <<memory, text, nodes>>

-------------------------------------------------------------------------------
Received(fd, n) == text[fd] \o SubSeq(wire[fd], 1, n)

\* What the parser that isServer chooses may come to.
Outcomes(fd, n) ==
  IF ~isServer(fd) THEN {parse_http_req(Received(fd, n))}
  ELSE IF sent[fd] \in Requests THEN Misread(Received(fd, n))
  ELSE {parse_http_res(Received(fd, n))}

\* Mutant of Complete: the header is not counted.
CompleteBody(h, n) == h # Incomplete /\ h.content_length = n

\* The test of handleServer.
Complete(h, n) == h # Incomplete /\ h.header_length + h.content_length = n

handleClient(fd, n, h) ==
  /\ IF h = Incomplete
     THEN Keep(fd, n) /\ text' = [text EXCEPT ![fd] = Received(fd, n)] /\ UNCHANGED header
     ELSE /\ Clear(fd, n) /\ text' = [text EXCEPT ![fd] = <<>>]
          /\ header' = [header EXCEPT ![fd] = h]
  /\ UNCHANGED nodes

handleServer(fd, n, h) ==
  /\ text' = [text EXCEPT ![fd] = Received(fd, n)]
  /\ IF Complete(h, length[fd] + n)
     THEN Close(fd, n) /\ deleteFromServerList(fd) /\ header' = [header EXCEPT ![fd] = h]
     ELSE Keep(fd, n) /\ UNCHANGED <<nodes, header>>

\* insertPartialBuffer or the parser ends the process.
ReadFails(fd, n, h) ==
  /\ Overflow(fd, n) \/ (h = Fault /\ EndInParser(fd, n))
  /\ UNCHANGED <<text, nodes, header>>

\* handleExistingConnection, of a read that returns n > 0.
Read(fd, n) ==
  /\ ~ended /\ fd \in open /\ n <= Len(wire[fd])
  /\ wire' = [wire EXCEPT ![fd] = SubSeq(@, n + 1, Len(@))]
  /\ UNCHANGED <<sent, plain>>
  /\ \E h \in Outcomes(fd, n) :
       \/ ReadFails(fd, n, h)
       \/ h # Fault /\ ~isServer(fd) /\ handleClient(fd, n, h)
       \/ h # Fault /\ isServer(fd) /\ handleServer(fd, n, h)

\* handleDisconnect: a read that returns 0, at any time.  The nodes stay.
Hangup(fd) ==
  /\ Disconnect(fd)
  /\ text' = [text EXCEPT ![fd] = <<>>]
  /\ wire' = [wire EXCEPT ![fd] = <<>>]
  /\ sent' = [sent EXCEPT ![fd] = NoMessage]
  /\ plain' = [plain EXCEPT ![fd] = TRUE]
  /\ header' = [header EXCEPT ![fd] = Incomplete]
  /\ UNCHANGED nodes

Next ==
  \E fd \in Fds :
    \/ handleNewConnection(fd) \/ ConnectOrigin(fd) \/ NextRequest(fd) \/ Hangup(fd)
    \/ \E n \in 1..BufSize : Read(fd, n)

Spec == Init /\ [][Next]_vars

-------------------------------------------------------------------------------
\* The buffers are as long as what they hold.
AssemblyTypeOK ==
  /\ MemoryTypeOK
  /\ sent \in [Fds -> Requests \cup Responses \cup {NoMessage}]
  /\ plain \in [Fds -> BOOLEAN] /\ nodes \in [Fds -> 0..MaxNodes]
  /\ \A fd \in Fds : length[fd] = Len(text[fd])

\* The value of a field that occurs once, <<>> if there is none.
ValueOf(m, name) ==
  LET k == SelectInSeq(m.fields, LAMBDA f : f.name = name)
  IN  IF k = 0 THEN <<>> ELSE m.fields[k].value

ExpectedRequest(m) ==
  LET host == FlattenSeq(ValueOf(m, "Host"))
  IN  [method |-> m.start[1], url |-> m.start[2], host |-> host[1],
       port |-> IF Len(host) > 1 /\ string_is_number(host[2]) THEN atoi(host[2]) ELSE 80]

ExpectedResponse(m) ==
  LET control == ValueOf(m, "Cache-Control")
      at      == SelectInSeq(control, IsMaxAge)   \* wherever it stands
  IN  [header_length |-> Len(Words(m)) - Len(m.body), content_length |-> Len(m.body),
       max_age |-> IF at = 0 THEN DefaultMaxAge ELSE atoi(control[at][2])]

(***************************************************************************)
(* All that was sent on the connection is plain, and if a client sent it   *)
(* isServer knows him for one: on a descriptor that an origin left without *)
(* a complete response he is taken for that origin, whatever he sends (the *)
(* run stale_server of Proxy shows it).                                    *)
(***************************************************************************)
Understood(fd) == plain[fd] /\ (sent[fd] \in Requests => fd \in open /\ ~isServer(fd))

(***************************************************************************)
(* A request that handleClient gets is parsed to what its client meant,    *)
(* wherever the reads cut it and whatever the client sent before on the    *)
(* connection, as long as all of that is plain: a body or a number would   *)
(* be taken for something else.                                            *)
(***************************************************************************)
RequestMeant ==
  \A fd \in Fds :
    sent[fd] \in Requests /\ Understood(fd) /\ ~ended =>
      header[fd] = IF wire[fd] = <<>> THEN ExpectedRequest(sent[fd]) ELSE Incomplete

(***************************************************************************)
(* A response whose length is told and true is recognised with its last    *)
(* byte and not before, wherever the reads cut it, whatever connections    *)
(* its descriptor had before, and is given the max-age it names.           *)
(***************************************************************************)
RecognisedAtItsEnd ==
  \A fd \in Fds :
    sent[fd] \in Responses /\ Understood(fd) /\ ~ended =>
      header[fd] = IF wire[fd] = <<>> THEN ExpectedResponse(sent[fd]) ELSE Incomplete

(***************************************************************************)
(* No read of what an understood peer sent ends the process in a parser or *)
(* in a buffer: the read that does is another's.                           *)
(***************************************************************************)
PlainNeverFaults ==
  [][~ended /\ ended' => \E fd \in Fds : wire'[fd] # wire[fd] /\ ~Understood(fd)]_vars

===============================================================================
