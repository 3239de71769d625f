----------------------------- MODULE AssemblyProofs ---------------------------
(***************************************************************************)
(* What Assembly's runs check, for every set of messages and every size:   *)
(* the memory of Buffer.c stays in bounds, and the parsers take a plain    *)
(* message for what was meant, wherever the reads cut it.  First the       *)
(* memory, then parse_http_req, parse_http_res, and how they meet.         *)
(***************************************************************************)
EXTENDS Assembly, SequenceLemmas

MemoryInv == MemoryTypeOK /\ Fits /\ ScanInBounds

\* No buffer is allocated at the start.
LEMMA MemoryInitInv == MemoryInit => MemoryInv
<1> SUFFICES ASSUME MemoryInit PROVE MemoryInv
  OBVIOUS
<1>1. \A fd \in Fds : size[fd] = 0
  BY DEF MemoryInit
<1>2. MemoryTypeOK
  <2>1. 0 \in Nat /\ 0 \in {0} \cup BufSize..MaxInt /\ {} \subseteq Fds
    OBVIOUS
  <2>2. size \in [Fds -> {0} \cup BufSize..MaxInt] /\ length \in [Fds -> Nat] /\ open \subseteq Fds
    BY <2>1 DEF MemoryInit
  <2>3. list_size \in Nat \ {0} /\ max_sock \in ListenFd..MaxFd
    BY PartialBufferAssumption DEF MemoryInit
  <2>4. ended \in BOOLEAN
    BY DEF MemoryInit
  <2> QED
    BY <2>2, <2>3, <2>4 DEF MemoryTypeOK
<1>3. Fits /\ ScanInBounds
  BY <1>1 DEF MemoryInit, Fits, ScanInBounds
<1> QED
  BY <1>2, <1>3 DEF MemoryInv

\* The ranges of the constants and of a descriptor.
LEMMA FdRange ==
  ASSUME NEW fd \in Fds
  PROVE  /\ fd \in Nat /\ ListenFd \in Nat /\ MaxFd \in Nat
         /\ ListenFd < fd /\ fd <= MaxFd
         /\ BufSize \in Nat /\ BufSize > 0 /\ MaxInt \in Nat /\ BufSize <= MaxInt
BY PartialBufferAssumption DEF Fds

\* A new connection has room for a read, and its slot is in the list.
LEMMA OpenInv ==
  ASSUME MemoryInv, NEW fd \in Fds, Open(fd)
  PROVE  MemoryInv'
<1>1. PICK new_size \in list_size..(list_size + 2 * fd) :
        Reaches(fd, new_size) /\ list_size' = new_size
  BY DEF Open
<1>2. /\ new_size \in Nat \ {0} /\ list_size <= new_size /\ fd < new_size
  BY <1>1, FdRange DEF Reaches, MemoryInv, MemoryTypeOK
<1> DEFINE high == IF fd > max_sock THEN fd ELSE max_sock
<1>3. /\ open' = open \cup {fd} /\ max_sock' = high /\ ended' = ended
      /\ size' = [size EXCEPT ![fd] = BufSize]
      /\ length' = [length EXCEPT ![fd] = 0]
  BY DEF Open
<1>4. high \in ListenFd..MaxFd /\ (high < new_size \/ high = ListenFd)
  BY <1>2, FdRange DEF MemoryInv, MemoryTypeOK, ScanInBounds
<1> HIDE DEF high
<1>5. MemoryTypeOK'
  <2>1. size' \in [Fds -> {0} \cup BufSize..MaxInt] /\ length' \in [Fds -> Nat]
    BY <1>3, FdRange DEF MemoryInv, MemoryTypeOK
  <2>2. open' \subseteq Fds /\ ended' \in BOOLEAN
    BY <1>3 DEF MemoryInv, MemoryTypeOK
  <2> QED
    BY <1>1, <1>2, <1>3, <1>4, <2>1, <2>2 DEF MemoryTypeOK
<1>6. Fits'
  BY <1>3, FdRange DEF MemoryInv, MemoryTypeOK, Fits
<1>7. ScanInBounds'
  <2>1. \A other \in open' : other < new_size /\ size'[other] # 0
    BY <1>2, <1>3, FdRange DEF MemoryInv, MemoryTypeOK, ScanInBounds
  <2> QED
    BY <1>1, <1>3, <1>4, <2>1 DEF ScanInBounds
<1> QED
  BY <1>5, <1>6, <1>7 DEF MemoryInv

(***************************************************************************)
(* insertPartialBuffer: one doubling makes room for a read and a byte      *)
(* more, since the buffer was at least as large as a read.                 *)
(***************************************************************************)
LEMMA OneDoublingIsEnough ==
  ASSUME MemoryInv, NEW fd \in Fds, NEW n \in 1..BufSize, insertPartialBuffer(fd, n)
  PROVE  /\ size' \in [Fds -> {0} \cup BufSize..MaxInt]
         /\ \A other \in Fds \ {fd} : size'[other] = size[other]
         /\ length[fd] + n < size'[fd] /\ length[fd] + n \in Nat /\ n \in Nat
         /\ size'[fd] # 0 /\ fd \in open
<1> DEFINE grown == IF Full(fd, n) THEN 2 * size[fd] ELSE size[fd]
<1>1. /\ fd \in open /\ size' = [size EXCEPT ![fd] = grown]
      /\ ~(Full(fd, n) /\ 2 * size[fd] > MaxInt)
  BY DEF insertPartialBuffer
<1>2. /\ size[fd] \in BufSize..MaxInt /\ length[fd] \in Nat /\ length[fd] < size[fd]
      /\ size \in [Fds -> {0} \cup BufSize..MaxInt] /\ n \in Nat
  BY <1>1, FdRange DEF MemoryInv, MemoryTypeOK, Fits, ScanInBounds
<1>3. grown \in BufSize..MaxInt /\ length[fd] + n < grown
  BY <1>1, <1>2, FdRange DEF Full
<1> HIDE DEF grown
<1> QED
  BY <1>1, <1>2, <1>3, FdRange

\* Whatever the handler makes of the read: it is kept, consumed, or the last.
LEMMA ReadInv ==
  ASSUME MemoryInv, NEW fd \in Fds, NEW n \in 1..BufSize, insertPartialBuffer(fd, n),
         NEW used \in 0..(length[fd] + n), length' = [length EXCEPT ![fd] = used],
         open' \subseteq open
  PROVE  MemoryInv'
<1>1. /\ size' \in [Fds -> {0} \cup BufSize..MaxInt]
      /\ \A other \in Fds \ {fd} : size'[other] = size[other]
      /\ length[fd] + n < size'[fd] /\ length[fd] + n \in Nat
      /\ size'[fd] # 0
  BY OneDoublingIsEnough
<1>2. list_size' = list_size /\ max_sock' = max_sock /\ ended' = ended
  BY DEF insertPartialBuffer
<1>3. used \in Nat /\ used <= length[fd] + n
  BY <1>1
<1>4. used < size'[fd]
  <2>1. size'[fd] \in {0} \cup BufSize..MaxInt
    BY <1>1
  <2> QED
    BY <1>1, <1>3, <2>1, FdRange
<1>5. MemoryTypeOK'
  BY <1>1, <1>2, <1>3 DEF MemoryInv, MemoryTypeOK
<1>6. Fits'
  BY <1>1, <1>4 DEF MemoryInv, MemoryTypeOK, Fits
<1>7. ScanInBounds'
  BY <1>1, <1>2 DEF MemoryInv, MemoryTypeOK, ScanInBounds
<1> QED
  BY <1>5, <1>6, <1>7 DEF MemoryInv

\* removePartialBuffer and shift_left_buff leave the list and the other buffers as they should be.
LEMMA DisconnectInv ==
  ASSUME MemoryInv, NEW fd \in Fds, Disconnect(fd)
  PROVE  MemoryInv'
<1> DEFINE high == IF max_sock = fd THEN max_sock - 1 ELSE max_sock
<1>1. /\ open' = open \ {fd} /\ max_sock' = high
      /\ list_size' = list_size /\ ended' = ended
      /\ size' = [size EXCEPT ![fd] = 0]
      /\ length' = [length EXCEPT ![fd] = 0]
  BY DEF Disconnect
<1>2. high \in ListenFd..MaxFd /\ (high < list_size \/ high = ListenFd)
  BY FdRange DEF MemoryInv, MemoryTypeOK, ScanInBounds
<1> HIDE DEF high
<1>3. MemoryTypeOK'
  BY <1>1, <1>2 DEF MemoryInv, MemoryTypeOK
<1>4. Fits'
  BY <1>1 DEF MemoryInv, MemoryTypeOK, Fits
<1>5. ScanInBounds'
  BY <1>1, <1>2 DEF MemoryInv, MemoryTypeOK, ScanInBounds
<1> QED
  BY <1>3, <1>4, <1>5 DEF MemoryInv

\* MemoryInv is inductive.
LEMMA MemoryStep == MemoryInv /\ [MemoryNext]_memory => MemoryInv'
<1> SUFFICES ASSUME MemoryInv, [MemoryNext]_memory PROVE MemoryInv'
  OBVIOUS
<1>1. ASSUME NEW fd \in Fds, Open(fd) PROVE MemoryInv'
  BY <1>1, OpenInv
<1>2. ASSUME NEW fd \in Fds, Disconnect(fd) PROVE MemoryInv'
  BY <1>2, DisconnectInv
<1>3. ASSUME NEW fd \in Fds, NEW n \in 1..BufSize, Keep(fd, n) \/ Clear(fd, n) \/ Close(fd, n)
      PROVE  MemoryInv'
  <2>1. insertPartialBuffer(fd, n) /\ open' \subseteq open
    BY <1>3 DEF Keep, Clear, Close
  <2>2. 0 \in 0..(length[fd] + n) /\ length[fd] + n \in 0..(length[fd] + n)
    BY <2>1, OneDoublingIsEnough
  <2>3. length' = [length EXCEPT ![fd] = length[fd] + n] \/ length' = [length EXCEPT ![fd] = 0]
    BY <1>3 DEF Keep, Clear, Close
  <2> QED
    BY <2>1, <2>2, <2>3, ReadInv
<1>4. ASSUME NEW fd \in Fds, NEW n \in 1..BufSize, Overflow(fd, n) \/ EndInParser(fd, n)
      PROVE  MemoryInv'
  BY <1>4 DEF Overflow, EndInParser, MemoryInv, MemoryTypeOK, Fits, ScanInBounds
<1>5. CASE UNCHANGED memory
  BY <1>5 DEF memory, MemoryInv, MemoryTypeOK, Fits, ScanInBounds
<1> QED
  BY <1>1, <1>2, <1>3, <1>4, <1>5 DEF MemoryNext

\* Sizes stay within an int and lengths within sizes, however reads arrive.
THEOREM MemoryIsTyped == MemorySpec => []MemoryTypeOK
<1>1. MemoryInv => MemoryTypeOK
  BY DEF MemoryInv
<1> QED
  BY <1>1, MemoryInitInv, MemoryStep, PTL DEF MemorySpec

(***************************************************************************)
(* No read is copied past the end of its buffer, although                  *)
(* insertPartialBuffer doubles it only once.                               *)
(***************************************************************************)
THEOREM ReadsFit == MemorySpec => []Fits
<1>1. MemoryInv => Fits
  BY DEF MemoryInv
<1> QED
  BY <1>1, MemoryInitInv, MemoryStep, PTL DEF MemorySpec

\* The scan of add_tokens stays inside the list of buffers.
THEOREM ScansStayInBounds == MemorySpec => []ScanInBounds
<1>1. MemoryInv => ScanInBounds
  BY DEF MemoryInv
<1> QED
  BY <1>1, MemoryInitInv, MemoryStep, PTL DEF MemorySpec

-------------------------------------------------------------------------------
\* Where the loop of parse_http_req may be.
ReqHeaders == [method : Word, url : Word, host : Part \cup {""}, port : Nat]
ReqStates == [header : ReqHeaders, next : {"field", "host"}]
ReqTurns == [x \in ReqStates \X Part |-> ReqTurn(x[1], x[2])]

\* What atoi returns is a natural number.
LEMMA AtoiType == \A token : atoi(token) \in Nat
BY ParsersAssumption DEF atoi, string_is_number

\* A turn of the loop over the tokens of a request keeps its header typed.
LEMMA ReqTurnType ==
  ASSUME NEW s \in ReqStates, NEW token \in Part PROVE ReqTurn(s, token) \in ReqStates
<1> DEFINE h == IF s.next = "host" THEN [s.header EXCEPT !.host = token] ELSE s.header
<1>1. s.header \in ReqHeaders
  BY DEF ReqStates
<1>2. h \in ReqHeaders
  BY <1>1 DEF ReqHeaders
<1> HIDE DEF h
<1>3. WithPort(h, token) \in ReqHeaders
  BY <1>2, AtoiType DEF ReqHeaders, WithPort
<1>4. \A g \in ReqHeaders, what \in {"field", "host"} : Awaits(g, what) \in ReqStates
  BY DEF Awaits, ReqStates
<1>5. ReqTurn(s, token) = IF s.next = "field" /\ token = "Host" THEN Awaits(s.header, "host")
                          ELSE Awaits(WithPort(h, token), "field")
  BY DEF ReqTurn, h
<1> QED
  BY <1>1, <1>3, <1>4, <1>5

\* The turns as a function, for the lemmas about loops.
LEMMA ReqTurnsType ==
  /\ Turns(ReqTurns, ReqStates, Part)
  /\ \A s \in ReqStates, token \in Part : ReqTurns[<<s, token>>] = ReqTurn(s, token)
BY ReqTurnType DEF Turns, ReqTurns

\* ReqFields is the loop that carries ReqTurn over the tokens, from any state it may be in.
LEMMA ReqLoopIsCarried ==
  ASSUME NEW s \in ReqStates, NEW tokens \in Seq(Part)
  PROVE  ReqLoop(s, tokens) = Carried(ReqTurns, s, tokens)
<1> DEFINE n == Len(tokens)
<1>0. n \in Nat /\ 0 \in 0..n /\ n \in 0..n
  BY LenProperties
<1>1. PICK f \in [0..n -> ReqStates] :
        Carries(f, ReqTurns, s, tokens) /\ Carried(ReqTurns, s, tokens) = f[n]
  BY ReqTurnsType, CarriedUnfolds
<1> DEFINE Eqn(g) == g = [k \in 0..n |-> IF k = 0 THEN s ELSE ReqTurn(g[k - 1], tokens[k])]
           h == CHOOSE g : Eqn(g)
<1>2. ReqLoop(s, tokens) = h[n]
  BY DEF ReqLoop
<1>3. Eqn(f)
  <2>1. ASSUME NEW k \in 0..n
        PROVE  f[k] = IF k = 0 THEN s ELSE ReqTurn(f[k - 1], tokens[k])
    <3>1. CASE k = 0
      BY <1>1, <3>1 DEF Carries
    <3>2. CASE k # 0
      <4>1. k \in 1..n /\ f[k - 1] \in ReqStates /\ tokens[k] \in Part
        BY <1>0, <3>2, ElementOfSeq
      <4>2. f[k] = ReqTurns[<<f[k - 1], tokens[k]>>]
        BY <1>1, <4>1 DEF Carries
      <4> QED
        BY <3>2, <4>1, <4>2, ReqTurnsType
    <3> QED
      BY <3>1, <3>2
  <2> QED
    BY <2>1
<1>4. Eqn(h)
  <2> HIDE DEF Eqn
  <2> QED
    BY <1>3, Zenon DEF h
<1> HIDE DEF h
<1>5. /\ \A k \in 0..n : h[k] = IF k = 0 THEN s ELSE ReqTurn(h[k - 1], tokens[k])
      /\ \A k \in 0..n : f[k] = IF k = 0 THEN s ELSE ReqTurn(f[k - 1], tokens[k])
  BY <1>3, <1>4
<1> HIDE DEF Eqn, n
<1> DEFINE Same == {k \in Nat : k <= n => h[k] = f[k]}
<1>6. 0 \in Same
  BY <1>0, <1>5
<1>7. ASSUME NEW k \in Nat, k \in Same PROVE k + 1 \in Same
  <2> SUFFICES ASSUME k + 1 <= n PROVE h[k + 1] = f[k + 1]
    OBVIOUS
  <2>1. k + 1 \in 0..n /\ k + 1 # 0 /\ (k + 1) - 1 = k /\ k <= n
    BY <1>0
  <2>2. h[k] = f[k]
    BY <1>7, <2>1
  <2>3. h[k + 1] = ReqTurn(h[(k + 1) - 1], tokens[k + 1])
    BY <1>5, <2>1
  <2>4. f[k + 1] = ReqTurn(f[(k + 1) - 1], tokens[k + 1])
    BY <1>5, <2>1
  <2> QED
    BY <2>1, <2>2, <2>3, <2>4
<1> HIDE DEF Same
<1>8. n \in Same
  BY <1>0, <1>6, <1>7, EveryNumber
<1> QED
  BY <1>0, <1>1, <1>2, <1>8 DEF Same

\* The loop over the tokens of a request, token by token and part by part.
LEMMA ReqLoopSteps ==
  ASSUME NEW s \in ReqStates
  PROVE  /\ ReqLoop(s, <<>>) = s
         /\ \A tokens \in Seq(Part) : ReqLoop(s, tokens) \in ReqStates
         /\ \A tokens \in Seq(Part), token \in Part :
              ReqLoop(s, tokens \o <<token>>) = ReqTurn(ReqLoop(s, tokens), token)
         /\ \A a, b \in Seq(Part) : ReqLoop(s, a \o b) = ReqLoop(ReqLoop(s, a), b)
<1>1. \A t \in ReqStates, tokens \in Seq(Part) : ReqLoop(t, tokens) = Carried(ReqTurns, t, tokens)
  BY ReqLoopIsCarried
<1>2. Turns(ReqTurns, ReqStates, Part)
  BY ReqTurnsType
<1>3. ReqLoop(s, <<>>) = s
  <2>1. <<>> \in Seq(Part)
    OBVIOUS
  <2>2. Carried(ReqTurns, s, <<>>) = s
    BY <1>2, CarriedEmpty
  <2> QED
    BY <1>1, <2>1, <2>2, Zenon
<1>4. \A tokens \in Seq(Part) : ReqLoop(s, tokens) \in ReqStates
  <2> SUFFICES ASSUME NEW tokens \in Seq(Part) PROVE ReqLoop(s, tokens) \in ReqStates
    OBVIOUS
  <2>1. PICK f \in [0..Len(tokens) -> ReqStates] : Carried(ReqTurns, s, tokens) = f[Len(tokens)]
    BY <1>2, CarriedUnfolds
  <2>2. Len(tokens) \in 0..Len(tokens)
    BY LenProperties
  <2>3. ReqLoop(s, tokens) = f[Len(tokens)]
    BY <1>1, <2>1
  <2> QED
    BY <2>2, <2>3
<1>5. ASSUME NEW tokens \in Seq(Part), NEW token \in Part
      PROVE  ReqLoop(s, tokens \o <<token>>) = ReqTurn(ReqLoop(s, tokens), token)
  <2>1. /\ tokens \o <<token>> \in Seq(Part)
        /\ Carried(ReqTurns, s, tokens \o <<token>>)
             = ReqTurns[<<Carried(ReqTurns, s, tokens), token>>]
    BY <1>2, CarriedAppend
  <2>2. ReqLoop(s, tokens \o <<token>>) = ReqTurns[<<ReqLoop(s, tokens), token>>]
    BY <1>1, <2>1, Zenon
  <2>3. ReqLoop(s, tokens) \in ReqStates
    BY <1>4
  <2> QED
    BY <2>2, <2>3, ReqTurnsType
<1>6. ASSUME NEW a \in Seq(Part), NEW b \in Seq(Part)
      PROVE  ReqLoop(s, a \o b) = ReqLoop(ReqLoop(s, a), b)
  <2>1. a \o b \in Seq(Part)
    BY ConcatProperties
  <2>2. Carried(ReqTurns, s, a \o b) = Carried(ReqTurns, Carried(ReqTurns, s, a), b)
    BY <1>2, CarriedConcat
  <2>3. ReqLoop(s, a) \in ReqStates
    BY <1>4
  <2> QED
    BY <1>1, <2>1, <2>2, <2>3, Zenon
<1> QED
  BY <1>3, <1>4, <1>5, <1>6

\* A token is passed over if it is no number and not the name of the field Host.
Passed == {token \in Part : token # "Host" /\ ~string_is_number(token)}

\* Tokens that are passed over leave the header as it was.
LEMMA ReqPasses ==
  ASSUME NEW h \in ReqHeaders, NEW tokens \in Seq(Passed)
  PROVE  ReqLoop(Awaits(h, "field"), tokens) = Awaits(h, "field")
<1> DEFINE s == Awaits(h, "field")
           P == {t \in Seq(Part) : ReqLoop(s, t) = s}
<1>1. s \in ReqStates
  BY DEF Awaits, ReqStates
<1>2. \A token \in Passed : ReqTurn(s, token) = s /\ token \in Part
  BY DEF ReqTurn, Awaits, WithPort, Passed
<1> HIDE DEF s
<1>3. <<>> \in P
  <2>1. <<>> \in Seq(Part) /\ ReqLoop(s, <<>>) = s
    BY <1>1, ReqLoopSteps
  <2> QED
    BY <2>1, Zenon
<1>4. ASSUME NEW t \in Seq(Passed), NEW token \in Passed, t \in P PROVE t \o <<token>> \in P
  <2>1. t \in Seq(Part) /\ token \in Part /\ ReqLoop(s, t) = s
    BY <1>2, <1>4
  <2>2. ReqLoop(s, t \o <<token>>) = ReqTurn(ReqLoop(s, t), token)
    BY <1>1, <2>1, ReqLoopSteps
  <2>3. t \o <<token>> \in Seq(Part)
    BY <2>1, ConcatProperties
  <2> QED
    BY <1>2, <2>1, <2>2, <2>3
<1> HIDE DEF P
<1>5. \A t \in Seq(Passed) : t \in P
  BY <1>3, <1>4, EverySequence
<1> QED
  BY <1>5 DEF P, s

\* The tokens of a plain Host field.
HostTokens(host) ==
  /\ host \in Seq(Part) /\ Len(host) > 0
  /\ \A l \in 1..Len(host) : host[l] # "Host" /\ (string_is_number(host[l]) => l = 2)

HostPort(host, default) ==
  IF Len(host) > 1 /\ string_is_number(host[2]) THEN atoi(host[2]) ELSE default

\* After the name Host the loop takes the host, and the port if the next token is a number.
LEMMA ReqTakesHost ==
  ASSUME NEW h \in ReqHeaders, NEW host, HostTokens(host)
  PROVE  ReqLoop(Awaits(h, "field"), <<"Host">> \o host) =
           Awaits([h EXCEPT !.host = host[1], !.port = HostPort(host, h.port)], "field")
<1> DEFINE s0 == Awaits(h, "field")
           s1 == Awaits(h, "host")
           s2 == Awaits([h EXCEPT !.host = host[1]], "field")
           s3 == Awaits([h EXCEPT !.host = host[1], !.port = HostPort(host, h.port)], "field")
<1>1. /\ Len(host) \in Nat /\ host \in Seq(Part) /\ 1 \in 1..Len(host)
      /\ \A l \in 1..Len(host) : host[l] \in Part /\ host[l] # "Host"
                                 /\ (string_is_number(host[l]) => l = 2)
  BY ElementOfSeq, LenProperties DEF HostTokens
<1>2. host[1] \in Part /\ host[1] # "Host" /\ ~string_is_number(host[1]) /\ "Host" \in Part
  <2>1. "Host" \in Part
    BY AssemblyAssumption
  <2>2. 1 # 2
    OBVIOUS
  <2> QED
    BY <1>1, <2>1, <2>2, Zenon
<1>3. s0 \in ReqStates /\ s1 \in ReqStates
  BY DEF Awaits, ReqStates
<1>4. [h EXCEPT !.host = host[1]] \in ReqHeaders
  BY <1>2 DEF ReqHeaders
<1>5. s2 \in ReqStates
  BY <1>4 DEF Awaits, ReqStates
<1>6. [h EXCEPT !.host = host[1], !.port = HostPort(host, h.port)] \in ReqHeaders
  BY <1>2, AtoiType DEF ReqHeaders, HostPort
<1>7. s3 \in ReqStates
  BY <1>6 DEF Awaits, ReqStates
<1>8. ReqTurn(s0, "Host") = s1
  BY DEF ReqTurn, Awaits
<1>9. ReqTurn(s1, host[1]) = s2
  BY <1>2 DEF ReqTurn, Awaits, WithPort
<1>10. ASSUME Len(host) > 1 PROVE ReqTurn(s2, host[2]) = s3 /\ host[2] \in Part
  <2>1. host[2] # "Host" /\ host[2] \in Part
    BY <1>1, <1>10
  <2>2. ReqTurn(s2, host[2]) = Awaits(WithPort([h EXCEPT !.host = host[1]], host[2]), "field")
    BY <2>1 DEF ReqTurn, Awaits
  <2>3. WithPort([h EXCEPT !.host = host[1]], host[2])
          = [h EXCEPT !.host = host[1], !.port = HostPort(host, h.port)]
    BY <1>10 DEF WithPort, HostPort, ReqHeaders
  <2> QED
    BY <2>1, <2>2, <2>3
<1>11. ASSUME ~(Len(host) > 1) PROVE s2 = s3
  <2>1. [h EXCEPT !.host = host[1]] = [h EXCEPT !.host = host[1], !.port = HostPort(host, h.port)]
    BY <1>11 DEF HostPort, ReqHeaders
  <2> QED
    BY <2>1
<1> HIDE DEF s0, s1, s2, s3
<1>12. ReqLoop(s0, <<"Host">> \o <<host[1]>>) = s2
  <2> DEFINE e == <<>>
             name == <<"Host">>
  <2>1. e \in Seq(Part) /\ name \in Seq(Part) /\ e \o name = name
    BY <1>2
  <2>2. /\ ReqLoop(s0, <<>>) = s0
        /\ \A tokens \in Seq(Part), token \in Part :
             ReqLoop(s0, tokens \o <<token>>) = ReqTurn(ReqLoop(s0, tokens), token)
    BY <1>3, ReqLoopSteps
  <2>3. ReqLoop(s0, e \o name) = ReqTurn(ReqLoop(s0, e), "Host")
    <3> HIDE DEF e
    <3> QED
      BY <1>2, <2>1, <2>2, Zenon
  <2>4. ReqLoop(s0, name) = s1
    BY <1>8, <2>1, <2>2, <2>3
  <2> HIDE DEF e, name
  <2>5. ReqLoop(s0, name \o <<host[1]>>) = ReqTurn(ReqLoop(s0, name), host[1])
    BY <1>2, <2>1, <2>2, Zenon
  <2> QED
    BY <1>9, <2>4, <2>5 DEF name
<1>13. CASE ~(Len(host) > 1)
  <2>1. host = <<host[1]>>
    <3>1. Len(host) = 1
      <4> DEFINE n == Len(host)
      <4>1. n \in Nat /\ n > 0 /\ ~(n > 1)
        BY <1>1, <1>13 DEF HostTokens
      <4> HIDE DEF n
      <4>2. n = 1
        BY <4>1
      <4> QED
        BY <4>2 DEF n
    <3>2. SubSeq(host, 1, Len(host)) = host
      BY <1>1, SubSeqFull
    <3> QED
      BY <1>1, <3>1, <3>2, FirstElement
  <2> QED
    BY <1>11, <1>12, <1>13, <2>1 DEF s0, s3
<1>14. CASE Len(host) > 1
  <2> DEFINE first == <<host[1]>>
             second == <<host[2]>>
             rest == SubSeq(host, 3, Len(host))
             q == <<"Host">> \o first
  <2>1. host = (first \o second) \o rest
    <3>1. SubSeq(host, 1, 1) = first
      BY <1>1, FirstElement
    <3>2. 1 \in 0..(Len(host) - 1)
      BY <1>1, <1>14
    <3>3. SubSeq(host, 1, 1 + 1) = SubSeq(host, 1, 1) \o <<host[1 + 1]>>
      BY <1>1, <3>2, PrefixProperties
    <3>4. 1 \in 1..(Len(host) + 1) /\ 2 \in (1 - 1)..Len(host) /\ Len(host) \in 2..Len(host)
      BY <1>1, <1>14
    <3>5. SubSeq(host, 1, 2) \o SubSeq(host, 2 + 1, Len(host)) = SubSeq(host, 1, Len(host))
      BY <1>1, <3>4, ConcatAdjacentSubSeq
    <3>6. SubSeq(host, 1, Len(host)) = host
      BY <1>1, SubSeqFull
    <3>7. 1 + 1 = 2 /\ 2 + 1 = 3
      OBVIOUS
    <3> QED
      BY <3>1, <3>3, <3>5, <3>6, <3>7
  <2>2. rest \in Seq(Passed)
    <3>1. /\ rest \in Seq(Part) /\ Len(rest) = Len(host) - 2
          /\ \A k \in 1..(Len(host) - 2) : rest[k] = host[k + 2]
      <4>1. /\ 3 \in 1..(Len(host) + 1) /\ Len(host) \in (3 - 1)..Len(host)
            /\ (Len(host) - 3) + 1 = Len(host) - 2
            /\ \A k \in 1..(Len(host) - 2) : (3 + k) - 1 = k + 2
        BY <1>1, <1>14
      <4> QED
        BY <1>1, <1>14, <4>1, SubSeqProperties
    <3>2. \A k \in 1..Len(rest) : rest[k] \in Passed
      BY <1>1, <3>1 DEF Passed
    <3> HIDE DEF rest
    <3> QED
      BY <3>1, <3>2, IsASeq, LenProperties
  <2>3. /\ <<"Host">> \in Seq(Part) /\ first \in Seq(Part) /\ second \in Seq(Part)
        /\ rest \in Seq(Part)
    BY <1>2, <1>10, <1>14, <2>2 DEF Passed
  <2> HIDE DEF rest
  <2>4. <<"Host">> \o host = (q \o second) \o rest
    <3>1. Associative(Part)
      BY ConcatIsAssociative, Zenon
    <3> DEFINE name == <<"Host">>
    <3> HIDE DEF first, second, name
    <3> DEFINE both == first \o second
    <3>2. name \in Seq(Part) /\ first \in Seq(Part) /\ second \in Seq(Part)
      BY <2>3 DEF name
    <3>3. name \in Seq(Part) /\ both \in Seq(Part) /\ rest \in Seq(Part)
      BY <2>3, ConcatProperties DEF name
    <3>4. (name \o first) \o second = name \o (first \o second)
      BY <3>1, <3>2, Zenon DEF Associative
    <3> HIDE DEF both
    <3>5. (name \o both) \o rest = name \o (both \o rest)
      BY <3>1, <3>3, Zenon DEF Associative
    <3> QED
      BY <2>1, <3>4, <3>5 DEF name, both
  <2>5. q \in Seq(Part) /\ q \o second \in Seq(Part)
    BY <2>3, ConcatProperties
  <2>6. ReqLoop(s0, q) = s2
    BY <1>12
  <2> HIDE DEF q, first
  <2>7. ReqLoop(s0, q \o second) = ReqTurn(ReqLoop(s0, q), host[2])
    BY <1>3, <1>10, <1>14, <2>5, ReqLoopSteps
  <2>8. ReqLoop(s0, q \o second) = s3
    BY <1>10, <1>14, <2>6, <2>7
  <2> HIDE DEF second
  <2>9. ReqLoop(s0, (q \o second) \o rest) = ReqLoop(ReqLoop(s0, q \o second), rest)
    <3>1. \A a, b \in Seq(Part) : ReqLoop(s0, a \o b) = ReqLoop(ReqLoop(s0, a), b)
      BY <1>3, ReqLoopSteps
    <3> QED
      BY <2>3, <2>5, <3>1, Zenon
  <2>10. ReqLoop(s3, rest) = s3
    BY <1>6, <2>2, ReqPasses DEF s3
  <2> QED
    BY <2>4, <2>8, <2>9, <2>10 DEF s0, s3
<1> QED
  BY <1>13, <1>14

-------------------------------------------------------------------------------
\* What a field is on the wire.
FieldOk(f) == f \in Field /\ (f.glued => f.value # <<>>)

\* Words are sequences of parts.
LEMMA WordsAreParts == Seq(Word) \subseteq Seq(Seq(Part))
<1>1. Word \subseteq Seq(Part)
  BY DEF Word
<1> QED
  BY <1>1, SeqMonotonic

\* The words of a field: at least one, and the first starts with the name.
LEMMA FieldWordsType ==
  ASSUME NEW f, FieldOk(f) PROVE FieldWords(f) \in Seq(Word)
<1>1. f.name \in Part /\ f.value \in Seq(Word)
  BY DEF FieldOk, Field
<1>2. CASE ~f.glued
  <2>1. <<f.name>> \in Word
    BY <1>1 DEF Word, Blank
  <2>2. <<<<f.name>>>> \in Seq(Word)
    BY <2>1
  <2>3. <<<<f.name>>>> \o f.value \in Seq(Word)
    BY <1>1, <2>2, ConcatProperties
  <2> QED
    BY <1>2, <2>3 DEF FieldWords
<1>3. CASE f.glued
  <2>1. f.value # <<>>
    BY <1>3 DEF FieldOk
  <2>2. f.value[1] \in Word /\ Tail(f.value) \in Seq(Word)
    <3>1. Head(f.value) \in Word /\ Tail(f.value) \in Seq(Word)
      BY <1>1, <2>1, HeadTailProperties
    <3> QED
      BY <3>1 DEF Head
  <2>3. <<f.name>> \o f.value[1] \in Word
    <3>1. <<f.name>> \in Seq(Part) /\ f.value[1] \in Seq(Part)
      BY <1>1, <2>2 DEF Word
    <3>2. /\ <<f.name>> \o f.value[1] \in Seq(Part)
          /\ Len(<<f.name>> \o f.value[1]) = Len(<<f.name>>) + Len(f.value[1])
      BY <3>1, ConcatProperties
    <3>3. Len(<<f.name>> \o f.value[1]) # 0
      <4>1. Len(f.value[1]) \in Nat /\ Len(<<f.name>>) = 1
        BY <3>1, LenProperties
      <4> QED
        BY <3>2, <4>1
    <3> QED
      BY <3>2, <3>3 DEF Word, Blank
  <2>4. <<<<f.name>> \o f.value[1]>> \in Seq(Word)
    BY <2>3
  <2>5. <<<<f.name>> \o f.value[1]>> \o Tail(f.value) \in Seq(Word)
    BY <2>2, <2>4, ConcatProperties
  <2> QED
    BY <1>3, <2>5 DEF FieldWords
<1> QED
  BY <1>2, <1>3

\* The parts of the value of a clean field name no field.
LEMMA CleanField ==
  ASSUME NEW f, FieldOk(f), Clean(f)
  PROVE  /\ FieldWords(f) = <<<<f.name>>>> \o f.value
         /\ FlattenSeq(FieldWords(f)) = <<f.name>> \o FlattenSeq(f.value)
         /\ FlattenSeq(f.value) \in Seq(Part) /\ Len(FlattenSeq(f.value)) > 0
         /\ \A l \in 1..Len(FlattenSeq(f.value)) :
              FlattenSeq(f.value)[l] \notin {"Host", "Content-Length", "Cache-Control"}
<1> DEFINE parts == FlattenSeq(f.value)
<1>1. f.name \in Part /\ f.value \in Seq(Seq(Part)) /\ f.value # <<>> /\ f.value \in Seq(Word)
  BY WordsAreParts DEF FieldOk, Field, Clean
<1>2. FieldWords(f) = <<<<f.name>>>> \o f.value
  BY DEF FieldWords, Clean
<1>3. <<f.name>> \in Seq(Part)
  BY <1>1
<1>4. FlattenSeq(<<<<f.name>>>> \o f.value) = <<f.name>> \o FlattenSeq(f.value)
  BY <1>1, <1>3, FlattenFirst
<1>5. parts \in Seq(Part)
  BY <1>1, FlattenProperties, EmptySeq
<1>6. Len(parts) > 0
  <2>1. Len(f.value) \in Nat /\ Len(f.value) # 0
    BY <1>1, LenProperties, EmptySeq
  <2>2. 1 \in 1..Len(f.value)
    BY <2>1
  <2>3. f.value[1] \in Word
    BY <1>1, <2>2, ElementOfSeq
  <2>4. Len(f.value[1]) \in Nat /\ Len(f.value[1]) # 0
    BY <2>3, LenProperties, EmptySeq DEF Word, Blank
  <2>5. 1 \in 1..Len(f.value[1])
    BY <2>4
  <2>6. \E k \in 1..Len(parts) : parts[k] = f.value[1][1]
    <3>1. \A i \in 1..Len(f.value) : \A j \in 1..Len(f.value[i]) :
            \E k \in 1..Len(FlattenSeq(f.value)) : FlattenSeq(f.value)[k] = f.value[i][j]
      BY <1>1, FlattenContains
    <3> QED
      BY <2>2, <2>5, <3>1, Zenon
  <2>7. Len(parts) \in Nat
    BY <1>5, LenProperties
  <2> HIDE DEF parts
  <2> QED
    BY <2>6, <2>7
<1>7. \A l \in 1..Len(parts) : parts[l] \notin {"Host", "Content-Length", "Cache-Control"}
  <2>1. DOMAIN parts = 1..Len(parts)
    BY <1>5, LenProperties
  <2>2. ToSet(parts) \cap {"Host", "Content-Length", "Cache-Control"} = {}
    BY DEF Clean
  <2> HIDE DEF parts
  <2>3. \A l \in 1..Len(parts) : parts[l] \in ToSet(parts)
    BY <2>1 DEF ToSet
  <2> QED
    BY <2>2, <2>3
<1> QED
  BY <1>2, <1>4, <1>5, <1>6, <1>7

\* The fields of a plain request.
ReqFieldOk(f) ==
  /\ FieldOk(f) /\ Clean(f) /\ ~string_is_number(f.name)
  /\ \A l \in DOMAIN FlattenSeq(f.value) :
       string_is_number(FlattenSeq(f.value)[l]) => f.name = "Host" /\ l = 2

WithField(h, f) ==
  IF f.name # "Host" THEN h
  ELSE LET host == FlattenSeq(f.value)
       IN  [h EXCEPT !.host = host[1], !.port = HostPort(host, h.port)]

\* A field of a plain request changes the header by its host and its port, or not at all.
LEMMA ReqReadsField ==
  ASSUME NEW f, ReqFieldOk(f), NEW h \in ReqHeaders
  PROVE  /\ FlattenSeq(FieldWords(f)) \in Seq(Part)
         /\ WithField(h, f) \in ReqHeaders
         /\ ReqLoop(Awaits(h, "field"), FlattenSeq(FieldWords(f))) = Awaits(WithField(h, f), "field")
<1> DEFINE parts == FlattenSeq(f.value)
<1>1. /\ FlattenSeq(FieldWords(f)) = <<f.name>> \o parts
      /\ parts \in Seq(Part) /\ Len(parts) > 0 /\ Len(parts) \in Nat
      /\ \A l \in 1..Len(parts) : parts[l] # "Host" /\ parts[l] \in Part
      /\ f.name \in Part /\ ~string_is_number(f.name)
  <2>1. FieldOk(f) /\ Clean(f) /\ ~string_is_number(f.name) /\ f.name \in Part
    BY DEF ReqFieldOk, FieldOk, Field
  <2>2. /\ FlattenSeq(FieldWords(f)) = <<f.name>> \o parts
        /\ parts \in Seq(Part) /\ Len(parts) > 0
        /\ \A l \in 1..Len(parts) : parts[l] \notin {"Host", "Content-Length", "Cache-Control"}
    BY <2>1, CleanField
  <2> HIDE DEF parts
  <2> QED
    BY <2>1, <2>2, LenProperties, ElementOfSeq
<1>2. \A l \in 1..Len(parts) : string_is_number(parts[l]) => f.name = "Host" /\ l = 2
  <2>1. DOMAIN parts = 1..Len(parts)
    BY <1>1, LenProperties
  <2> QED
    BY <2>1 DEF ReqFieldOk
<1> HIDE DEF parts
<1>3. <<f.name>> \in Seq(Part) /\ <<f.name>> \o parts \in Seq(Part)
  <2>1. <<f.name>> \in Seq(Part)
    BY <1>1
  <2> QED
    BY <1>1, <2>1, ConcatProperties
<1>4. CASE f.name = "Host"
  <2>1. HostTokens(parts)
    BY <1>1, <1>2 DEF HostTokens
  <2>2. WithField(h, f) = [h EXCEPT !.host = parts[1], !.port = HostPort(parts, h.port)]
    BY <1>4 DEF WithField, parts
  <2>3. parts[1] \in Part
    BY <1>1
  <2>4. WithField(h, f) \in ReqHeaders
    <3>1. HostPort(parts, h.port) \in Nat
      BY AtoiType DEF ReqHeaders, HostPort
    <3> QED
      BY <2>2, <2>3, <3>1 DEF ReqHeaders
  <2>5. ReqLoop(Awaits(h, "field"), <<"Host">> \o parts)
          = Awaits([h EXCEPT !.host = parts[1], !.port = HostPort(parts, h.port)], "field")
    BY <2>1, ReqTakesHost
  <2> QED
    BY <1>1, <1>3, <1>4, <2>2, <2>4, <2>5
<1>5. CASE f.name # "Host"
  <2>1. WithField(h, f) = h
    BY <1>5 DEF WithField
  <2>2. parts \in Seq(Passed)
    <3>1. \A l \in 1..Len(parts) : parts[l] \in Passed
      BY <1>1, <1>2, <1>5 DEF Passed
    <3> QED
      BY <1>1, <3>1, IsASeq, LenProperties
  <2>3. <<f.name>> \in Seq(Passed)
    BY <1>1, <1>5 DEF Passed
  <2>4. <<f.name>> \o parts \in Seq(Passed)
    BY <2>2, <2>3, ConcatProperties
  <2> QED
    BY <1>1, <1>3, <2>1, <2>4, ReqPasses
<1> QED
  BY <1>4, <1>5

-------------------------------------------------------------------------------
\* The fields of a message, and the words of the first k of them.
FieldList(m) == [k \in 1..Len(m.fields) |-> FieldWords(m.fields[k])]
FirstFields(m, k) == FlattenSeq(SubSeq(FieldList(m), 1, k))
HeaderWords(m) == FlattenSeq(FieldList(m))

MessageOk(m) ==
  /\ m \in Message /\ Len(m.start) = 3
  /\ \A k \in 1..Len(m.fields) : FieldOk(m.fields[k])

\* The messages sent are messages with three words in front of their fields.
LEMMA MessagesAreOk == \A m \in Requests \cup Responses : MessageOk(m)
<1> SUFFICES ASSUME NEW m \in Requests \cup Responses PROVE MessageOk(m)
  OBVIOUS
<1>1. m \in Message /\ Len(m.start) = 3
  BY AssemblyAssumption
<1>2. m.fields \in Seq(Field)
  BY <1>1 DEF Message
<1>3. DOMAIN m.fields = 1..Len(m.fields)
  BY <1>2, LenProperties
<1>4. \A k \in 1..Len(m.fields) : m.fields[k].glued => m.fields[k].value # <<>>
  BY <1>3, AssemblyAssumption
<1>5. \A k \in 1..Len(m.fields) : m.fields[k] \in Field
  BY <1>2, ElementOfSeq
<1> QED
  BY <1>1, <1>4, <1>5 DEF MessageOk, FieldOk

\* The words of each field, and of all of them.
LEMMA FieldListType ==
  ASSUME NEW m, MessageOk(m)
  PROVE  /\ Len(m.fields) \in Nat /\ FieldList(m) \in Seq(Seq(Word))
         /\ Len(FieldList(m)) = Len(m.fields)
         /\ \A k \in 1..Len(m.fields) : FieldList(m)[k] = FieldWords(m.fields[k])
         /\ HeaderWords(m) \in Seq(Word)
<1>1. m.fields \in Seq(Field)
  BY DEF MessageOk, Message
<1>2. Len(m.fields) \in Nat
  BY <1>1, LenProperties
<1>3. \A k \in 1..Len(m.fields) : FieldWords(m.fields[k]) \in Seq(Word)
  BY FieldWordsType DEF MessageOk
<1>4. FieldList(m) \in Seq(Seq(Word)) /\ Len(FieldList(m)) = Len(m.fields)
  BY <1>2, <1>3, IsASeq DEF FieldList
<1>5. HeaderWords(m) \in Seq(Word)
  BY <1>4, FlattenProperties, EmptySeq DEF HeaderWords
<1> QED
  BY <1>2, <1>4, <1>5 DEF FieldList

\* The words of one field more.
LEMMA FieldByField ==
  ASSUME NEW m, MessageOk(m)
  PROVE  /\ FirstFields(m, 0) = <<>> /\ FirstFields(m, Len(m.fields)) = HeaderWords(m)
         /\ \A k \in 0..(Len(m.fields) - 1) :
              /\ FirstFields(m, k) \in Seq(Word) /\ FieldWords(m.fields[k + 1]) \in Seq(Word)
              /\ FirstFields(m, k + 1) = FirstFields(m, k) \o FieldWords(m.fields[k + 1])
<1> DEFINE n == Len(m.fields)
           fw == FieldList(m)
<1>1. /\ n \in Nat /\ fw \in Seq(Seq(Word)) /\ Len(fw) = n
      /\ \A k \in 1..n : fw[k] = FieldWords(m.fields[k])
  BY FieldListType
<1> HIDE DEF fw, n
<1>2. FlattenSeq(SubSeq(fw, 1, 0)) = <<>>
  <2>1. SubSeq(fw, 1, 0) = <<>>
    BY SubSeqEmpty
  <2> QED
    BY <2>1, FlattenEmpty
<1>3. FlattenSeq(SubSeq(fw, 1, n)) = FlattenSeq(fw)
  BY <1>1, SubSeqFull
<1>4. ASSUME NEW k \in 0..(n - 1)
      PROVE  /\ FlattenSeq(SubSeq(fw, 1, k)) \in Seq(Word) /\ fw[k + 1] \in Seq(Word)
             /\ FlattenSeq(SubSeq(fw, 1, k + 1)) = FlattenSeq(SubSeq(fw, 1, k)) \o fw[k + 1]
             /\ k + 1 \in 1..n
  <2> DEFINE ss == SubSeq(fw, 1, k)
             w == fw[k + 1]
  <2>1. ss \in Seq(Seq(Word)) /\ w \in Seq(Word) /\ SubSeq(fw, 1, k + 1) = ss \o <<w>>
    BY <1>1, PrefixProperties
  <2>2. k + 1 \in 1..n
    BY <1>1
  <2> HIDE DEF ss, w
  <2>3. FlattenSeq(ss) \in Seq(Word) /\ FlattenSeq(ss \o <<w>>) = FlattenSeq(ss) \o w
    BY <2>1, FlattenProperties
  <2> QED
    BY <2>1, <2>2, <2>3 DEF ss, w
<1> QED
  BY <1>1, <1>2, <1>3, <1>4 DEF FirstFields, HeaderWords, fw, n

\* The loop of parse_http_req over the fields of a plain request.
LEMMA ReqReadsFields ==
  ASSUME NEW m, MessageOk(m), \A k \in 1..Len(m.fields) : ReqFieldOk(m.fields[k]),
         NEW h \in ReqHeaders, NEW at \in 1..Len(m.fields),
         \A k \in 1..Len(m.fields) : m.fields[k].name = "Host" <=> k = at
  PROVE  /\ FlattenSeq(HeaderWords(m)) \in Seq(Part)
         /\ ReqLoop(Awaits(h, "field"), FlattenSeq(HeaderWords(m)))
              = Awaits(WithField(h, m.fields[at]), "field")
<1> DEFINE n == Len(m.fields)
           read(k) == FlattenSeq(FirstFields(m, k))
           parsed(k) == IF at <= k THEN WithField(h, m.fields[at]) ELSE h
           Ok == {k \in Nat : k <= n => /\ read(k) \in Seq(Part)
                                        /\ ReqLoop(Awaits(h, "field"), read(k))
                                             = Awaits(parsed(k), "field")}
<1>1. n \in Nat
  BY FieldListType
<1>2. /\ FirstFields(m, 0) = <<>> /\ FirstFields(m, n) = HeaderWords(m)
      /\ \A k \in 0..(n - 1) :
           /\ FirstFields(m, k) \in Seq(Word) /\ FieldWords(m.fields[k + 1]) \in Seq(Word)
           /\ FirstFields(m, k + 1) = FirstFields(m, k) \o FieldWords(m.fields[k + 1])
  BY FieldByField
<1>3. Awaits(h, "field") \in ReqStates
  BY DEF Awaits, ReqStates
<1>4. 0 \in Ok
  <2>1. read(0) = <<>>
    BY <1>2, FlattenEmpty
  <2>2. <<>> \in Seq(Part) /\ ReqLoop(Awaits(h, "field"), <<>>) = Awaits(h, "field")
    BY <1>3, ReqLoopSteps
  <2>3. ~(at <= 0)
    OBVIOUS
  <2> QED
    BY <2>1, <2>2, <2>3
<1>5. ASSUME NEW k \in Nat, k \in Ok PROVE k + 1 \in Ok
  <2> SUFFICES ASSUME k + 1 <= n
               PROVE  /\ read(k + 1) \in Seq(Part)
                      /\ ReqLoop(Awaits(h, "field"), read(k + 1)) = Awaits(parsed(k + 1), "field")
    OBVIOUS
  <2> DEFINE f == m.fields[k + 1]
             w == FlattenSeq(FieldWords(f))
  <2>1. k \in 0..(n - 1) /\ k + 1 \in 1..n /\ k <= n
    BY <1>1
  <2>2. /\ read(k) \in Seq(Part)
        /\ ReqLoop(Awaits(h, "field"), read(k)) = Awaits(parsed(k), "field")
    BY <1>5, <2>1
  <2>3. /\ FirstFields(m, k) \in Seq(Word) /\ FieldWords(f) \in Seq(Word)
        /\ FirstFields(m, k + 1) = FirstFields(m, k) \o FieldWords(f)
    BY <1>2, <2>1
  <2>4. read(k + 1) = read(k) \o w
    <3>1. FirstFields(m, k) \in Seq(Seq(Part)) /\ FieldWords(f) \in Seq(Seq(Part))
      BY <2>3, WordsAreParts
    <3> QED
      BY <2>3, <3>1, FlattenConcat
  <2>5. ReqFieldOk(f) /\ (f.name = "Host" <=> k + 1 = at)
    BY <2>1
  <2>6. parsed(k) \in ReqHeaders
    <3>1. WithField(h, m.fields[at]) \in ReqHeaders
      BY ReqReadsField
    <3> QED
      BY <3>1
  <2>7. /\ w \in Seq(Part)
        /\ ReqLoop(Awaits(parsed(k), "field"), w) = Awaits(WithField(parsed(k), f), "field")
    <3> HIDE DEF parsed, f
    <3> QED
      BY <2>5, <2>6, ReqReadsField
  <2>8. WithField(parsed(k), f) = parsed(k + 1)
    <3>1. CASE k + 1 = at
      <4>1. parsed(k) = h /\ parsed(k + 1) = WithField(h, f)
        BY <3>1
      <4> QED
        BY <4>1
    <3>2. CASE k + 1 # at
      <4>1. parsed(k + 1) = parsed(k)
        BY <3>2
      <4>2. f.name # "Host"
        BY <2>5, <3>2
      <4> QED
        BY <4>1, <4>2 DEF WithField
    <3> QED
      BY <3>1, <3>2
  <2> HIDE DEF read, parsed, f, w
  <2>9. ReqLoop(Awaits(h, "field"), read(k) \o w)
          = ReqLoop(ReqLoop(Awaits(h, "field"), read(k)), w)
    BY <1>3, <2>2, <2>7, ReqLoopSteps
  <2>10. read(k) \o w \in Seq(Part)
    BY <2>2, <2>7, ConcatProperties
  <2> QED
    BY <2>2, <2>4, <2>7, <2>8, <2>9, <2>10
<1> HIDE DEF Ok
<1>6. n \in Ok
  BY <1>1, <1>4, <1>5, EveryNumber
<1>7. parsed(n) = WithField(h, m.fields[at])
  BY <1>1
<1> QED
  BY <1>1, <1>2, <1>6, <1>7 DEF Ok

-------------------------------------------------------------------------------
\* Up to its blank line a message is its first line and its fields.
Head3(m) == m.start \o HeaderWords(m)
BlankAt(m) == Len(Head3(m)) + 1

\* The words of a message: header, blank line, body.
LEMMA WordsShape ==
  ASSUME NEW m, MessageOk(m)
  PROVE  /\ Head3(m) \in Seq(Word) /\ Len(Head3(m)) \in Nat /\ Len(m.body) \in Nat
         /\ m.body \in Seq(Seq(Part))
         /\ Len(Head3(m)) = 3 + Len(HeaderWords(m)) /\ Len(HeaderWords(m)) \in Nat
         /\ Words(m) = (Head3(m) \o <<Blank>>) \o m.body
         /\ Words(m) \in Seq(Seq(Part))
         /\ Len(Words(m)) = BlankAt(m) + Len(m.body)
         /\ \A k \in 1..Len(Head3(m)) : Words(m)[k] = Head3(m)[k] /\ Words(m)[k] # Blank
         /\ Words(m)[BlankAt(m)] = Blank
<1> DEFINE h == Head3(m)
           n == Len(h)
           b == m.body
           t == h \o <<Blank>>
<1>1. m.start \in Seq(Word) /\ HeaderWords(m) \in Seq(Word) /\ b \in Seq(Seq(Part))
  BY FieldListType DEF MessageOk, Message
<1>2. h \in Seq(Word) /\ Len(h) = Len(m.start) + Len(HeaderWords(m))
  BY <1>1, ConcatProperties DEF Head3
<1>3. Words(m) = t \o b
  BY DEF Words, Head3, HeaderWords, FieldList
<1>4. Len(HeaderWords(m)) \in Nat /\ n \in Nat /\ Len(b) \in Nat /\ n = 3 + Len(HeaderWords(m))
  BY <1>1, <1>2, LenProperties DEF MessageOk
<1> HIDE DEF h, b
<1>5. h \in Seq(Seq(Part)) /\ <<Blank>> \in Seq(Seq(Part)) /\ Blank \in Seq(Part)
  BY <1>2, WordsAreParts DEF Blank
<1>6. t = Append(h, Blank)
  BY <1>5, AppendIsConcat
<1>7. /\ t \in Seq(Seq(Part)) /\ Len(t) = n + 1 /\ t[n + 1] = Blank
      /\ \A k \in 1..n : t[k] = h[k]
  BY <1>5, <1>6, AppendProperties
<1> HIDE DEF t, n
<1>8. /\ t \o b \in Seq(Seq(Part)) /\ Len(t \o b) = Len(t) + Len(b)
      /\ \A k \in 1..(Len(t) + Len(b)) : (t \o b)[k] = IF k <= Len(t) THEN t[k] ELSE b[k - Len(t)]
  BY <1>1, <1>7, ConcatProperties
<1>9. (t \o b)[n + 1] = Blank
  <2>1. n + 1 \in 1..(Len(t) + Len(b)) /\ n + 1 <= Len(t)
    BY <1>4, <1>7
  <2> QED
    BY <1>7, <1>8, <2>1
<1>10. ASSUME NEW k \in 1..n PROVE (t \o b)[k] = h[k] /\ h[k] # Blank
  <2>1. k \in 1..(Len(t) + Len(b)) /\ k <= Len(t)
    BY <1>4, <1>7
  <2>2. h[k] \in Word
    BY <1>2, ElementOfSeq DEF n
  <2> QED
    BY <1>7, <1>8, <2>1, <2>2 DEF Word
<1> QED
  BY <1>1, <1>2, <1>3, <1>4, <1>7, <1>8, <1>9, <1>10 DEF h, b, t, n, BlankAt

\* Where the blank line is searched for.
LEMMA NoBlank ==
  ASSUME NEW s, Len(s) \in Nat, \A k \in 1..Len(s) : s[k] # Blank
  PROVE  HeaderEnd(s) = 0
BY DEF HeaderEnd, SelectInSeq

\* The first blank line is where the header ends.
LEMMA BlankFound ==
  ASSUME NEW s, Len(s) \in Nat, NEW at \in 1..Len(s), s[at] = Blank,
         \A k \in 1..(at - 1) : s[k] # Blank
  PROVE  HeaderEnd(s) = at
<1> DEFINE I == {k \in 1..Len(s) : s[k] = Blank}
<1>1. at \in I /\ I \subseteq Nat /\ I # {} /\ \A k \in I : at <= k
  OBVIOUS
<1>2. HeaderEnd(s) = Min(I)
  BY <1>1 DEF HeaderEnd, SelectInSeq
<1> HIDE DEF I
<1>3. Min(I) \in I /\ Min(I) <= at
  BY <1>1, FirstOf
<1> DEFINE found == Min(I)
<1>4. found \in Nat /\ at \in Nat /\ at <= found /\ found <= at
  BY <1>1, <1>3
<1> HIDE DEF found
<1>5. found = at
  BY <1>4
<1> QED
  BY <1>2, <1>5 DEF found

\* No word of a header is empty.
LEMMA NonblankWords ==
  ASSUME NEW s \in Seq(Word)
  PROVE  Nonblank(s \o <<Blank>>) = s
<1> DEFINE single(w) == IF w = Blank THEN <<>> ELSE <<w>>
           singles(t) == [k \in 1..Len(t) |-> single(t[k])]
<1>0. \A w \in Seq(Part) : single(w) \in Seq(Seq(Part))
  OBVIOUS
<1>1. ASSUME NEW t \in Seq(Seq(Part)), NEW w \in Seq(Part)
      PROVE  Nonblank(t \o <<w>>) = Nonblank(t) \o single(w)
  <2> DEFINE u == t \o <<w>>
  <2>1. u \in Seq(Seq(Part)) /\ Len(u) = Len(t) + 1 /\ u[Len(t) + 1] = w
        /\ \A k \in 1..Len(t) : u[k] = t[k]
    <3>1. u = Append(t, w)
      BY AppendIsConcat
    <3> QED
      BY <3>1, AppendProperties
  <2>2. Len(t) \in Nat
    BY LenProperties
  <2> HIDE DEF u
  <2>3. \A k \in 1..Len(t) : t[k] \in Seq(Part)
    BY ElementOfSeq
  <2>4. singles(t) \in Seq(Seq(Seq(Part))) /\ Len(singles(t)) = Len(t)
    <3>1. \A k \in 1..Len(t) : single(t[k]) \in Seq(Seq(Part))
      BY <1>0, <2>3
    <3> HIDE DEF single
    <3> QED
      BY <2>2, <3>1, IsASeq
  <2>5. singles(u) \in Seq(Seq(Seq(Part))) /\ Len(singles(u)) = Len(t) + 1
    <3>1. \A k \in 1..Len(u) : single(u[k]) \in Seq(Seq(Part))
      <4>1. \A k \in 1..Len(u) : u[k] \in Seq(Part)
        BY <2>1, ElementOfSeq
      <4> QED
        BY <1>0, <4>1
    <3>2. Len(u) \in Nat
      BY <2>1, <2>2
    <3> HIDE DEF single
    <3> QED
      BY <2>1, <3>1, <3>2, IsASeq
  <2>6. single(w) \in Seq(Seq(Part))
    BY <1>0
  <2> HIDE DEF single
  <2>7. singles(u) = singles(t) \o <<single(w)>>
    <3> DEFINE v == singles(t) \o <<single(w)>>
    <3>1. /\ v \in Seq(Seq(Seq(Part))) /\ Len(v) = Len(t) + 1 /\ v[Len(t) + 1] = single(w)
          /\ \A k \in 1..Len(t) : v[k] = singles(t)[k]
      <4> DEFINE e == single(w)
                 q == singles(t)
                 W == Seq(Seq(Part))
      <4>1. q \in Seq(W) /\ e \in W /\ Len(q) = Len(t)
        BY <2>4, <2>6
      <4> HIDE DEF e, q, W
      <4>3. /\ q \o <<e>> \in Seq(W) /\ Len(q \o <<e>>) = Len(q) + 1
            /\ (q \o <<e>>)[Len(q) + 1] = e
            /\ \A k \in 1..Len(q) : (q \o <<e>>)[k] = q[k]
        BY <4>1, OneMore
      <4> QED
        BY <4>1, <4>3 DEF e, q, W
    <3> HIDE DEF v
    <3>2. ASSUME NEW k \in 1..(Len(t) + 1) PROVE singles(u)[k] = v[k]
      <4>1. singles(u)[k] = single(u[k])
        BY <2>1
      <4>2. CASE k = Len(t) + 1
        BY <2>1, <3>1, <4>1, <4>2
      <4>3. CASE k # Len(t) + 1
        <5>1. k \in 1..Len(t)
          BY <2>2, <4>3
        <5>2. singles(t)[k] = single(t[k])
          BY <5>1
        <5> QED
          BY <2>1, <3>1, <4>1, <5>1, <5>2
      <4> QED
        BY <4>2, <4>3
    <3> HIDE DEF singles
    <3>3. singles(u) = v
      BY <2>5, <3>1, <3>2, SeqEqual
    <3> QED
      BY <3>3 DEF v
  <2> HIDE DEF singles
  <2>8. FlattenSeq(singles(t) \o <<single(w)>>) = FlattenSeq(singles(t)) \o single(w)
    BY <2>4, <2>6, FlattenProperties
  <2>9. \A q : Nonblank(q) = FlattenSeq(singles(q))
    BY DEF Nonblank, singles, single
  <2> QED
    BY <2>7, <2>8, <2>9 DEF u
<1>2. Nonblank(<<>>) = <<>>
  <2>1. singles(<<>>) = <<>>
    OBVIOUS
  <2> QED
    BY <2>1, FlattenEmpty DEF Nonblank
<1> DEFINE P == {t \in Seq(Word) : Nonblank(t) = t}
<1>3. <<>> \in P
  BY <1>2
<1>4. ASSUME NEW t \in Seq(Word), NEW w \in Word, t \in P PROVE t \o <<w>> \in P
  <2>1. t \in Seq(Seq(Part)) /\ w \in Seq(Part) /\ w # Blank
    BY WordsAreParts DEF Word
  <2>2. Nonblank(t \o <<w>>) = Nonblank(t) \o single(w)
    BY <1>1, <2>1
  <2>3. t \o <<w>> \in Seq(Word)
    <3>1. <<w>> \in Seq(Word)
      OBVIOUS
    <3> QED
      BY <3>1, ConcatProperties
  <2> QED
    BY <1>4, <2>1, <2>2, <2>3
<1> HIDE DEF P
<1>5. s \in P
  BY <1>3, <1>4, EverySequence
<1>6. s \in Seq(Seq(Part)) /\ Blank \in Seq(Part)
  BY WordsAreParts DEF Blank
<1>7. Nonblank(s \o <<Blank>>) = Nonblank(s) \o <<>>
  BY <1>1, <1>6
<1> QED
  BY <1>5, <1>7, ConcatEmptySeq DEF P

\* The value of a field that occurs once, or not at all.
LEMMA ValueAt ==
  ASSUME NEW m, MessageOk(m), NEW name, NEW at \in 1..Len(m.fields),
         \A k \in 1..Len(m.fields) : m.fields[k].name = name <=> k = at
  PROVE  ValueOf(m, name) = m.fields[at].value
<1> DEFINE I == {k \in 1..Len(m.fields) : m.fields[k].name = name}
           found == Min(I)
<1>0. Len(m.fields) \in Nat
  BY FieldListType
<1>1. I = {at} /\ I \subseteq Nat /\ I # {}
  BY <1>0
<1>2. SelectInSeq(m.fields, LAMBDA f : f.name = name) = found
  BY <1>1 DEF SelectInSeq
<1> HIDE DEF I
<1>3. found = at
  BY <1>1, FirstOf
<1>4. found # 0
  BY <1>0, <1>3
<1> HIDE DEF found
<1> QED
  BY <1>2, <1>3, <1>4 DEF ValueOf

\* The value of a field that does not occur is the default.
LEMMA NoValue ==
  ASSUME NEW m, NEW name, \A k \in 1..Len(m.fields) : m.fields[k].name # name
  PROVE  ValueOf(m, name) = <<>>
<1>1. SelectInSeq(m.fields, LAMBDA f : f.name = name) = 0
  BY DEF SelectInSeq
<1> QED
  BY <1>1 DEF ValueOf

\* The tokens that follow the first line, when there is a field and the first is clean.
LEMMA TokensOf ==
  ASSUME NEW m, MessageOk(m), Len(m.fields) > 0, Clean(m.fields[1])
  PROVE  /\ Len(HeaderWords(m)) > 0
         /\ Head3(m)[1] = m.start[1] /\ Head3(m)[2] = m.start[2]
         /\ <<Uncut(Head3(m)[4])>> \o FlattenSeq(SubSeq(Head3(m), 5, Len(Head3(m))))
              = FlattenSeq(HeaderWords(m))
<1> DEFINE fw == FieldList(m)
           f == m.fields[1]
           w == <<f.name>>
           R == FlattenSeq(SubSeq(fw, 2, Len(fw)))
           X == f.value \o R
           H == HeaderWords(m)
<1>1. /\ fw \in Seq(Seq(Word)) /\ Len(fw) = Len(m.fields) /\ Len(fw) \in Nat
      /\ 1 \in 1..Len(fw) /\ fw[1] = FieldWords(f)
  BY FieldListType
<1>2. FieldOk(f) /\ Clean(f)
  BY <1>1 DEF MessageOk
<1>3. /\ fw[1] = <<w>> \o f.value /\ f.value \in Seq(Word) /\ w \in Word /\ w \in Seq(Part)
      /\ f.name \in Part
  <2>1. f.name \in Part /\ f.value \in Seq(Word)
    BY <1>2 DEF FieldOk, Field
  <2>2. w \in Seq(Part) /\ w # Blank
    BY <2>1 DEF Blank
  <2>3. FieldWords(f) = <<w>> \o f.value
    BY <1>2, CleanField
  <2> QED
    BY <1>1, <2>1, <2>2, <2>3 DEF Word
<1>4. fw = <<fw[1]>> \o SubSeq(fw, 2, Len(fw)) /\ SubSeq(fw, 2, Len(fw)) \in Seq(Seq(Word))
  <2> DEFINE W == Seq(Word)
  <2>1. fw \in Seq(W)
    BY <1>1
  <2> HIDE DEF fw, W
  <2>2. SubSeq(fw, 1, Len(fw)) = fw
    BY <2>1, SubSeqFull
  <2>3. Len(fw) \in 1..Len(fw)
    BY <1>1
  <2>4. SubSeq(fw, 1, Len(fw)) = <<fw[1]>> \o SubSeq(fw, 1 + 1, Len(fw))
    BY <1>1, <2>1, <2>3, SubSeqRecursiveFirst
  <2>5. \A k \in 2..Len(fw) : fw[k] \in W
    BY <2>1, ElementOfSeq
  <2>6. SubSeq(fw, 2, Len(fw)) \in Seq(W)
    BY <1>1, <2>5, SubSeqProperties
  <2> QED
    BY <2>2, <2>4, <2>6 DEF W
<1>5. H = fw[1] \o R /\ R \in Seq(Word)
  <2> DEFINE rest == SubSeq(fw, 2, Len(fw))
             first == fw[1]
  <2>1. first \in Seq(Word) /\ rest \in Seq(Seq(Word)) /\ fw = <<first>> \o rest
    BY <1>1, <1>4, ElementOfSeq
  <2> HIDE DEF rest, first, fw
  <2>2. FlattenSeq(<<first>> \o rest) = first \o FlattenSeq(rest)
    BY <2>1, FlattenFirst
  <2>3. FlattenSeq(rest) \in Seq(Word)
    BY <2>1, FlattenProperties, EmptySeq
  <2> QED
    BY <2>1, <2>2, <2>3 DEF HeaderWords, fw, rest, first
<1>6. H = <<w>> \o X /\ X \in Seq(Word)
  <2> DEFINE v == f.value
             n == <<w>>
  <2>1. n \in Seq(Word) /\ v \in Seq(Word) /\ R \in Seq(Word)
    BY <1>3, <1>5
  <2> HIDE DEF v, n, R
  <2>2. (n \o v) \o R = n \o (v \o R)
    BY <2>1, ConcatAssociative
  <2>3. v \o R \in Seq(Word)
    BY <2>1, ConcatProperties
  <2> QED
    BY <1>3, <1>5, <2>2, <2>3 DEF v, n
<1> HIDE DEF fw, f, R, X, H
<1>7. m.start \in Seq(Word) /\ Len(m.start) = 3 /\ Head3(m) = m.start \o H
  BY DEF MessageOk, Message, Head3, H
<1> DEFINE s == m.start
           n == <<w>>
<1>8. n \in Seq(Word) /\ Len(n) = 1 /\ n[1] = w
  BY <1>3
<1>9. Len(X) \in Nat
  BY <1>6, LenProperties
<1>10. w[1] = f.name /\ Len(w) = 1
  OBVIOUS
<1> HIDE DEF s, n, w
<1>11. H = n \o X /\ s \in Seq(Word) /\ Len(s) = 3 /\ Head3(m) = s \o H
  BY <1>6, <1>7 DEF n, s
<1>12. /\ H \in Seq(Word) /\ Len(H) = 1 + Len(X) /\ H[1] = w
  <2>1. /\ n \o X \in Seq(Word) /\ Len(n \o X) = Len(n) + Len(X)
        /\ \A i \in 1..(Len(n) + Len(X)) : (n \o X)[i] = IF i <= Len(n) THEN n[i] ELSE X[i - Len(n)]
    BY <1>6, <1>8, ConcatProperties
  <2>2. 1 \in 1..(Len(n) + Len(X)) /\ 1 <= Len(n)
    BY <1>8, <1>9
  <2> QED
    BY <1>8, <1>11, <2>1, <2>2
<1>13. /\ s \o H \in Seq(Word) /\ Len(s \o H) = 4 + Len(X)
       /\ (s \o H)[1] = s[1] /\ (s \o H)[2] = s[2] /\ (s \o H)[4] = w
  <2>1. /\ s \o H \in Seq(Word) /\ Len(s \o H) = Len(s) + Len(H)
        /\ \A i \in 1..(Len(s) + Len(H)) : (s \o H)[i] = IF i <= Len(s) THEN s[i] ELSE H[i - Len(s)]
    <3>1. s \in Seq(Word) /\ H \in Seq(Word)
      BY <1>11, <1>12
    <3> QED
      BY <3>1, ConcatProperties
  <2>2. /\ 1 \in 1..(Len(s) + Len(H)) /\ 1 <= Len(s)
        /\ 2 \in 1..(Len(s) + Len(H)) /\ 2 <= Len(s)
        /\ 4 \in 1..(Len(s) + Len(H)) /\ ~(4 <= Len(s)) /\ 4 - Len(s) = 1
        /\ Len(s) + Len(H) = 4 + Len(X)
    BY <1>9, <1>11, <1>12
  <2> QED
    BY <1>12, <2>1, <2>2
<1>14. SubSeq(s \o H, 5, Len(s \o H)) = X
  <2>1. s \o n \in Seq(Word) /\ Len(s \o n) = 4 /\ s \o H = (s \o n) \o X
    <3>1. s \o n \in Seq(Word) /\ Len(s \o n) = Len(s) + Len(n)
      BY <1>8, <1>11, ConcatProperties
    <3>2. (s \o n) \o X = s \o (n \o X)
      <4>1. s \in Seq(Word) /\ n \in Seq(Word) /\ X \in Seq(Word)
        BY <1>6, <1>8, <1>11
      <4> QED
        BY <4>1, ConcatAssociative
    <3> QED
      BY <1>8, <1>11, <3>1, <3>2
  <2> DEFINE sn == s \o n
             e == <<>>
             t == sn \o X
  <2>2. e \in Seq(Word)
    OBVIOUS
  <2>3. t \in Seq(Word) /\ t \o e = t
    BY <1>6, <2>1, ConcatProperties, ConcatEmptySeq
  <2>4. Len(sn) = 4 /\ sn \in Seq(Word)
    BY <2>1
  <2> HIDE DEF sn, e
  <2>5. SubSeq((sn \o X) \o e, Len(sn) + 1, Len(sn) + Len(X)) = X
    BY <1>6, <2>2, <2>4, MiddleOf
  <2>6. 4 + 1 = 5
    OBVIOUS
  <2> HIDE DEF t
  <2>7. SubSeq(t, 5, 4 + Len(X)) = X
    BY <2>3, <2>4, <2>5, <2>6 DEF t
  <2> QED
    BY <1>13, <2>1, <2>7 DEF sn, t
<1>15. FlattenSeq(H) = w \o FlattenSeq(X)
  <2>1. X \in Seq(Seq(Part)) /\ w \in Seq(Part)
    BY <1>3, <1>6, WordsAreParts
  <2>2. FlattenSeq(<<w>> \o X) = w \o FlattenSeq(X)
    BY <2>1, FlattenFirst
  <2> QED
    BY <1>11, <2>2 DEF n
<1>16. <<Uncut(w)>> = w
  <2>1. Uncut(w) = w[1]
    BY <1>10 DEF Uncut
  <2> QED
    BY <1>10, <2>1 DEF w
<1>17. Head3(m) = s \o H
  BY <1>11
<1>18. <<Uncut((s \o H)[4])>> \o FlattenSeq(SubSeq(s \o H, 5, Len(s \o H))) = FlattenSeq(H)
  BY <1>13, <1>14, <1>15, <1>16
<1>19. Len(H) > 0
  BY <1>9, <1>12
<1> QED
  BY <1>13, <1>17, <1>18, <1>19 DEF H, s

\* What a plain request is made of.
LEMMA PlainRequests ==
  ASSUME NEW m \in Requests, Plain(m)
  PROVE  /\ MessageOk(m) /\ m.body = <<>>
         /\ \A k \in 1..Len(m.fields) : ReqFieldOk(m.fields[k])
         /\ \E at \in 1..Len(m.fields) : \A k \in 1..Len(m.fields) :
              m.fields[k].name = "Host" <=> k = at
         /\ Len(Words(m)) <= StackSize
<1>1. MessageOk(m)
  BY MessagesAreOk
<1>2. DOMAIN m.fields = 1..Len(m.fields)
  <2>1. m.fields \in Seq(Field)
    BY <1>1 DEF MessageOk, Message
  <2> QED
    BY <2>1, LenProperties
<1>3. PlainRequest(m) /\ \A k \in 1..Len(m.fields) : Clean(m.fields[k])
  BY <1>2 DEF Plain
<1>4. m.body = <<>>
  BY <1>3 DEF PlainRequest
<1>5. \A k \in 1..Len(m.fields) : ReqFieldOk(m.fields[k])
  BY <1>1, <1>2, <1>3 DEF PlainRequest, ReqFieldOk, MessageOk
<1>6. \E at \in 1..Len(m.fields) : \A k \in 1..Len(m.fields) : m.fields[k].name = "Host" <=> k = at
  BY <1>2, <1>3 DEF PlainRequest, Once
<1>7. Len(Words(m)) <= StackSize
  BY <1>3 DEF PlainRequest
<1> QED
  BY <1>1, <1>4, <1>5, <1>6, <1>7

\* A plain request that has arrived is parsed to what was meant.
LEMMA ParsesRequest ==
  ASSUME NEW m \in Requests, Plain(m)
  PROVE  /\ parse_http_req(Words(m)) = ExpectedRequest(m)
         /\ ExpectedRequest(m) \in ReqHeaders
<1>1. /\ MessageOk(m) /\ m.body = <<>>
      /\ \A k \in 1..Len(m.fields) : ReqFieldOk(m.fields[k])
  BY PlainRequests
<1>2. PICK at \in 1..Len(m.fields) : \A k \in 1..Len(m.fields) :
        m.fields[k].name = "Host" <=> k = at
  BY PlainRequests
<1> DEFINE f == m.fields[at]
           words == Head3(m)
           host == FlattenSeq(f.value)
           h0 == new_req_head(m.start[1], m.start[2])
           h1 == WithField(h0, f)
<1>3. /\ Len(m.fields) \in Nat /\ Len(m.fields) > 0 /\ 1 \in 1..Len(m.fields)
      /\ m.start \in Seq(Word) /\ Len(m.start) = 3
  BY <1>1, FieldListType DEF MessageOk, Message
<1>4. Clean(m.fields[1])
  BY <1>1, <1>3 DEF ReqFieldOk
<1>5. /\ Len(HeaderWords(m)) > 0 /\ words[1] = m.start[1] /\ words[2] = m.start[2]
      /\ <<Uncut(words[4])>> \o FlattenSeq(SubSeq(words, 5, Len(words))) = FlattenSeq(HeaderWords(m))
  BY <1>1, <1>3, <1>4, TokensOf
<1>6. /\ words \in Seq(Word) /\ Len(words) \in Nat
      /\ Len(words) = 3 + Len(HeaderWords(m)) /\ Len(HeaderWords(m)) \in Nat
      /\ Words(m) = (words \o <<Blank>>) \o m.body
      /\ Words(m) \in Seq(Seq(Part)) /\ Len(Words(m)) = BlankAt(m) + Len(m.body)
      /\ \A k \in 1..Len(words) : Words(m)[k] # Blank
      /\ Words(m)[BlankAt(m)] = Blank
      /\ BlankAt(m) = Len(words) + 1 /\ Len(m.body) \in Nat
  BY <1>1, WordsShape DEF BlankAt
<1> HIDE DEF words
<1>7. Nonblank(Words(m)) = words
  <2>1. words \o <<Blank>> \in Seq(Seq(Part))
    <3>1. words \in Seq(Seq(Part)) /\ <<Blank>> \in Seq(Seq(Part))
      BY <1>6, WordsAreParts DEF Blank
    <3> QED
      BY <3>1, ConcatProperties
  <2>2. Words(m) = words \o <<Blank>>
    BY <1>1, <1>6, <2>1, ConcatEmptySeq
  <2> QED
    BY <1>6, <2>2, NonblankWords
<1>8. HeaderEnd(Words(m)) = BlankAt(m) /\ BlankAt(m) # 0
  <2> DEFINE t == Words(m)
             at3 == BlankAt(m)
             n == Len(words)
             b == Len(m.body)
             l == Len(t)
  <2>1. n \in Nat /\ b \in Nat /\ at3 = n + 1 /\ l = at3 + b /\ t[at3] = Blank
        /\ \A k \in 1..n : t[k] # Blank
    BY <1>6
  <2> HIDE DEF t, at3, n, b, l
  <2>2. at3 \in 1..l /\ at3 - 1 = n /\ l \in Nat /\ at3 # 0
    BY <2>1
  <2>3. HeaderEnd(t) = at3
    BY <2>1, <2>2, BlankFound DEF l
  <2> QED
    BY <2>2, <2>3 DEF t, at3
<1>9. ~(Len(words) < 4) /\ ~(Len(words) < 3)
  BY <1>5, <1>6
<1>10. h0 \in ReqHeaders
  <2>1. m.start[1] \in Word /\ m.start[2] \in Word
    BY <1>3, ElementOfSeq
  <2> QED
    BY <2>1 DEF new_req_head, ReqHeaders
<1>11. ReqFieldOk(f) /\ f.name = "Host"
  BY <1>1, <1>2
<1>12. h1 \in ReqHeaders
  <2> HIDE DEF h0, f
  <2> QED
    BY <1>10, <1>11, ReqReadsField
<1>13. host[1] \in Part
  <2>1. host \in Seq(Part) /\ Len(host) > 0 /\ Len(host) \in Nat
    BY <1>11, CleanField, LenProperties DEF ReqFieldOk
  <2> HIDE DEF host
  <2> QED
    BY <2>1, ElementOfSeq
<1>14. /\ h1 = [h0 EXCEPT !.host = host[1], !.port = HostPort(host, h0.port)]
       /\ h1.host = host[1] /\ h1.host # ""
  <2>1. h1 = [h0 EXCEPT !.host = host[1], !.port = HostPort(host, h0.port)]
    BY <1>11 DEF WithField
  <2>2. h1.host = host[1]
    BY <1>10, <2>1 DEF ReqHeaders
  <2> QED
    BY <1>13, <2>1, <2>2, AssemblyAssumption
<1>15. ReqFields(h0, FlattenSeq(HeaderWords(m))) = h1
  <2>1. ReqLoop(Awaits(h0, "field"), FlattenSeq(HeaderWords(m))) = Awaits(h1, "field")
    <3> HIDE DEF h0
    <3> QED
      BY <1>1, <1>2, <1>10, ReqReadsFields
  <2>2. Awaits(h1, "field").next # "host" /\ Awaits(h1, "field").header = h1
    BY DEF Awaits
  <2> HIDE DEF h1, h0
  <2> QED
    BY <2>1, <2>2 DEF ReqFields
<1>16. parse_http_req(Words(m)) = h1
  <2>1. h0 = new_req_head(words[1], words[2])
    BY <1>5
  <2>2. ~(Len(Words(m)) > StackSize)
    <3>1. Len(Words(m)) <= StackSize
      BY PlainRequests
    <3>2. Len(Words(m)) \in Nat /\ StackSize \in Nat
      BY <1>6, LenProperties, ParsersAssumption
    <3> DEFINE l == Len(Words(m))
    <3> HIDE DEF l
    <3>3. l <= StackSize /\ l \in Nat
      BY <3>1, <3>2 DEF l
    <3>4. ~(l > StackSize)
      BY <3>2, <3>3
    <3> QED
      BY <3>4 DEF l
  <2> HIDE DEF h1, h0
  <2> QED
    BY <1>5, <1>7, <1>8, <1>9, <1>14, <1>15, <2>1, <2>2 DEF parse_http_req
<1>17. ExpectedRequest(m) = h1
  <2>1. ValueOf(m, "Host") = f.value
    BY <1>1, <1>2, ValueAt
  <2>2. h1 = [method |-> m.start[1], url |-> m.start[2], host |-> host[1],
              port |-> HostPort(host, 80)]
    <3>1. h0 = [method |-> m.start[1], url |-> m.start[2], host |-> "", port |-> 80]
      BY DEF new_req_head
    <3>2. h1 = [h0 EXCEPT !.host = host[1], !.port = HostPort(host, h0.port)]
      BY <1>14
    <3> HIDE DEF h1, h0, host
    <3> QED
      BY <3>1, <3>2
  <2> HIDE DEF h1, f
  <2> QED
    BY <2>1, <2>2 DEF ExpectedRequest, HostPort
<1> QED
  BY <1>12, <1>16, <1>17

-------------------------------------------------------------------------------
\* Where the loop of parse_http_res may be.
ResHeaders == [max_age : Nat, header_length : Int, content_length : Int]
ResStates == [header : ResHeaders, next : {"field", "length", "directive", "age"}]
ResTurns == [x \in ResStates \X Word |-> ResTurn(x[1], x[2])]

\* FieldTurn keeps the header typed.
LEMMA FieldTurnType ==
  ASSUME NEW h \in ResHeaders, NEW word PROVE FieldTurn(h, word) \in ResStates
<1>1. \A what \in {"field", "length", "directive", "age"} : Awaits(h, what) \in ResStates
  BY DEF Awaits, ResStates
<1> QED
  BY <1>1 DEF FieldTurn

\* AgeTurn keeps the header typed.
LEMMA AgeTurnType ==
  ASSUME NEW h \in ResHeaders, NEW word PROVE AgeTurn(h, word) \in ResStates
<1>1. Awaits(h, "age") \in ResStates
  BY DEF Awaits, ResStates
<1>2. [h EXCEPT !.max_age = atoi(word[1])] \in ResHeaders
  BY AtoiType DEF ResHeaders
<1>3. FieldTurn([h EXCEPT !.max_age = atoi(word[1])], AfterPart(word)) \in ResStates
  BY <1>2, FieldTurnType
<1> QED
  BY <1>1, <1>3 DEF AgeTurn

\* A turn of the loop over the words of a response keeps its header typed.
LEMMA ResTurnType ==
  ASSUME NEW s \in ResStates, NEW word PROVE ResTurn(s, word) \in ResStates
<1>1. s.header \in ResHeaders /\ s.next \in {"field", "length", "directive", "age"}
  BY DEF ResStates
<1>2. [s.header EXCEPT !.content_length = atoi(word[1])] \in ResHeaders
  <2>1. atoi(word[1]) \in Int
    BY AtoiType
  <2> QED
    BY <1>1, <2>1 DEF ResHeaders
<1>3. Awaits([s.header EXCEPT !.content_length = atoi(word[1])], "field") \in ResStates
  BY <1>2 DEF Awaits, ResStates
<1>4. CASE s.next = "field"
  <2>1. ResTurn(s, word) = FieldTurn(s.header, word)
    BY <1>4 DEF ResTurn
  <2> QED
    BY <1>1, <2>1, FieldTurnType
<1>5. CASE s.next = "length"
  <2>1. ResTurn(s, word) = Awaits([s.header EXCEPT !.content_length = atoi(word[1])], "field")
    BY <1>5 DEF ResTurn
  <2> QED
    BY <1>3, <2>1
<1>6. CASE s.next = "directive"
  <2>1. ResTurn(s, word) \in {AgeTurn(s.header, AfterPart(word)), FieldTurn(s.header, AfterPart(word))}
    BY <1>6 DEF ResTurn
  <2> QED
    BY <1>1, <2>1, FieldTurnType, AgeTurnType
<1>7. CASE s.next = "age"
  <2>1. ResTurn(s, word) = AgeTurn(s.header, word)
    BY <1>7 DEF ResTurn
  <2> QED
    BY <1>1, <2>1, AgeTurnType
<1> QED
  BY <1>1, <1>4, <1>5, <1>6, <1>7

\* The turns as a function, for the lemmas about loops.
LEMMA ResTurnsType ==
  /\ Turns(ResTurns, ResStates, Word)
  /\ \A s \in ResStates, word \in Word : ResTurns[<<s, word>>] = ResTurn(s, word)
BY ResTurnType DEF Turns, ResTurns

\* ResFields is the loop that carries ResTurn over the words, from any state it may be in.
LEMMA ResLoopIsCarried ==
  ASSUME NEW s \in ResStates, NEW words \in Seq(Word)
  PROVE  ResLoop(s, words) = Carried(ResTurns, s, words)
<1> DEFINE n == Len(words)
<1>0. n \in Nat /\ 0 \in 0..n /\ n \in 0..n
  BY LenProperties
<1>1. PICK f \in [0..n -> ResStates] :
        Carries(f, ResTurns, s, words) /\ Carried(ResTurns, s, words) = f[n]
  BY ResTurnsType, CarriedUnfolds
<1> DEFINE Eqn(g) == g = [k \in 0..n |-> IF k = 0 THEN s ELSE ResTurn(g[k - 1], words[k])]
           h == CHOOSE g : Eqn(g)
<1>2. ResLoop(s, words) = h[n]
  BY DEF ResLoop
<1>3. Eqn(f)
  <2>1. ASSUME NEW k \in 0..n
        PROVE  f[k] = IF k = 0 THEN s ELSE ResTurn(f[k - 1], words[k])
    <3>1. CASE k = 0
      BY <1>1, <3>1 DEF Carries
    <3>2. CASE k # 0
      <4>1. k \in 1..n /\ f[k - 1] \in ResStates /\ words[k] \in Word
        BY <1>0, <3>2, ElementOfSeq
      <4>2. f[k] = ResTurns[<<f[k - 1], words[k]>>]
        BY <1>1, <4>1 DEF Carries
      <4> QED
        BY <3>2, <4>1, <4>2, ResTurnsType
    <3> QED
      BY <3>1, <3>2
  <2> QED
    BY <2>1
<1>4. Eqn(h)
  <2> HIDE DEF Eqn
  <2> QED
    BY <1>3, Zenon DEF h
<1> HIDE DEF h
<1>5. /\ \A k \in 0..n : h[k] = IF k = 0 THEN s ELSE ResTurn(h[k - 1], words[k])
      /\ \A k \in 0..n : f[k] = IF k = 0 THEN s ELSE ResTurn(f[k - 1], words[k])
  BY <1>3, <1>4
<1> HIDE DEF Eqn, n
<1> DEFINE Same == {k \in Nat : k <= n => h[k] = f[k]}
<1>6. 0 \in Same
  BY <1>0, <1>5
<1>7. ASSUME NEW k \in Nat, k \in Same PROVE k + 1 \in Same
  <2> SUFFICES ASSUME k + 1 <= n PROVE h[k + 1] = f[k + 1]
    OBVIOUS
  <2>1. k + 1 \in 0..n /\ k + 1 # 0 /\ (k + 1) - 1 = k /\ k <= n
    BY <1>0
  <2>2. h[k] = f[k]
    BY <1>7, <2>1
  <2>3. h[k + 1] = ResTurn(h[(k + 1) - 1], words[k + 1])
    BY <1>5, <2>1
  <2>4. f[k + 1] = ResTurn(f[(k + 1) - 1], words[k + 1])
    BY <1>5, <2>1
  <2> QED
    BY <2>1, <2>2, <2>3, <2>4
<1> HIDE DEF Same
<1>8. n \in Same
  BY <1>0, <1>6, <1>7, EveryNumber
<1> QED
  BY <1>0, <1>1, <1>2, <1>8 DEF Same

\* The loop over the words of a response, word by word and part by part.
LEMMA ResLoopSteps ==
  ASSUME NEW s \in ResStates
  PROVE  /\ ResLoop(s, <<>>) = s
         /\ \A words \in Seq(Word) : ResLoop(s, words) \in ResStates
         /\ \A words \in Seq(Word), word \in Word :
              ResLoop(s, words \o <<word>>) = ResTurn(ResLoop(s, words), word)
         /\ \A a, b \in Seq(Word) : ResLoop(s, a \o b) = ResLoop(ResLoop(s, a), b)
<1>1. \A t \in ResStates, words \in Seq(Word) : ResLoop(t, words) = Carried(ResTurns, t, words)
  BY ResLoopIsCarried
<1>2. Turns(ResTurns, ResStates, Word)
  BY ResTurnsType
<1>3. ResLoop(s, <<>>) = s
  <2>1. <<>> \in Seq(Word)
    OBVIOUS
  <2>2. Carried(ResTurns, s, <<>>) = s
    BY <1>2, CarriedEmpty
  <2> QED
    BY <1>1, <2>1, <2>2, Zenon
<1>4. \A words \in Seq(Word) : ResLoop(s, words) \in ResStates
  <2> SUFFICES ASSUME NEW words \in Seq(Word) PROVE ResLoop(s, words) \in ResStates
    OBVIOUS
  <2>1. PICK f \in [0..Len(words) -> ResStates] : Carried(ResTurns, s, words) = f[Len(words)]
    BY <1>2, CarriedUnfolds
  <2>2. Len(words) \in 0..Len(words)
    BY LenProperties
  <2>3. ResLoop(s, words) = f[Len(words)]
    BY <1>1, <2>1
  <2> QED
    BY <2>2, <2>3
<1>5. ASSUME NEW words \in Seq(Word), NEW word \in Word
      PROVE  ResLoop(s, words \o <<word>>) = ResTurn(ResLoop(s, words), word)
  <2>1. /\ words \o <<word>> \in Seq(Word)
        /\ Carried(ResTurns, s, words \o <<word>>)
             = ResTurns[<<Carried(ResTurns, s, words), word>>]
    BY <1>2, CarriedAppend
  <2>2. ResLoop(s, words \o <<word>>) = ResTurns[<<ResLoop(s, words), word>>]
    BY <1>1, <2>1, Zenon
  <2>3. ResLoop(s, words) \in ResStates
    BY <1>4
  <2> QED
    BY <2>2, <2>3, ResTurnsType
<1>6. ASSUME NEW a \in Seq(Word), NEW b \in Seq(Word)
      PROVE  ResLoop(s, a \o b) = ResLoop(ResLoop(s, a), b)
  <2>1. a \o b \in Seq(Word)
    BY ConcatProperties
  <2>2. Carried(ResTurns, s, a \o b) = Carried(ResTurns, Carried(ResTurns, s, a), b)
    BY <1>2, CarriedConcat
  <2>3. ResLoop(s, a) \in ResStates
    BY <1>4
  <2> QED
    BY <1>1, <2>1, <2>2, <2>3, Zenon
<1> QED
  BY <1>3, <1>4, <1>5, <1>6

\* A word is passed over if it starts with the name of no field that matters.
Special == {"Content-Length", "Cache-Control"}
PassedWords == {word \in Word : word[1] \notin Special}

\* A word that names no field that matters is no field to wait for the value of.
LEMMA FieldTurnPasses ==
  ASSUME NEW h, NEW word, word # <<>> => word[1] \notin Special
  PROVE  FieldTurn(h, word) = Awaits(h, "field")
BY DEF FieldTurn, Special

\* Words that are passed over leave the header as it was.
LEMMA ResPasses ==
  ASSUME NEW h \in ResHeaders, NEW words \in Seq(PassedWords)
  PROVE  ResLoop(Awaits(h, "field"), words) = Awaits(h, "field")
<1> DEFINE s == Awaits(h, "field")
           P == {t \in Seq(Word) : ResLoop(s, t) = s}
<1>1. s \in ResStates
  BY DEF Awaits, ResStates
<1>2. ASSUME NEW word \in PassedWords PROVE ResTurn(s, word) = s /\ word \in Word
  <2>1. word \in Word /\ word[1] \notin Special
    BY DEF PassedWords
  <2>2. ResTurn(s, word) = FieldTurn(h, word)
    BY DEF ResTurn, Awaits
  <2> QED
    BY <2>1, <2>2, FieldTurnPasses
<1> HIDE DEF s
<1>3. <<>> \in P
  <2>1. <<>> \in Seq(Word) /\ ResLoop(s, <<>>) = s
    BY <1>1, ResLoopSteps
  <2> QED
    BY <2>1, Zenon
<1>4. ASSUME NEW t \in Seq(PassedWords), NEW word \in PassedWords, t \in P
      PROVE  t \o <<word>> \in P
  <2>1. t \in Seq(Word) /\ word \in Word /\ ResLoop(s, t) = s
    BY <1>2, <1>4
  <2>2. ResLoop(s, t \o <<word>>) = ResTurn(ResLoop(s, t), word)
    BY <1>1, <2>1, ResLoopSteps
  <2>3. t \o <<word>> \in Seq(Word)
    BY <2>1, OneMore
  <2> QED
    BY <1>2, <2>1, <2>2, <2>3
<1> HIDE DEF P
<1>5. \A t \in Seq(PassedWords) : t \in P
  BY <1>3, <1>4, EverySequence
<1> QED
  BY <1>5 DEF P, s

\* The words of the value of a clean field.
LEMMA CleanValue ==
  ASSUME NEW f, FieldOk(f), Clean(f)
  PROVE  /\ f.name \in Part /\ f.value \in Seq(Word) /\ Len(f.value) \in Nat /\ Len(f.value) > 0
         /\ FieldWords(f) = <<<<f.name>>>> \o f.value
         /\ \A i \in 1..Len(f.value) :
              /\ f.value[i] \in Word /\ Len(f.value[i]) \in Nat /\ Len(f.value[i]) > 0
              /\ \A j \in 1..Len(f.value[i]) : f.value[i][j] \notin Special
<1>1. f.name \in Part /\ f.value \in Seq(Word) /\ f.value # <<>> /\ f.value \in Seq(Seq(Part))
  BY WordsAreParts DEF FieldOk, Field, Clean
<1> DEFINE v == f.value
<1>2. /\ FieldWords(f) = <<<<f.name>>>> \o v
      /\ \A l \in 1..Len(FlattenSeq(v)) : FlattenSeq(v)[l] \notin Special
  BY CleanField DEF Special
<1>3. v \in Seq(Word) /\ v # <<>> /\ v \in Seq(Seq(Part))
  BY <1>1
<1> HIDE DEF v
<1>4. Len(v) \in Nat /\ Len(v) > 0
  <2> DEFINE n == Len(v)
  <2>1. n \in Nat /\ n # 0
    BY <1>3, LenProperties, EmptySeq
  <2> HIDE DEF n
  <2>2. n > 0
    BY <2>1
  <2> QED
    BY <2>1, <2>2 DEF n
<1>5. ASSUME NEW i \in 1..Len(v)
      PROVE  /\ v[i] \in Word /\ Len(v[i]) \in Nat /\ Len(v[i]) > 0
             /\ \A j \in 1..Len(v[i]) : v[i][j] \notin Special
  <2>1. v[i] \in Word
    BY <1>3, ElementOfSeq
  <2>2. Len(v[i]) \in Nat /\ Len(v[i]) > 0
    <3> DEFINE w == v[i]
               n == Len(w)
    <3>1. w \in Seq(Part) /\ w # <<>>
      BY <2>1 DEF Word, Blank
    <3> HIDE DEF w
    <3>2. n \in Nat /\ n # 0
      BY <3>1, LenProperties, EmptySeq
    <3> HIDE DEF n
    <3>3. n > 0
      BY <3>2
    <3> QED
      BY <3>2, <3>3 DEF n, w
  <2>3. \A j \in 1..Len(v[i]) : \E k \in 1..Len(FlattenSeq(v)) : FlattenSeq(v)[k] = v[i][j]
    BY <1>3, FlattenContains
  <2> QED
    BY <1>2, <2>1, <2>2, <2>3
<1> QED
  BY <1>1, <1>2, <1>4, <1>5 DEF v

\* What a field of a plain response does to the header.
ResFieldOk(f) ==
  /\ FieldOk(f) /\ Clean(f)
  /\ f.name = "Cache-Control" /\ f.value[1][1] = "max-age" => Len(f.value[1]) > 1
  /\ f.name = "Cache-Control" =>
       \A l \in 1..Len(f.value) : f.value[l][1] = "max-age" => l = 1

ResWithField(h, f) ==
  IF f.name = "Content-Length" THEN [h EXCEPT !.content_length = atoi(f.value[1][1])]
  ELSE IF f.name = "Cache-Control" /\ f.value[1][1] = "max-age"
       THEN [h EXCEPT !.max_age = atoi(f.value[1][2])] ELSE h

\* A field keeps the header of a response typed.
LEMMA ResWithFieldType ==
  ASSUME NEW h \in ResHeaders, NEW f PROVE ResWithField(h, f) \in ResHeaders
<1>1. \A token : atoi(token) \in Nat /\ atoi(token) \in Int
  BY AtoiType
<1> QED
  BY <1>1 DEF ResHeaders, ResWithField

\* What may follow "max-age" in its word, and what may follow that.
LEMMA PartsBehind ==
  ASSUME NEW w \in Word, Len(w) > 0, \A j \in 1..Len(w) : w[j] \notin Special
  PROVE  /\ Tail(w) # <<>> => Tail(w)[1] \notin Special
         /\ Len(w) > 1 => /\ Tail(w) # <<>> /\ Tail(w)[1] = w[2]
                          /\ Tail(Tail(w)) # <<>> => Tail(Tail(w))[1] \notin Special
<1>1. w \in Seq(Part) /\ w # <<>> /\ Len(w) \in Nat
  BY LenProperties DEF Word, Blank
<1> DEFINE t == Tail(w)
           n == Len(w)
           tn == Len(t)
<1>2. t \in Seq(Part) /\ tn = n - 1 /\ n \in Nat /\ \A i \in 1..tn : t[i] = w[i + 1]
  BY <1>1, HeadTailProperties
<1>3. tn \in Nat /\ (t # <<>> <=> tn # 0)
  BY <1>2, LenProperties, EmptySeq
<1> HIDE DEF t, n, tn
<1>4. ASSUME t # <<>> PROVE t[1] = w[2] /\ 2 \in 1..n
  <2>1. 1 \in 1..tn /\ 2 \in 1..n /\ 1 + 1 = 2
    BY <1>2, <1>3, <1>4
  <2> QED
    BY <1>2, <2>1
<1>5. ASSUME n > 1 PROVE t # <<>>
  BY <1>2, <1>3, <1>5
<1> DEFINE u == Tail(t)
           un == Len(u)
<1>6. ASSUME t # <<>>, u # <<>> PROVE u[1] = w[3] /\ 3 \in 1..n
  <2>1. u \in Seq(Part) /\ un = Len(t) - 1 /\ \A i \in 1..un : u[i] = t[i + 1]
    BY <1>2, <1>6, HeadTailProperties
  <2>2. un \in Nat /\ un # 0
    BY <1>6, <2>1, LenProperties, EmptySeq
  <2> HIDE DEF u, un
  <2>3. 1 \in 1..un /\ 2 \in 1..tn /\ 1 + 1 = 2 /\ 2 + 1 = 3 /\ 3 \in 1..n
    BY <1>2, <1>3, <2>1, <2>2 DEF tn
  <2>4. u[1] = t[1 + 1] /\ t[2] = w[2 + 1]
    BY <1>2, <2>1, <2>3
  <2> QED
    BY <2>3, <2>4
<1> HIDE DEF u, un
<1>7. \A j \in 1..n : w[j] \notin Special
  BY DEF n
<1>8. t # <<>> => t[1] \notin Special
  BY <1>4, <1>7
<1>9. n > 1 => t # <<>> /\ t[1] = w[2] /\ (u # <<>> => u[1] \notin Special)
  BY <1>4, <1>5, <1>6, <1>7
<1> QED
  BY <1>8, <1>9 DEF t, u, n

\* The word behind the name of a field, and the rest of the field.
LEMMA ResTakesValue ==
  ASSUME NEW f, ResFieldOk(f), NEW h \in ResHeaders
  PROVE  ResTurn(ResTurn(Awaits(h, "field"), <<f.name>>), f.value[1])
           = Awaits(ResWithField(h, f), "field")
<1> DEFINE v == f.value
           w == v[1]
           s0 == Awaits(h, "field")
           s1 == ResTurn(s0, <<f.name>>)
<1>1. /\ w \in Word /\ Len(w) \in Nat /\ Len(w) > 0
      /\ \A j \in 1..Len(w) : w[j] \notin Special
  <2>1. FieldOk(f) /\ Clean(f)
    BY DEF ResFieldOk
  <2>2. /\ Len(v) \in Nat /\ Len(v) > 0
        /\ \A i \in 1..Len(v) :
              /\ v[i] \in Word /\ Len(v[i]) \in Nat /\ Len(v[i]) > 0
              /\ \A j \in 1..Len(v[i]) : v[i][j] \notin Special
    BY <2>1, CleanValue
  <2> HIDE DEF v
  <2>3. 1 \in 1..Len(v)
    BY <2>2
  <2> QED
    BY <2>2, <2>3
<1>2. /\ Tail(w) # <<>> => Tail(w)[1] \notin Special
      /\ Len(w) > 1 => /\ Tail(w) # <<>> /\ Tail(w)[1] = w[2]
                       /\ Tail(Tail(w)) # <<>> => Tail(Tail(w))[1] \notin Special
  <2> HIDE DEF w
  <2> QED
    BY <1>1, PartsBehind
<1>3. s1 = Awaits(h, CASE f.name = "Content-Length" -> "length"
                       [] f.name = "Cache-Control"  -> "directive"
                       [] OTHER                     -> "field")
  <2>1. <<f.name>> # <<>> /\ <<f.name>>[1] = f.name
    OBVIOUS
  <2>2. s1 = FieldTurn(h, <<f.name>>)
    BY DEF ResTurn, Awaits
  <2> QED
    BY <2>1, <2>2 DEF FieldTurn
<1>4. w[1] \notin Special
  <2>1. 1 \in 1..Len(w)
    BY <1>1
  <2> QED
    BY <1>1, <2>1
<1> HIDE DEF w
<1>5. CASE f.name = "Content-Length"
  <2>1. s1 = Awaits(h, "length")
    BY <1>3, <1>5
  <2>2. ResTurn(Awaits(h, "length"), w) = Awaits([h EXCEPT !.content_length = atoi(w[1])], "field")
    BY DEF ResTurn, Awaits
  <2>3. ResWithField(h, f) = [h EXCEPT !.content_length = atoi(w[1])]
    BY <1>5 DEF ResWithField, w
  <2> HIDE DEF s1
  <2> QED
    BY <2>1, <2>2, <2>3 DEF s1, s0, w
<1>6. CASE f.name = "Cache-Control"
  <2>1. s1 = Awaits(h, "directive")
    BY <1>3, <1>6
  <2>2. ResTurn(Awaits(h, "directive"), w) =
          IF w[1] = "max-age" THEN AgeTurn(h, Tail(w)) ELSE FieldTurn(h, Tail(w))
    BY DEF ResTurn, Awaits, AfterPart
  <2>3. CASE w[1] # "max-age"
    <3>1. FieldTurn(h, Tail(w)) = Awaits(h, "field")
      BY <1>2, FieldTurnPasses
    <3>2. ResWithField(h, f) = h
      BY <1>6, <2>3 DEF ResWithField, w
    <3> HIDE DEF s1
    <3> QED
      BY <2>1, <2>2, <2>3, <3>1, <3>2 DEF s1, s0, w
  <2>4. CASE w[1] = "max-age"
    <3>1. Len(w) > 1
      BY <1>6, <2>4 DEF ResFieldOk, w
    <3> DEFINE g == [h EXCEPT !.max_age = atoi(w[2])]
    <3>2. AgeTurn(h, Tail(w)) = FieldTurn(g, Tail(Tail(w)))
      BY <1>2, <3>1 DEF AgeTurn, AfterPart
    <3>3. FieldTurn(g, Tail(Tail(w))) = Awaits(g, "field")
      BY <1>2, <3>1, FieldTurnPasses
    <3>4. ResWithField(h, f) = g
      BY <1>6, <2>4 DEF ResWithField, w
    <3> HIDE DEF s1, g
    <3> QED
      BY <2>1, <2>2, <2>4, <3>2, <3>3, <3>4 DEF s1, s0, w
  <2> QED
    BY <2>3, <2>4
<1>7. CASE f.name \notin Special
  <2>1. s1 = Awaits(h, "field")
    BY <1>3, <1>7 DEF Special
  <2>2. ResTurn(Awaits(h, "field"), w) = FieldTurn(h, w)
    BY DEF ResTurn, Awaits
  <2>3. FieldTurn(h, w) = Awaits(h, "field")
    BY <1>4, FieldTurnPasses
  <2>4. ResWithField(h, f) = h
    BY <1>7 DEF ResWithField, Special
  <2> HIDE DEF s1
  <2> QED
    BY <2>1, <2>2, <2>3, <2>4 DEF s1, s0, w
<1> QED
  BY <1>5, <1>6, <1>7 DEF Special

\* A field of a plain response changes the header by its length or its age, or not at all.
LEMMA ResReadsField ==
  ASSUME NEW f, ResFieldOk(f), NEW h \in ResHeaders
  PROVE  /\ FieldWords(f) \in Seq(Word) /\ ResWithField(h, f) \in ResHeaders
         /\ ResLoop(Awaits(h, "field"), FieldWords(f)) = Awaits(ResWithField(h, f), "field")
<1> DEFINE v == f.value
           name == <<f.name>>
           rest == SubSeq(v, 2, Len(v))
           s0 == Awaits(h, "field")
           g == ResWithField(h, f)
           s2 == Awaits(g, "field")
<1>1. FieldOk(f) /\ Clean(f) /\ FieldWords(f) \in Seq(Word)
  BY FieldWordsType DEF ResFieldOk
<1>2. /\ f.name \in Part /\ v \in Seq(Word) /\ Len(v) \in Nat /\ Len(v) > 0
      /\ FieldWords(f) = <<name>> \o v
      /\ \A i \in 1..Len(v) :
           /\ v[i] \in Word /\ Len(v[i]) \in Nat /\ Len(v[i]) > 0
           /\ \A j \in 1..Len(v[i]) : v[i][j] \notin Special
  BY <1>1, CleanValue
<1>3. name \in Word
  <2>1. name \in Seq(Part) /\ name # Blank
    BY <1>2 DEF Blank
  <2> QED
    BY <2>1 DEF Word
<1>4. ResTurn(ResTurn(s0, name), v[1]) = s2
  BY ResTakesValue
<1>5. g \in ResHeaders
  BY ResWithFieldType
<1>6. s0 \in ResStates /\ s2 \in ResStates
  BY <1>5 DEF Awaits, ResStates
<1>7. \A t \in Seq(PassedWords) : ResLoop(s2, t) = s2
  BY <1>5, ResPasses
<1> HIDE DEF s0, s2, g, v, name
<1>8. v = <<v[1]>> \o rest /\ rest \in Seq(PassedWords) /\ rest \in Seq(Word)
  <2>1. SubSeq(v, 1, Len(v)) = v
    BY <1>2, SubSeqFull
  <2>2. 1 \in 1..Len(v) /\ Len(v) \in 1..Len(v)
    BY <1>2
  <2>3. SubSeq(v, 1, Len(v)) = <<v[1]>> \o SubSeq(v, 1 + 1, Len(v))
    BY <1>2, <2>2, SubSeqRecursiveFirst
  <2>4. \A i \in 2..Len(v) : v[i] \in PassedWords /\ v[i] \in Word
    <3> SUFFICES ASSUME NEW i \in 2..Len(v) PROVE v[i] \in PassedWords /\ v[i] \in Word
      OBVIOUS
    <3>1. i \in 1..Len(v)
      BY <1>2
    <3>2. v[i] \in Word /\ 1 \in 1..Len(v[i])
      BY <1>2, <3>1
    <3>3. v[i][1] \notin Special
      BY <1>2, <3>1, <3>2
    <3> QED
      BY <3>2, <3>3 DEF PassedWords
  <2>5. rest \in Seq(PassedWords) /\ rest \in Seq(Word)
    BY <1>2, <2>4, SubSeqProperties
  <2> QED
    BY <2>1, <2>3, <2>5
<1> HIDE DEF rest
<1>9. v[1] \in Word
  <2>1. 1 \in 1..Len(v)
    BY <1>2
  <2> QED
    BY <1>2, <2>1
<1> DEFINE e == <<>>
           n == <<name>>
           w == <<v[1]>>
<1>10. e \in Seq(Word) /\ n \in Seq(Word) /\ w \in Seq(Word) /\ e \o n = n
  BY <1>3, <1>9
<1>11. ResLoop(s0, n) = ResTurn(s0, name)
  <2>1. ResLoop(s0, e) = s0
    BY <1>6, ResLoopSteps
  <2>2. ResLoop(s0, e \o <<name>>) = ResTurn(ResLoop(s0, e), name)
    <3>1. \A words \in Seq(Word), word \in Word :
            ResLoop(s0, words \o <<word>>) = ResTurn(ResLoop(s0, words), word)
      BY <1>6, ResLoopSteps
    <3> QED
      BY <1>3, <1>10, <3>1, Zenon
  <2> QED
    BY <1>10, <2>1, <2>2
<1>12. ResLoop(s0, n \o w) = s2
  <2>1. ResLoop(s0, n \o <<v[1]>>) = ResTurn(ResLoop(s0, n), v[1])
    <3>1. \A words \in Seq(Word), word \in Word :
            ResLoop(s0, words \o <<word>>) = ResTurn(ResLoop(s0, words), word)
      BY <1>6, ResLoopSteps
    <3> QED
      BY <1>9, <1>10, <3>1, Zenon
  <2> QED
    BY <1>4, <1>11, <2>1
<1> HIDE DEF e, n, w
<1>13. n \o w \in Seq(Word) /\ (n \o w) \o rest = n \o (w \o rest)
  <2>1. n \o w \in Seq(Word)
    BY <1>10, ConcatProperties
  <2>2. (n \o w) \o rest = n \o (w \o rest)
    <3>1. Associative(Word)
      BY ConcatIsAssociative, Zenon
    <3> QED
      BY <1>8, <1>10, <3>1, Zenon DEF Associative
  <2> QED
    BY <2>1, <2>2
<1>14. ResLoop(s0, (n \o w) \o rest) = ResLoop(ResLoop(s0, n \o w), rest)
  <2>1. \A a, b \in Seq(Word) : ResLoop(s0, a \o b) = ResLoop(ResLoop(s0, a), b)
    BY <1>6, ResLoopSteps
  <2> QED
    BY <1>8, <1>13, <2>1, Zenon
<1>15. ResLoop(s0, n \o v) = s2
  BY <1>7, <1>8, <1>12, <1>13, <1>14 DEF w
<1> QED
  BY <1>1, <1>2, <1>5, <1>15 DEF s0, s2, g, n

\* What a plain response is made of.
LEMMA PlainResponses ==
  ASSUME NEW m \in Responses, Plain(m)
  PROVE  /\ MessageOk(m) /\ BlankAt(m) <= MaxHeaderSize
         /\ \A k \in 1..Len(m.fields) : ResFieldOk(m.fields[k])
         /\ \E at \in 1..Len(m.fields) :
              /\ \A k \in 1..Len(m.fields) : m.fields[k].name = "Content-Length" <=> k = at
              /\ atoi(m.fields[at].value[1][1]) = Len(m.body)
         /\ \E at \in 0..Len(m.fields) :
              \A k \in 1..Len(m.fields) : m.fields[k].name = "Cache-Control" <=> k = at
<1>1. MessageOk(m)
  BY MessagesAreOk
<1>2. DOMAIN m.fields = 1..Len(m.fields) /\ Len(m.fields) \in Nat
  <2>1. m.fields \in Seq(Field)
    BY <1>1 DEF MessageOk, Message
  <2> QED
    BY <2>1, LenProperties
<1>3. PlainResponse(m) /\ \A k \in 1..Len(m.fields) : Clean(m.fields[k])
  BY <1>2 DEF Plain
<1>4. BlankAt(m) <= MaxHeaderSize
  <2>1. Len(Words(m)) = BlankAt(m) + Len(m.body) /\ Len(m.body) \in Nat /\ BlankAt(m) \in Nat
    <3> DEFINE n == Len(Head3(m))
    <3>1. n \in Nat /\ Len(m.body) \in Nat /\ Len(Words(m)) = BlankAt(m) + Len(m.body)
      BY <1>1, WordsShape
    <3>2. BlankAt(m) = n + 1
      BY DEF BlankAt
    <3> HIDE DEF n
    <3>3. BlankAt(m) \in Nat
      BY <3>1, <3>2
    <3> QED
      BY <3>1, <3>3
  <2>2. Len(Words(m)) - Len(m.body) <= MaxHeaderSize
    BY <1>3 DEF PlainResponse
  <2> DEFINE w == Len(Words(m))
             b == Len(m.body)
             a == BlankAt(m)
  <2>3. w = a + b /\ b \in Nat /\ a \in Nat /\ w - b <= MaxHeaderSize
    BY <2>1, <2>2
  <2> HIDE DEF w, b, a
  <2>4. a <= MaxHeaderSize
    BY <2>3, ParsersAssumption
  <2> QED
    BY <2>4 DEF a
<1>5. \A k \in 1..Len(m.fields) : ResFieldOk(m.fields[k])
  <2> SUFFICES ASSUME NEW k \in 1..Len(m.fields) PROVE ResFieldOk(m.fields[k])
    OBVIOUS
  <2> DEFINE f == m.fields[k]
             v == f.value
  <2>1. FieldOk(f) /\ Clean(f)
    BY <1>1, <1>3 DEF MessageOk
  <2>2. DOMAIN v = 1..Len(v) /\ Len(v) \in Nat /\ Len(v) > 0
    BY <2>1, CleanValue, LenProperties
  <2>3. f.name = "Cache-Control" =>
          \A l \in DOMAIN v : v[l][1] = "max-age" => l = 1 /\ Len(v[1]) > 1
    BY <1>2, <1>3 DEF PlainResponse, IsMaxAge
  <2>4. 1 \in 1..Len(v)
    BY <2>2
  <2> QED
    BY <2>1, <2>2, <2>3, <2>4 DEF ResFieldOk
<1>6. \E at \in 1..Len(m.fields) :
        /\ \A k \in 1..Len(m.fields) : m.fields[k].name = "Content-Length" <=> k = at
        /\ atoi(m.fields[at].value[1][1]) = Len(m.body)
  <2>0. Once(m, "Content-Length")
    BY <1>3 DEF PlainResponse
  <2>1. PICK at \in 1..Len(m.fields) :
          \A k \in 1..Len(m.fields) : m.fields[k].name = "Content-Length" <=> k = at
    <3>1. PICK k \in DOMAIN m.fields :
            \A l \in DOMAIN m.fields : m.fields[l].name = "Content-Length" <=> l = k
      BY <2>0, Zenon DEF Once
    <3>2. k \in 1..Len(m.fields)
      BY <1>2, <3>1
    <3>3. ASSUME NEW l \in 1..Len(m.fields)
          PROVE  m.fields[l].name = "Content-Length" <=> l = k
      <4>1. l \in DOMAIN m.fields
        BY <1>2
      <4> QED
        BY <3>1, <4>1, Zenon
    <3> QED
      BY <3>2, <3>3, Zenon
  <2>2. atoi(m.fields[at].value[1][1]) = Len(m.body)
    BY <1>2, <1>3, <2>1 DEF PlainResponse
  <2> QED
    BY <2>1, <2>2
<1>7. \E at \in 0..Len(m.fields) :
        \A k \in 1..Len(m.fields) : m.fields[k].name = "Cache-Control" <=> k = at
  <2>1. \A k, l \in 1..Len(m.fields) :
          m.fields[k].name = "Cache-Control" /\ m.fields[l].name = "Cache-Control" => k = l
    BY <1>2, <1>3 DEF PlainResponse
  <2>2. CASE \E k \in 1..Len(m.fields) : m.fields[k].name = "Cache-Control"
    <3>1. PICK at \in 1..Len(m.fields) : m.fields[at].name = "Cache-Control"
      BY <2>2
    <3>2. at \in 0..Len(m.fields)
      BY <1>2
    <3>3. \A k \in 1..Len(m.fields) : m.fields[k].name = "Cache-Control" <=> k = at
      BY <2>1, <3>1
    <3> QED
      BY <3>2, <3>3
  <2>3. CASE ~\E k \in 1..Len(m.fields) : m.fields[k].name = "Cache-Control"
    <3>1. \A k \in 1..Len(m.fields) : m.fields[k].name = "Cache-Control" <=> k = 0
      BY <1>2, <2>3
    <3> QED
      BY <1>2, <3>1
  <2> QED
    BY <2>2, <2>3
<1> QED
  BY <1>1, <1>4, <1>5, <1>6, <1>7

\* The header after the first k fields, where Content-Length and Cache-Control are.
Aged(m, control) == m.fields[control].value[1][1] = "max-age"
AfterFields(m, length_at, control_at, k) ==
  [max_age |-> IF control_at \in 1..k /\ Aged(m, control_at)
               THEN atoi(m.fields[control_at].value[1][2]) ELSE DefaultMaxAge,
   header_length |-> BlankAt(m),
   content_length |-> IF length_at <= k THEN Len(m.body) ELSE -1]

\* What the fields of a plain response come to, with one field more.
LEMMA OneFieldMore ==
  ASSUME NEW m, MessageOk(m), NEW at \in 1..Len(m.fields), NEW control \in 0..Len(m.fields),
         \A k \in 1..Len(m.fields) : m.fields[k].name = "Content-Length" <=> k = at,
         atoi(m.fields[at].value[1][1]) = Len(m.body),
         \A k \in 1..Len(m.fields) : m.fields[k].name = "Cache-Control" <=> k = control,
         NEW k \in 0..(Len(m.fields) - 1)
  PROVE  ResWithField(AfterFields(m, at, control, k), m.fields[k + 1])
           = AfterFields(m, at, control, k + 1)
<1> DEFINE f == m.fields[k + 1]
           h == AfterFields(m, at, control, k)
           g == AfterFields(m, at, control, k + 1)
<1>1. k \in Nat /\ k + 1 \in 1..Len(m.fields) /\ at \in Nat /\ control \in Nat
  BY FieldListType
<1>2. (f.name = "Content-Length" <=> k + 1 = at) /\ (f.name = "Cache-Control" <=> k + 1 = control)
  BY <1>1
<1>3. k + 1 # at => (at <= k <=> at <= k + 1)
  BY <1>1
<1>4. k + 1 # control => (control \in 1..k <=> control \in 1..(k + 1))
  BY <1>1
<1>5. CASE k + 1 = at
  <2>1. ResWithField(h, f) = [h EXCEPT !.content_length = atoi(f.value[1][1])]
    BY <1>2, <1>5 DEF ResWithField
  <2>2. atoi(f.value[1][1]) = Len(m.body) /\ at <= k + 1
    BY <1>1, <1>5
  <2>3. k + 1 # control
    BY <1>2, <1>5
  <2>4. [h EXCEPT !.content_length = Len(m.body)] = g
    BY <1>4, <2>2, <2>3 DEF AfterFields
  <2> QED
    BY <2>1, <2>2, <2>4
<1>6. CASE k + 1 = control
  <2>1. k + 1 # at /\ f.name = "Cache-Control"
    BY <1>2, <1>6
  <2>2. control \in 1..(k + 1) /\ control \notin 1..k
    BY <1>1, <1>6
  <2>3. CASE Aged(m, control)
    <3>1. ResWithField(h, f) = [h EXCEPT !.max_age = atoi(f.value[1][2])]
      BY <1>6, <2>1, <2>3 DEF ResWithField, Aged
    <3>2. [h EXCEPT !.max_age = atoi(f.value[1][2])] = g
      BY <1>3, <1>6, <2>1, <2>2, <2>3 DEF AfterFields
    <3> QED
      BY <3>1, <3>2
  <2>4. CASE ~Aged(m, control)
    <3>1. ResWithField(h, f) = h
      BY <1>6, <2>1, <2>4 DEF ResWithField, Aged
    <3>2. h = g
      BY <1>3, <1>6, <2>1, <2>2, <2>4 DEF AfterFields
    <3> QED
      BY <3>1, <3>2
  <2> QED
    BY <2>3, <2>4
<1>7. CASE k + 1 # at /\ k + 1 # control
  <2>1. ResWithField(h, f) = h
    BY <1>2, <1>7 DEF ResWithField
  <2>2. h = g
    BY <1>3, <1>4, <1>7 DEF AfterFields
  <2> QED
    BY <2>1, <2>2
<1> QED
  BY <1>5, <1>6, <1>7

\* The loop of parse_http_res over the fields of a plain response.
LEMMA ResReadsFields ==
  ASSUME NEW m, MessageOk(m), \A k \in 1..Len(m.fields) : ResFieldOk(m.fields[k]),
         NEW at \in 1..Len(m.fields), NEW control \in 0..Len(m.fields),
         \A k \in 1..Len(m.fields) : m.fields[k].name = "Content-Length" <=> k = at,
         atoi(m.fields[at].value[1][1]) = Len(m.body),
         \A k \in 1..Len(m.fields) : m.fields[k].name = "Cache-Control" <=> k = control
  PROVE  ResLoop(Awaits(AfterFields(m, at, control, 0), "field"), HeaderWords(m))
           = Awaits(AfterFields(m, at, control, Len(m.fields)), "field")
<1> DEFINE n == Len(m.fields)
           read(k) == FirstFields(m, k)
           parsed(k) == AfterFields(m, at, control, k)
           s0 == Awaits(parsed(0), "field")
           Ok == {k \in Nat : k <= n => ResLoop(s0, read(k)) = Awaits(parsed(k), "field")}
<1>1. n \in Nat
  BY FieldListType
<1>2. /\ read(0) = <<>> /\ read(n) = HeaderWords(m)
      /\ \A k \in 0..(n - 1) :
           /\ read(k) \in Seq(Word) /\ FieldWords(m.fields[k + 1]) \in Seq(Word)
           /\ read(k + 1) = read(k) \o FieldWords(m.fields[k + 1])
  BY FieldByField
<1>3. \A k \in Nat : parsed(k) \in ResHeaders
  <2>1. BlankAt(m) \in Int
    <3>1. Len(Head3(m)) \in Nat
      BY WordsShape
    <3> QED
      BY <3>1 DEF BlankAt
  <2>2. Len(m.body) \in Int
    BY WordsShape
  <2>3. \A token : atoi(token) \in Nat
    BY AtoiType
  <2> QED
    BY <2>1, <2>2, <2>3, ParsersAssumption DEF AfterFields, ResHeaders
<1>4. \A k \in 0..(n - 1) : ResWithField(parsed(k), m.fields[k + 1]) = parsed(k + 1)
  BY OneFieldMore
<1> HIDE DEF read, parsed
<1>5. s0 \in ResStates
  BY <1>3 DEF Awaits, ResStates
<1>6. 0 \in Ok
  BY <1>2, <1>5, ResLoopSteps
<1>7. ASSUME NEW k \in Nat, k \in Ok PROVE k + 1 \in Ok
  <2> SUFFICES ASSUME k + 1 <= n PROVE ResLoop(s0, read(k + 1)) = Awaits(parsed(k + 1), "field")
    OBVIOUS
  <2> DEFINE f == m.fields[k + 1]
             w == FieldWords(f)
  <2>1. k \in 0..(n - 1) /\ k + 1 \in 1..n /\ k <= n
    BY <1>1
  <2>2. ResLoop(s0, read(k)) = Awaits(parsed(k), "field")
    BY <1>7, <2>1
  <2>3. read(k) \in Seq(Word) /\ w \in Seq(Word) /\ read(k + 1) = read(k) \o w
    BY <1>2, <2>1
  <2>4. ResFieldOk(f)
    BY <2>1
  <2>5. ResLoop(Awaits(parsed(k), "field"), w) = Awaits(ResWithField(parsed(k), f), "field")
    <3>1. parsed(k) \in ResHeaders
      BY <1>3
    <3> HIDE DEF f
    <3> QED
      BY <2>4, <3>1, ResReadsField
  <2>6. ResWithField(parsed(k), f) = parsed(k + 1)
    BY <1>4, <2>1
  <2> HIDE DEF f, w, s0
  <2>7. ResLoop(s0, read(k) \o w) = ResLoop(ResLoop(s0, read(k)), w)
    BY <1>5, <2>3, ResLoopSteps
  <2> QED
    BY <2>2, <2>3, <2>5, <2>6, <2>7
<1> HIDE DEF Ok
<1>8. n \in Ok
  BY <1>1, <1>6, <1>7, EveryNumber
<1>9. ResLoop(s0, HeaderWords(m)) = Awaits(parsed(n), "field")
  BY <1>1, <1>2, <1>8 DEF Ok
<1> QED
  BY <1>9 DEF s0, parsed

\* Of what was sent, what has arrived.
LEMMA ArrivedAndNot ==
  ASSUME NEW t, NEW a \in Seq(Seq(Part)), NEW b \in Seq(Seq(Part)), t = a \o b
  PROVE  /\ t \in Seq(Seq(Part)) /\ Len(a) \in Nat /\ Len(b) \in Nat /\ Len(t) = Len(a) + Len(b)
         /\ \A k \in 1..Len(a) : t[k] = a[k]
         /\ (b = <<>> <=> Len(b) = 0) /\ (b = <<>> => t = a)
<1> DEFINE W == Seq(Part)
<1>0. a \in Seq(W) /\ b \in Seq(W)
  OBVIOUS
<1> HIDE DEF W
<1>1. /\ a \o b \in Seq(W) /\ Len(a \o b) = Len(a) + Len(b)
      /\ \A k \in 1..(Len(a) + Len(b)) : (a \o b)[k] = IF k <= Len(a) THEN a[k] ELSE b[k - Len(a)]
  BY <1>0, ConcatProperties
<1>2. Len(a) \in Nat /\ Len(b) \in Nat /\ (b = <<>> <=> Len(b) = 0)
  BY <1>0, LenProperties, EmptySeq
<1>3. \A k \in 1..Len(a) : (a \o b)[k] = a[k]
  BY <1>1, <1>2
<1>4. b = <<>> => a \o b = a
  BY <1>0, ConcatEmptySeq
<1> QED
  BY <1>1, <1>2, <1>3, <1>4 DEF W

\* A plain request is recognised when all of it has arrived.
LEMMA RequestSoFar ==
  ASSUME NEW m \in Requests, Plain(m), NEW a \in Seq(Seq(Part)), NEW b \in Seq(Seq(Part)),
         Words(m) = a \o b
  PROVE  parse_http_req(a) = IF b = <<>> THEN ExpectedRequest(m) ELSE Incomplete
<1>1. CASE b = <<>>
  <2>1. a = Words(m)
    BY <1>1, ArrivedAndNot
  <2> QED
    BY <1>1, <2>1, ParsesRequest
<1>2. CASE b # <<>>
  <2> DEFINE t == Words(m)
             n == Len(Head3(m))
             k1 == Len(a)
  <2>1. MessageOk(m) /\ m.body = <<>>
    BY PlainRequests
  <2>2. /\ n \in Nat /\ Len(t) = (n + 1) + Len(m.body)
        /\ \A k \in 1..n : t[k] # Blank
    BY <2>1, WordsShape DEF BlankAt
  <2>3. k1 \in Nat /\ Len(b) \in Nat /\ Len(t) = k1 + Len(b) /\ Len(b) # 0
        /\ \A k \in 1..k1 : t[k] = a[k]
    BY <1>2, ArrivedAndNot
  <2>4. Len(m.body) = 0
    BY <2>1
  <2> HIDE DEF t, n, k1
  <2>5. k1 <= n
    BY <2>2, <2>3, <2>4
  <2>6. \A k \in 1..k1 : a[k] # Blank
    <3> SUFFICES ASSUME NEW k \in 1..k1 PROVE a[k] # Blank
      OBVIOUS
    <3>1. k \in 1..n
      BY <2>2, <2>3, <2>5
    <3> QED
      BY <2>2, <2>3, <3>1
  <2>7. HeaderEnd(a) = 0
    BY <2>3, <2>6, NoBlank DEF k1
  <2>8. ~(k1 > StackSize)
    <3>1. Len(t) <= StackSize /\ StackSize \in Nat
      BY PlainRequests, ParsersAssumption DEF t
    <3> QED
      BY <2>3, <3>1
  <2> QED
    BY <1>2, <2>7, <2>8 DEF parse_http_req, k1
<1> QED
  BY <1>1, <1>2

\* In the Cache-Control of a plain response a max-age stands first.
LEMMA FindsMaxAge ==
  ASSUME NEW f, ResFieldOk(f), f.name = "Cache-Control"
  PROVE  SelectInSeq(f.value, IsMaxAge) = IF f.value[1][1] = "max-age" THEN 1 ELSE 0
<1> DEFINE v == f.value
           I == {l \in 1..Len(v) : IsMaxAge(v[l])}
           found == Min(I)
<1>1. Len(v) \in Nat /\ Len(v) > 0
  BY CleanValue DEF ResFieldOk
<1>2. \A l \in 1..Len(v) : v[l][1] = "max-age" => l = 1
  BY DEF ResFieldOk
<1>3. 1 \in 1..Len(v) /\ 1..Len(v) \subseteq Nat
  BY <1>1
<1>4. SelectInSeq(v, IsMaxAge) = IF I # {} THEN found ELSE 0
  BY DEF SelectInSeq
<1>5. CASE v[1][1] = "max-age"
  <2>1. I = {1}
    BY <1>2, <1>3, <1>5 DEF IsMaxAge
  <2> HIDE DEF I
  <2>2. found = 1 /\ I # {}
    BY <2>1, FirstOf
  <2> QED
    BY <1>4, <1>5, <2>2 DEF v
<1>6. CASE v[1][1] # "max-age"
  <2>1. I = {}
    BY <1>2, <1>3, <1>6 DEF IsMaxAge
  <2> HIDE DEF I
  <2> QED
    BY <1>4, <1>6, <2>1 DEF v
<1> QED
  BY <1>5, <1>6

\* What the fields of a plain response come to is what was expected of it.
LEMMA ExpectedOfFields ==
  ASSUME NEW m, MessageOk(m), \A k \in 1..Len(m.fields) : ResFieldOk(m.fields[k]),
         NEW at \in 1..Len(m.fields), NEW control \in 0..Len(m.fields),
         \A k \in 1..Len(m.fields) : m.fields[k].name = "Cache-Control" <=> k = control
  PROVE  AfterFields(m, at, control, Len(m.fields)) = ExpectedResponse(m)
<1>1. Len(m.fields) \in Nat
  BY FieldListType
<1>2. at <= Len(m.fields)
  BY <1>1
<1>3. Len(Words(m)) - Len(m.body) = BlankAt(m)
  <2> DEFINE n == Len(Head3(m))
             b == Len(m.body)
             w == Len(Words(m))
  <2>1. n \in Nat /\ b \in Nat /\ w = BlankAt(m) + b
    BY WordsShape
  <2>2. BlankAt(m) = n + 1
    BY DEF BlankAt
  <2> HIDE DEF n, b, w
  <2>3. w - b = BlankAt(m)
    BY <2>1, <2>2
  <2> QED
    BY <2>3 DEF w, b
<1>4. CASE control = 0
  <2>1. \A k \in 1..Len(m.fields) : m.fields[k].name # "Cache-Control"
    BY <1>1, <1>4
  <2>2. ValueOf(m, "Cache-Control") = <<>>
    BY <2>1, NoValue
  <2>3. control \notin 1..Len(m.fields)
    BY <1>1, <1>4
  <2>4. SelectInSeq(<<>>, IsMaxAge) = 0
    BY DEF SelectInSeq
  <2> QED
    BY <1>2, <1>3, <2>2, <2>3, <2>4 DEF AfterFields, ExpectedResponse
<1>5. CASE control # 0
  <2>1. control \in 1..Len(m.fields)
    BY <1>1, <1>5
  <2>2. ValueOf(m, "Cache-Control") = m.fields[control].value
    BY <2>1, ValueAt
  <2>3. SelectInSeq(m.fields[control].value, IsMaxAge) = IF Aged(m, control) THEN 1 ELSE 0
    BY <2>1, FindsMaxAge DEF Aged
  <2> QED
    BY <1>2, <1>3, <2>1, <2>2, <2>3 DEF AfterFields, ExpectedResponse
<1> QED
  BY <1>4, <1>5

\* The header that parse_http_res starts from.
LEMMA DefaultHeader ==
  \A n \in Nat : [new_res_head EXCEPT !.header_length = n + 1]
                 = [max_age |-> DefaultMaxAge, header_length |-> n + 1, content_length |-> -1]
BY DEF new_res_head

\* A plain response is parsed as soon as its blank line has arrived, to what was meant.
LEMMA ResponseSoFar ==
  ASSUME NEW m \in Responses, Plain(m), NEW a \in Seq(Seq(Part)), NEW b \in Seq(Seq(Part)),
         Words(m) = a \o b
  PROVE  parse_http_res(a) = IF BlankAt(m) <= Len(a) THEN ExpectedResponse(m) ELSE Incomplete
<1> DEFINE t == Words(m)
           n == Len(Head3(m))
           j == IF Len(a) < MaxHeaderSize THEN Len(a) ELSE MaxHeaderSize
           head == SubSeq(a, 1, j)
<1>1. /\ MessageOk(m) /\ BlankAt(m) <= MaxHeaderSize
      /\ \A k \in 1..Len(m.fields) : ResFieldOk(m.fields[k])
  BY PlainResponses
<1>2. /\ n \in Nat /\ BlankAt(m) = n + 1 /\ t[BlankAt(m)] = Blank /\ t \in Seq(Seq(Part))
      /\ \A k \in 1..n : t[k] # Blank
      /\ n = 3 + Len(HeaderWords(m)) /\ Len(HeaderWords(m)) \in Nat
  BY <1>1, WordsShape DEF BlankAt
<1>3. Len(a) \in Nat /\ Len(b) \in Nat /\ Len(t) = Len(a) + Len(b) /\ \A k \in 1..Len(a) : t[k] = a[k]
  BY ArrivedAndNot
<1>4. j \in Nat /\ j <= Len(a) /\ (n + 1 <= j <=> n + 1 <= Len(a))
  BY <1>1, <1>2, <1>3, ParsersAssumption
<1> HIDE DEF t, n, j
<1>5. head \in Seq(Seq(Part)) /\ Len(head) = j /\ \A k \in 1..j : head[k] = t[k]
  <2> DEFINE W == Seq(Part)
  <2>1. a \in Seq(W) /\ j \in Int /\ 1 \in Int
    BY <1>4
  <2> HIDE DEF W
  <2>2. \A k \in 1..j : k \in 1..Len(a) /\ a[k] \in W
    BY <1>3, <1>4, <2>1, ElementOfSeq
  <2>3. /\ head \in Seq(W) /\ Len(head) = IF 1 <= j THEN (j - 1) + 1 ELSE 0
        /\ \A k \in 1..((j - 1) + 1) : head[k] = a[(1 + k) - 1]
    BY <2>1, <2>2, SubSeqProperties
  <2> HIDE DEF head
  <2>4. (j - 1) + 1 = j /\ (~(1 <= j) => j = 0) /\ \A k \in 1..j : (1 + k) - 1 = k
    BY <1>4
  <2>5. Len(head) = j /\ \A k \in 1..j : head[k] = a[k]
    BY <2>3, <2>4
  <2> QED
    BY <1>3, <2>2, <2>3, <2>5 DEF W
<1> HIDE DEF head
<1>6. parse_http_res(a) = IF HeaderEnd(head) = 0 THEN Incomplete
                          ELSE ResFields([new_res_head EXCEPT !.header_length = HeaderEnd(head)],
                                         SubSeq(head, 4, HeaderEnd(head) - 1))
  BY DEF parse_http_res, HeadOf, head, j
<1>7. CASE ~(n + 1 <= Len(a))
  <2>1. \A k \in 1..j : head[k] # Blank
    <3> SUFFICES ASSUME NEW k \in 1..j PROVE head[k] # Blank
      OBVIOUS
    <3>1. j <= n
      BY <1>2, <1>3, <1>4, <1>7
    <3>2. k \in 1..n
      BY <1>2, <1>4, <3>1
    <3> QED
      BY <1>2, <1>5, <3>2
  <2>2. HeaderEnd(head) = 0
    BY <1>4, <1>5, <2>1, NoBlank
  <2> QED
    BY <1>2, <1>6, <1>7, <2>2
<1>8. CASE n + 1 <= Len(a)
  <2>1. n + 1 \in 1..j /\ (n + 1) - 1 = n /\ n + 1 <= j /\ n <= j /\ n \in 0..j
    <3>1. n \in Nat /\ j \in Nat /\ n + 1 <= j
      BY <1>2, <1>4, <1>8
    <3> QED
      BY <3>1
  <2>2. head[n + 1] = Blank /\ \A k \in 1..n : head[k] # Blank
    <3>1. head[n + 1] = t[n + 1] /\ t[n + 1] = Blank
      BY <1>2, <1>5, <2>1
    <3>2. ASSUME NEW k \in 1..n PROVE head[k] # Blank
      <4>1. k \in 1..j
        BY <1>2, <1>4, <2>1
      <4> QED
        BY <1>2, <1>5, <4>1
    <3> QED
      BY <3>1, <3>2
  <2>3. HeaderEnd(head) = n + 1
    BY <1>4, <1>5, <2>1, <2>2, BlankFound
  <2>4. SubSeq(head, 4, n) = HeaderWords(m)
    <3> DEFINE W == Seq(Part)
               e == <<Blank>> \o m.body
               H == HeaderWords(m)
               s == m.start
    <3>1. s \in Seq(W) /\ H \in Seq(W) /\ m.body \in Seq(W) /\ <<Blank>> \in Seq(W) /\ Len(s) = 3
      <4>1. s \in Seq(Word) /\ H \in Seq(Word) /\ Len(s) = 3 /\ m.body \in Seq(Seq(Part))
        BY <1>1, FieldListType DEF MessageOk, Message
      <4> QED
        BY <4>1, WordsAreParts DEF Blank
    <3>2. t = ((s \o H) \o <<Blank>>) \o m.body
      BY <1>1, WordsShape DEF Head3, t
    <3>3. s \o H \in Seq(W)
      BY <3>1, ConcatProperties
    <3> DEFINE sh == s \o H
               bl == <<Blank>>
               body == m.body
    <3> HIDE DEF W, H, s, sh, bl, body
    <3>4. Associative(W)
      BY ConcatIsAssociative, Zenon
    <3>5. (sh \o bl) \o body = sh \o (bl \o body) /\ bl \o body \in Seq(W)
      <4>1. sh \in Seq(W) /\ bl \in Seq(W) /\ body \in Seq(W)
        BY <3>1, <3>3 DEF sh, bl, body
      <4>2. bl \o body \in Seq(W)
        BY <4>1, ConcatProperties
      <4> QED
        BY <3>4, <4>1, <4>2, Zenon DEF Associative
    <3>6. t = (s \o H) \o e /\ e \in Seq(W)
      BY <3>2, <3>5 DEF sh, bl, body
    <3> HIDE DEF e
    <3>7. SubSeq((s \o H) \o e, Len(s) + 1, Len(s) + Len(H)) = H
      BY <3>1, <3>6, MiddleOf
    <3>8. n = 3 + Len(H) /\ 3 + 1 = 4
      BY <1>2 DEF H
    <3>9. SubSeq(t, 4, n) = H
      BY <3>1, <3>6, <3>7, <3>8
    <3>10. SubSeq(head, 4, n) = SubSeq(t, 4, n)
      <4>1. head \in Seq(W) /\ t \in Seq(W) /\ 4 \in Nat \ {0} /\ n \in Nat
        BY <1>2, <1>5 DEF W
      <4>2. n <= Len(head) /\ n <= Len(t)
        BY <1>2, <1>3, <1>4, <1>5, <2>1
      <4>3. ASSUME NEW k \in 1..n PROVE head[k] = t[k]
        <5>1. k \in 1..j
          BY <1>2, <1>4, <2>1
        <5> QED
          BY <1>5, <5>1
      <4> QED
        BY <4>1, <4>2, <4>3, SamePart
    <3> QED
      BY <3>9, <3>10 DEF H
  <2>5. PICK at \in 1..Len(m.fields) :
          /\ \A k \in 1..Len(m.fields) : m.fields[k].name = "Content-Length" <=> k = at
          /\ atoi(m.fields[at].value[1][1]) = Len(m.body)
    BY PlainResponses
  <2>6. PICK control \in 0..Len(m.fields) :
          \A k \in 1..Len(m.fields) : m.fields[k].name = "Cache-Control" <=> k = control
    BY PlainResponses
  <2>7. ResLoop(Awaits(AfterFields(m, at, control, 0), "field"), HeaderWords(m))
          = Awaits(AfterFields(m, at, control, Len(m.fields)), "field")
    BY <1>1, <2>5, <2>6, ResReadsFields
  <2>8. [new_res_head EXCEPT !.header_length = n + 1] = AfterFields(m, at, control, 0)
    <3>1. ~(at <= 0) /\ control \notin 1..0
      OBVIOUS
    <3>2. BlankAt(m) = n + 1
      BY <1>2
    <3>3. AfterFields(m, at, control, 0) =
            [max_age |-> DefaultMaxAge, header_length |-> n + 1, content_length |-> -1]
      BY <3>1, <3>2 DEF AfterFields
    <3>4. [new_res_head EXCEPT !.header_length = n + 1] =
            [max_age |-> DefaultMaxAge, header_length |-> n + 1, content_length |-> -1]
      BY <1>2, DefaultHeader
    <3> QED
      BY <3>3, <3>4
  <2>9. AfterFields(m, at, control, Len(m.fields)) = ExpectedResponse(m)
    BY <1>1, <2>6, ExpectedOfFields
  <2>10. ResFields([new_res_head EXCEPT !.header_length = n + 1], HeaderWords(m)) = ExpectedResponse(m)
    <3>1. /\ Awaits(ExpectedResponse(m), "field").next = "field"
          /\ Awaits(ExpectedResponse(m), "field").header = ExpectedResponse(m)
      BY DEF Awaits
    <3> QED
      BY <2>7, <2>8, <2>9, <3>1 DEF ResFields
  <2>11. n + 1 # 0
    BY <1>2
  <2> QED
    BY <1>2, <1>6, <1>8, <2>1, <2>3, <2>4, <2>10, <2>11
<1> QED
  BY <1>7, <1>8

\* An outcome of a parser that is no header is none of these.
LEMMA ExpectedIsAHeader ==
  /\ \A m \in Requests : Plain(m) => ExpectedRequest(m) # Fault /\ ExpectedRequest(m) # Incomplete
  /\ \A m \in Responses : Plain(m) =>
       /\ ExpectedResponse(m) # Fault /\ ExpectedResponse(m) # Incomplete
       /\ ExpectedResponse(m).header_length + ExpectedResponse(m).content_length = Len(Words(m))
<1>1. ASSUME NEW m \in Requests, Plain(m)
      PROVE  ExpectedRequest(m) # Fault /\ ExpectedRequest(m) # Incomplete
  <2>1. DOMAIN ExpectedRequest(m) = {"method", "url", "host", "port"}
    BY DEF ExpectedRequest
  <2>2. DOMAIN Fault = {"outcome"} /\ DOMAIN Incomplete = {"outcome"}
    BY DEF Fault, Incomplete
  <2>3. "outcome" \notin {"method", "url", "host", "port"}
    OBVIOUS
  <2> QED
    BY <2>1, <2>2, <2>3
<1>2. ASSUME NEW m \in Responses, Plain(m)
      PROVE  /\ ExpectedResponse(m) # Fault /\ ExpectedResponse(m) # Incomplete
             /\ ExpectedResponse(m).header_length + ExpectedResponse(m).content_length = Len(Words(m))
  <2>1. DOMAIN ExpectedResponse(m) = {"header_length", "content_length", "max_age"}
    BY DEF ExpectedResponse
  <2>2. DOMAIN Fault = {"outcome"} /\ DOMAIN Incomplete = {"outcome"}
    BY DEF Fault, Incomplete
  <2>3. "outcome" \notin {"header_length", "content_length", "max_age"}
    OBVIOUS
  <2>4. ExpectedResponse(m).header_length + ExpectedResponse(m).content_length = Len(Words(m))
    <3> DEFINE n == Len(Head3(m))
               b == Len(m.body)
               w == Len(Words(m))
    <3>1. MessageOk(m)
      BY MessagesAreOk
    <3>2. n \in Nat /\ b \in Nat /\ w = (n + 1) + b
      BY <3>1, WordsShape DEF BlankAt
    <3>3. ExpectedResponse(m).header_length = w - b /\ ExpectedResponse(m).content_length = b
      BY DEF ExpectedResponse
    <3> HIDE DEF n, b, w
    <3>4. (w - b) + b = w
      BY <3>2
    <3> QED
      BY <3>3, <3>4 DEF w
  <2> QED
    BY <2>1, <2>2, <2>3, <2>4
<1> QED
  BY <1>1, <1>2

-------------------------------------------------------------------------------
\* Every step of Assembly does to the memory what PartialBuffer allows, or nothing.
LEMMA MemoryIsUsedAsAllowed == [Next]_vars => [MemoryNext]_memory
<1> SUFFICES ASSUME [Next]_vars PROVE [MemoryNext]_memory
  OBVIOUS
<1>1. ASSUME NEW fd \in Fds, handleNewConnection(fd) \/ ConnectOrigin(fd) PROVE MemoryNext
  BY <1>1 DEF handleNewConnection, ConnectOrigin, Connect, MemoryNext
<1>2. ASSUME NEW fd \in Fds, NextRequest(fd) PROVE UNCHANGED memory
  BY <1>2 DEF NextRequest
<1>3. ASSUME NEW fd \in Fds, Hangup(fd) PROVE MemoryNext
  BY <1>3 DEF Hangup, MemoryNext
<1>4. ASSUME NEW fd \in Fds, NEW n \in 1..BufSize, Read(fd, n) PROVE MemoryNext
  <2>1. \/ Keep(fd, n) \/ Clear(fd, n) \/ Close(fd, n)
        \/ Overflow(fd, n) \/ EndInParser(fd, n)
    <3>1. PICK h \in Outcomes(fd, n) :
            ReadFails(fd, n, h) \/ handleClient(fd, n, h) \/ handleServer(fd, n, h)
      BY <1>4 DEF Read
    <3>2. CASE ReadFails(fd, n, h)
      BY <3>2 DEF ReadFails
    <3>3. CASE handleClient(fd, n, h)
      BY <3>3 DEF handleClient
    <3>4. CASE handleServer(fd, n, h)
      BY <3>4 DEF handleServer
    <3> QED
      BY <3>1, <3>2, <3>3, <3>4
  <2> QED
    BY <2>1 DEF MemoryNext
<1>5. CASE UNCHANGED vars
  BY <1>5 DEF vars
<1> QED
  BY <1>1, <1>2, <1>3, <1>4, <1>5 DEF Next

(***************************************************************************)
(* The message handlers use partial buffers as PartialBuffer lets them:    *)
(* whatever the parsers answer, a step of Assembly is a step of the memory *)
(* or leaves it alone, so what is proved of MemorySpec holds of Spec.      *)
(***************************************************************************)
THEOREM AssemblyUsesMemory == Spec => MemorySpec
<1>1. Init => MemoryInit
  BY DEF Init
<1> QED
  BY <1>1, MemoryIsUsedAsAllowed, PTL DEF Spec, MemorySpec

ExpectedOf(m) == IF m \in Requests THEN ExpectedRequest(m) ELSE ExpectedResponse(m)

TextTypeOK ==
  /\ text \in [Fds -> Seq(Seq(Part))] /\ wire \in [Fds -> Seq(Seq(Part))]
  /\ header = [fd \in Fds |-> header[fd]]

\* What is known of the message on fd, if its peer is understood.
AsSent(fd) ==
  sent[fd] # NoMessage =>
    /\ Plain(sent[fd])
    /\ wire[fd] # <<>> => header[fd] = Incomplete /\ Words(sent[fd]) = text[fd] \o wire[fd]
    /\ wire[fd] = <<>> => /\ header[fd] = ExpectedOf(sent[fd])
                          /\ sent[fd] \in Requests => text[fd] = <<>>
                          /\ sent[fd] \in Responses => fd \notin open

\* An origin that is connected has a node in server_list, whatever else has one.
Known(fd) == fd \in open /\ sent[fd] \in Responses => isServer(fd)

AsMeant ==
  \A fd \in Fds : /\ sent[fd] = NoMessage => wire[fd] = <<>>
                  /\ Understood(fd) /\ ~ended => AsSent(fd)
                  /\ Known(fd)

AssemblyInv == MemoryInv /\ AssemblyTypeOK /\ TextTypeOK /\ AsMeant

\* No connection is open at the start.
LEMMA AssemblyInitInv == Init => AssemblyInv
<1> SUFFICES ASSUME Init PROVE AssemblyInv
  OBVIOUS
<1>1. MemoryInv
  BY MemoryInitInv DEF Init
<1>2. /\ \A fd \in Fds : sent[fd] = NoMessage /\ wire[fd] = <<>> /\ text[fd] = <<>> /\ length[fd] = 0
      /\ open = {} /\ nodes = [fd \in Fds |-> 0]
  BY DEF Init, MemoryInit
<1>3. AssemblyTypeOK
  <2>1. MemoryTypeOK
    BY <1>1 DEF MemoryInv
  <2>2. sent \in [Fds -> Requests \cup Responses \cup {NoMessage}] /\ plain \in [Fds -> BOOLEAN]
    BY DEF Init
  <2>3. \A fd \in Fds : length[fd] = Len(text[fd])
    BY <1>2
  <2>4. nodes \in [Fds -> 0..MaxNodes]
    <3>1. MaxNodes \in Nat \ {0}
      BY AssemblyAssumption
    <3>2. 0 \in 0..MaxNodes
      BY <3>1
    <3> QED
      BY <1>2, <3>2
  <2> QED
    BY <2>1, <2>2, <2>3, <2>4 DEF AssemblyTypeOK
<1>4. TextTypeOK
  <2>1. <<>> \in Seq(Seq(Part))
    OBVIOUS
  <2> QED
    BY <2>1 DEF Init, TextTypeOK
<1>5. AsMeant
  BY <1>2 DEF AsMeant, AsSent, Known
<1> QED
  BY <1>1, <1>3, <1>4, <1>5 DEF AssemblyInv

\* A step on fd leaves the messages on the other connections alone.
LEMMA OnlyOn ==
  ASSUME AsMeant, NEW fd \in Fds, ~ended,
         \A g \in Fds \ {fd} : /\ sent'[g] = sent[g] /\ wire'[g] = wire[g] /\ text'[g] = text[g]
                               /\ header'[g] = header[g] /\ plain'[g] = plain[g]
                               /\ nodes'[g] = nodes[g] /\ (g \in open' <=> g \in open),
         sent'[fd] = NoMessage => wire'[fd] = <<>>,
         Understood(fd)' /\ ~ended' => AsSent(fd)',
         Known(fd)'
  PROVE  AsMeant'
<1> SUFFICES ASSUME NEW g \in Fds
             PROVE  /\ sent'[g] = NoMessage => wire'[g] = <<>>
                    /\ Understood(g)' /\ ~ended' => AsSent(g)'
                    /\ Known(g)'
  BY DEF AsMeant
<1>1. CASE g = fd
  BY <1>1
<1>2. CASE g # fd
  <2>1. /\ sent'[g] = sent[g] /\ wire'[g] = wire[g] /\ text'[g] = text[g]
        /\ header'[g] = header[g] /\ plain'[g] = plain[g]
        /\ nodes'[g] = nodes[g] /\ (g \in open' <=> g \in open)
    BY <1>2
  <2>2. /\ sent[g] = NoMessage => wire[g] = <<>>
        /\ Understood(g) => AsSent(g)
        /\ Known(g)
    BY DEF AsMeant
  <2>3. Understood(g)' => Understood(g)
    BY <2>1 DEF Understood, isServer
  <2>4. AsSent(g) => AsSent(g)'
    BY <2>1 DEF AsSent
  <2>5. Known(g)'
    BY <2>1, <2>2 DEF Known, isServer
  <2> QED
    BY <2>1, <2>2, <2>3, <2>4, <2>5
<1> QED
  BY <1>1, <1>2

\* The words of a message: some, all of them typed.
LEMMA WordsType ==
  ASSUME NEW m \in Requests \cup Responses
  PROVE  Words(m) \in Seq(Seq(Part)) /\ Words(m) # <<>> /\ m # NoMessage
<1> DEFINE t == Words(m)
           n == Len(Head3(m))
           b == Len(m.body)
<1>1. MessageOk(m)
  BY MessagesAreOk
<1>2. t \in Seq(Seq(Part)) /\ n \in Nat /\ b \in Nat /\ Len(t) = (n + 1) + b
  BY <1>1, WordsShape DEF BlankAt
<1> HIDE DEF t, n, b
<1>3. Len(t) # 0
  BY <1>2
<1>4. t # <<>>
  BY <1>3
<1> QED
  BY <1>2, <1>4, AssemblyAssumption DEF t

\* The beginning of a message, in front of which nothing else is left.
LEMMA BeginsAsSent ==
  ASSUME AssemblyInv, NEW fd \in Fds, NEW m \in Requests \cup Responses, NEW before \in BOOLEAN,
         Begin(fd, m, before), Understood(fd)' => text'[fd] = <<>>
  PROVE  /\ sent' \in [Fds -> Requests \cup Responses \cup {NoMessage}]
         /\ plain' \in [Fds -> BOOLEAN] /\ wire' \in [Fds -> Seq(Seq(Part))]
         /\ header' = [g \in Fds |-> header'[g]]
         /\ sent'[fd] = NoMessage => wire'[fd] = <<>>
         /\ sent'[fd] = m /\ (plain'[fd] => before)
         /\ Understood(fd)' => AsSent(fd)'
         /\ \A g \in Fds \ {fd} : /\ sent'[g] = sent[g] /\ wire'[g] = wire[g]
                                  /\ header'[g] = header[g] /\ plain'[g] = plain[g]
<1>1. /\ sent \in [Fds -> Requests \cup Responses \cup {NoMessage}]
      /\ plain \in [Fds -> BOOLEAN] /\ wire \in [Fds -> Seq(Seq(Part))]
      /\ header = [g \in Fds |-> header[g]]
  BY DEF AssemblyInv, AssemblyTypeOK, TextTypeOK
<1>2. Words(m) \in Seq(Seq(Part)) /\ Words(m) # <<>> /\ m # NoMessage
  BY WordsType
<1>3. /\ plain' = [plain EXCEPT ![fd] = before /\ Plain(m)]
      /\ sent' = [sent EXCEPT ![fd] = m]
      /\ wire' = [wire EXCEPT ![fd] = Words(m)]
      /\ header' = [header EXCEPT ![fd] = Incomplete]
  BY DEF Begin
<1>4. /\ sent'[fd] = m /\ wire'[fd] = Words(m) /\ header'[fd] = Incomplete
      /\ plain'[fd] = (before /\ Plain(m))
  BY <1>1, <1>3
<1>5. Understood(fd)' => AsSent(fd)'
  <2> SUFFICES ASSUME Understood(fd)', Plain(m) PROVE AsSent(fd)'
    BY <1>4 DEF Understood
  <2>1. text'[fd] = <<>>
    OBVIOUS
  <2>2. Words(m) = <<>> \o Words(m)
    BY <1>2, ConcatEmptySeq
  <2> QED
    BY <1>2, <1>4, <2>1, <2>2 DEF AsSent
<1>6. plain' \in [Fds -> BOOLEAN]
  BY <1>1, <1>3
<1>7. sent' \in [Fds -> Requests \cup Responses \cup {NoMessage}]
  BY <1>1, <1>3
<1>8. wire' \in [Fds -> Seq(Seq(Part))] /\ header' = [g \in Fds |-> header'[g]]
  BY <1>1, <1>2, <1>3
<1> QED
  BY <1>1, <1>2, <1>3, <1>4, <1>5, <1>6, <1>7, <1>8

\* A new connection starts with nothing arrived and a message on the wire.
LEMMA ConnectInv ==
  ASSUME AssemblyInv, NEW fd \in Fds, handleNewConnection(fd) \/ ConnectOrigin(fd)
  PROVE  AssemblyInv'
<1>0. /\ nodes \in [Fds -> 0..MaxNodes] /\ MaxNodes \in Nat
      /\ Requests \cap Responses = {}
  BY AssemblyAssumption DEF AssemblyInv, AssemblyTypeOK
<1>1. PICK m \in Requests \cup Responses :
        /\ Connect(fd, Requests) \/ Connect(fd, Responses)
        /\ Begin(fd, m, TRUE)
        /\ nodes' \in [Fds -> 0..MaxNodes]
        /\ \A g \in Fds \ {fd} : nodes'[g] = nodes[g]
        /\ m \in Responses => isServer(fd)'
  <2>1. CASE handleNewConnection(fd)
    <3>1. PICK m \in Requests : Begin(fd, m, TRUE)
      BY <2>1 DEF handleNewConnection, Connect
    <3>2. Connect(fd, Requests) /\ nodes' = nodes /\ m \notin Responses
      BY <1>0, <2>1 DEF handleNewConnection
    <3> QED
      BY <1>0, <3>1, <3>2
  <2>2. CASE ConnectOrigin(fd)
    <3>1. PICK m \in Responses : Begin(fd, m, TRUE)
      BY <2>2 DEF ConnectOrigin, Connect
    <3>2. /\ Connect(fd, Responses)
          /\ nodes[fd] < MaxNodes /\ nodes' = [nodes EXCEPT ![fd] = nodes[fd] + 1]
      BY <2>2 DEF ConnectOrigin, pushFrontServerNode
    <3>3. nodes[fd] + 1 \in 0..MaxNodes /\ nodes[fd] + 1 > 0
      BY <1>0, <3>2
    <3>4. isServer(fd)'
      BY <1>0, <3>2, <3>3 DEF isServer
    <3>5. nodes' \in [Fds -> 0..MaxNodes] /\ \A g \in Fds \ {fd} : nodes'[g] = nodes[g]
      BY <1>0, <3>2, <3>3
    <3> QED
      BY <3>1, <3>2, <3>4, <3>5
  <2> QED
    BY <2>1, <2>2
<1>2. /\ Open(fd) /\ ~ended /\ ended' = ended
      /\ open' = open \cup {fd} /\ length' = [length EXCEPT ![fd] = 0]
      /\ text' = [text EXCEPT ![fd] = <<>>]
  BY <1>1 DEF Connect, Open
<1>3. /\ text \in [Fds -> Seq(Seq(Part))] /\ length \in [Fds -> Nat]
      /\ \A g \in Fds : length[g] = Len(text[g])
  BY DEF AssemblyInv, AssemblyTypeOK, MemoryTypeOK, TextTypeOK
<1>4. /\ text' \in [Fds -> Seq(Seq(Part))] /\ text'[fd] = <<>> /\ length'[fd] = 0
      /\ \A g \in Fds \ {fd} : text'[g] = text[g] /\ length'[g] = length[g]
  BY <1>2, <1>3
<1>5. /\ sent' \in [Fds -> Requests \cup Responses \cup {NoMessage}]
      /\ plain' \in [Fds -> BOOLEAN] /\ wire' \in [Fds -> Seq(Seq(Part))]
      /\ header' = [g \in Fds |-> header'[g]]
      /\ sent'[fd] = NoMessage => wire'[fd] = <<>>
      /\ sent'[fd] = m /\ (Understood(fd)' => AsSent(fd)')
      /\ \A g \in Fds \ {fd} : /\ sent'[g] = sent[g] /\ wire'[g] = wire[g]
                               /\ header'[g] = header[g] /\ plain'[g] = plain[g]
  BY <1>1, <1>4, BeginsAsSent
<1>6. MemoryInv'
  BY <1>2, OpenInv DEF AssemblyInv
<1>7. AssemblyTypeOK'
  <2>1. \A g \in Fds : length'[g] = Len(text'[g])
    <3>1. Len(<<>>) = 0
      OBVIOUS
    <3>2. length'[fd] = Len(text'[fd])
      BY <1>4, <3>1
    <3> QED
      BY <1>3, <1>4, <3>2
  <2> QED
    BY <1>1, <1>5, <1>6, <2>1 DEF AssemblyTypeOK, MemoryInv
<1>8. TextTypeOK'
  BY <1>4, <1>5 DEF TextTypeOK
<1>9. AsMeant'
  <2>1. \A g \in Fds \ {fd} : g \in open' <=> g \in open
    BY <1>2
  <2>2. AsMeant
    BY DEF AssemblyInv
  <2>3. Known(fd)'
    BY <1>1, <1>5 DEF Known
  <2> QED
    BY <1>1, <1>2, <1>4, <1>5, <2>1, <2>2, <2>3, OnlyOn
<1> QED
  BY <1>6, <1>7, <1>8, <1>9 DEF AssemblyInv

\* A peer that sends its next request has had its last one consumed.
LEMMA NextRequestInv ==
  ASSUME AssemblyInv, NEW fd \in Fds, NextRequest(fd) PROVE AssemblyInv'
<1>1. PICK m \in Requests : Begin(fd, m, plain[fd])
  BY DEF NextRequest
<1>2. /\ ~ended /\ sent[fd] \in Requests /\ wire[fd] = <<>>
      /\ UNCHANGED memory /\ text' = text /\ nodes' = nodes /\ fd \in open
  BY DEF NextRequest
<1>3. /\ open' = open /\ size' = size /\ length' = length /\ list_size' = list_size
      /\ max_sock' = max_sock /\ ended' = ended
  BY <1>2 DEF memory
<1>4. plain[fd] \in BOOLEAN /\ (Understood(fd)' => text'[fd] = <<>>)
  <2>1. sent[fd] # NoMessage
    BY <1>2, WordsType
  <2>2. Understood(fd) => AsSent(fd)
    BY <1>2 DEF AssemblyInv, AsMeant
  <2>3. plain[fd] \in BOOLEAN /\ plain'[fd] = (plain[fd] /\ Plain(m)) /\ sent'[fd] = m
    BY <1>1 DEF Begin, AssemblyInv, AssemblyTypeOK
  <2>4. Understood(fd)' => Understood(fd)
    BY <1>2, <2>3 DEF Understood, isServer
  <2> QED
    BY <1>2, <2>1, <2>2, <2>3, <2>4 DEF AsSent
<1>5. /\ sent' \in [Fds -> Requests \cup Responses \cup {NoMessage}]
      /\ plain' \in [Fds -> BOOLEAN] /\ wire' \in [Fds -> Seq(Seq(Part))]
      /\ header' = [g \in Fds |-> header'[g]]
      /\ sent'[fd] = NoMessage => wire'[fd] = <<>>
      /\ sent'[fd] = m /\ (Understood(fd)' => AsSent(fd)')
      /\ \A g \in Fds \ {fd} : /\ sent'[g] = sent[g] /\ wire'[g] = wire[g]
                               /\ header'[g] = header[g] /\ plain'[g] = plain[g]
  BY <1>1, <1>4, BeginsAsSent
<1>6. MemoryInv'
  <2>1. [MemoryNext]_memory
    BY <1>2
  <2> QED
    BY <2>1, MemoryStep DEF AssemblyInv
<1>7. AssemblyTypeOK'
  BY <1>2, <1>3, <1>5, <1>6 DEF AssemblyInv, AssemblyTypeOK, MemoryInv
<1>8. TextTypeOK'
  BY <1>2, <1>5 DEF AssemblyInv, TextTypeOK
<1>9. AsMeant'
  <2>1. AsMeant
    BY DEF AssemblyInv
  <2>2. Known(fd)'
    BY <1>5, AssemblyAssumption DEF Known
  <2> QED
    BY <1>2, <1>3, <1>5, <2>1, <2>2, OnlyOn
<1> QED
  BY <1>6, <1>7, <1>8, <1>9 DEF AssemblyInv

\* A peer that closes leaves nothing behind.
LEMMA HangupInv ==
  ASSUME AssemblyInv, NEW fd \in Fds, Hangup(fd) PROVE AssemblyInv'
<1>1. /\ Disconnect(fd) /\ ~ended /\ ended' = ended
      /\ open' = open \ {fd} /\ length' = [length EXCEPT ![fd] = 0]
      /\ text' = [text EXCEPT ![fd] = <<>>]
      /\ wire' = [wire EXCEPT ![fd] = <<>>]
      /\ sent' = [sent EXCEPT ![fd] = NoMessage]
      /\ plain' = [plain EXCEPT ![fd] = TRUE]
      /\ header' = [header EXCEPT ![fd] = Incomplete]
      /\ nodes' = nodes /\ nodes \in [Fds -> 0..MaxNodes]
  BY DEF Hangup, Disconnect, AssemblyInv, AssemblyTypeOK
<1>2. /\ text \in [Fds -> Seq(Seq(Part))] /\ wire \in [Fds -> Seq(Seq(Part))]
      /\ sent \in [Fds -> Requests \cup Responses \cup {NoMessage}]
      /\ plain \in [Fds -> BOOLEAN] /\ header = [g \in Fds |-> header[g]]
      /\ length \in [Fds -> Nat] /\ \A g \in Fds : length[g] = Len(text[g])
  BY DEF AssemblyInv, AssemblyTypeOK, MemoryTypeOK, TextTypeOK
<1>3. <<>> \in Seq(Seq(Part)) /\ Len(<<>>) = 0
  OBVIOUS
<1>4. MemoryInv'
  BY <1>1, DisconnectInv DEF AssemblyInv
<1>5. AssemblyTypeOK'
  <2>1. \A g \in Fds : length'[g] = Len(text'[g])
    BY <1>1, <1>2, <1>3
  <2>2. sent' \in [Fds -> Requests \cup Responses \cup {NoMessage}] /\ plain' \in [Fds -> BOOLEAN]
    BY <1>1, <1>2
  <2> QED
    BY <1>1, <1>4, <2>1, <2>2 DEF AssemblyTypeOK, MemoryInv
<1>6. TextTypeOK'
  <2>1. text' \in [Fds -> Seq(Seq(Part))] /\ wire' \in [Fds -> Seq(Seq(Part))]
    BY <1>1, <1>2, <1>3
  <2>2. header' = [g \in Fds |-> header'[g]]
    BY <1>1, <1>2
  <2> QED
    BY <2>1, <2>2 DEF TextTypeOK
<1>7. AsMeant'
  <2>1. AsMeant
    BY DEF AssemblyInv
  <2>2. sent'[fd] = NoMessage /\ wire'[fd] = <<>>
    BY <1>1, <1>2
  <2>3. AsSent(fd)'
    BY <2>2 DEF AsSent
  <2>4. \A g \in Fds \ {fd} : /\ sent'[g] = sent[g] /\ wire'[g] = wire[g] /\ text'[g] = text[g]
                             /\ header'[g] = header[g] /\ plain'[g] = plain[g]
                             /\ nodes'[g] = nodes[g] /\ (g \in open' <=> g \in open)
    BY <1>1, <1>2
  <2>5. Known(fd)'
    BY <1>1 DEF Known
  <2> QED
    BY <1>1, <2>1, <2>2, <2>3, <2>4, <2>5, OnlyOn
<1> QED
  BY <1>4, <1>5, <1>6, <1>7 DEF AssemblyInv

\* A read takes from the front of what is on the wire.
LEMMA ReadSplits ==
  ASSUME AssemblyInv, NEW fd \in Fds, NEW n \in 1..BufSize, n <= Len(wire[fd])
  PROVE  LET rest == SubSeq(wire[fd], n + 1, Len(wire[fd]))
         IN  /\ Received(fd, n) \in Seq(Seq(Part)) /\ rest \in Seq(Seq(Part))
             /\ Len(Received(fd, n)) = length[fd] + n
             /\ text[fd] \o wire[fd] = Received(fd, n) \o rest
             /\ wire[fd] # <<>> /\ rest # wire[fd]
<1> DEFINE W == Seq(Part)
           t == text[fd]
           w == wire[fd]
           taken == SubSeq(w, 1, n)
           rest == SubSeq(w, n + 1, Len(w))
<1>1. t \in Seq(W) /\ w \in Seq(W) /\ length[fd] = Len(t)
  BY DEF AssemblyInv, AssemblyTypeOK, TextTypeOK
<1>2. n \in Nat /\ n >= 1 /\ n <= Len(w) /\ Len(w) \in Nat /\ Len(t) \in Nat
  <2>1. n \in Nat /\ n >= 1
    BY PartialBufferAssumption
  <2> QED
    BY <1>1, <2>1, LenProperties
<1> HIDE DEF W, t, w
<1>3. \A k \in 1..Len(w) : w[k] \in W
  BY <1>1, ElementOfSeq
<1>4. taken \in Seq(W) /\ Len(taken) = n
  <2>1. 1 \in Int /\ n \in Int /\ \A k \in 1..n : w[k] \in W
    BY <1>2, <1>3
  <2>2. taken \in Seq(W) /\ Len(taken) = IF 1 <= n THEN (n - 1) + 1 ELSE 0
    BY <2>1, SubSeqProperties
  <2> HIDE DEF taken
  <2> QED
    BY <1>2, <2>2
<1>5. rest \in Seq(W) /\ Len(rest) = Len(w) - n
  <2>1. n + 1 \in Int /\ Len(w) \in Int /\ \A k \in (n + 1)..Len(w) : w[k] \in W
    BY <1>2, <1>3
  <2>2. rest \in Seq(W) /\ Len(rest) = IF n + 1 <= Len(w) THEN (Len(w) - (n + 1)) + 1 ELSE 0
    BY <2>1, SubSeqProperties
  <2> HIDE DEF rest
  <2> QED
    BY <1>2, <2>2
<1>6. taken \o rest = w
  <2>1. 1 \in 1..(Len(w) + 1) /\ n \in (1 - 1)..Len(w) /\ Len(w) \in n..Len(w)
    BY <1>2
  <2>2. SubSeq(w, 1, n) \o SubSeq(w, n + 1, Len(w)) = SubSeq(w, 1, Len(w))
    BY <1>1, <2>1, ConcatAdjacentSubSeq
  <2>3. SubSeq(w, 1, Len(w)) = w
    BY <1>1, SubSeqFull
  <2> QED
    BY <2>2, <2>3
<1> HIDE DEF taken, rest
<1>7. t \o taken \in Seq(W) /\ Len(t \o taken) = Len(t) + n
  BY <1>1, <1>4, ConcatProperties
<1>8. t \o w = (t \o taken) \o rest
  <2>1. Associative(W)
    BY ConcatIsAssociative, Zenon
  <2>2. t \in Seq(W) /\ taken \in Seq(W) /\ rest \in Seq(W)
    BY <1>1, <1>4, <1>5
  <2>3. (t \o taken) \o rest = t \o (taken \o rest)
    BY <2>1, <2>2, Zenon DEF Associative
  <2> QED
    BY <1>6, <2>3
<1>9. w # <<>> /\ rest # w
  <2>1. Len(w) # 0 /\ Len(rest) # Len(w)
    BY <1>2, <1>5
  <2> QED
    BY <2>1
<1> QED
  BY <1>1, <1>5, <1>7, <1>8, <1>9 DEF Received, W, t, w, taken, rest

\* A read of what an understood peer sent.
LEMMA PlainRead ==
  ASSUME AssemblyInv, NEW fd \in Fds, NEW n \in 1..BufSize, n <= Len(wire[fd]),
         ~ended, Understood(fd), fd \in open, NEW h \in Outcomes(fd, n)
  PROVE  LET rest == SubSeq(wire[fd], n + 1, Len(wire[fd]))
             m == sent[fd]
         IN  /\ m \in Requests \cup Responses /\ Plain(m) /\ header[fd] = Incomplete
             /\ Words(m) = Received(fd, n) \o rest
             /\ m \in Requests =>
                  h = IF rest = <<>> THEN ExpectedOf(m) ELSE Incomplete
             /\ m \in Responses =>
                  /\ Complete(h, length[fd] + n) <=> rest = <<>>
                  /\ rest = <<>> => h = ExpectedOf(m)
             /\ h # Fault /\ ExpectedOf(m) # Incomplete
             /\ ~(Full(fd, n) /\ 2 * size[fd] > MaxInt)
<1> DEFINE rest == SubSeq(wire[fd], n + 1, Len(wire[fd]))
           m == sent[fd]
           a == Received(fd, n)
<1>1. /\ a \in Seq(Seq(Part)) /\ rest \in Seq(Seq(Part)) /\ Len(a) = length[fd] + n
      /\ text[fd] \o wire[fd] = a \o rest /\ wire[fd] # <<>>
  BY ReadSplits
<1>2. m \in Requests \cup Responses
  <2>1. m # NoMessage /\ m \in Requests \cup Responses \cup {NoMessage}
    BY <1>1 DEF AssemblyInv, AsMeant, AssemblyTypeOK
  <2> QED
    BY <2>1
<1>3. Plain(m) /\ header[fd] = Incomplete /\ Words(m) = a \o rest
  <2>1. AsSent(fd) /\ m # NoMessage
    BY <1>2, WordsType DEF AssemblyInv, AsMeant
  <2> QED
    BY <1>1, <2>1 DEF AsSent
<1> HIDE DEF rest, m, a
<1>4. /\ Len(a) \in Nat /\ Len(rest) \in Nat /\ Len(Words(m)) = Len(a) + Len(rest)
      /\ (rest = <<>> <=> Len(rest) = 0)
  <2> DEFINE t == Words(m)
  <2>1. a \in Seq(Seq(Part)) /\ rest \in Seq(Seq(Part)) /\ t = a \o rest
    BY <1>1, <1>3
  <2> HIDE DEF t
  <2>2. /\ Len(a) \in Nat /\ Len(rest) \in Nat /\ Len(t) = Len(a) + Len(rest)
        /\ (rest = <<>> <=> Len(rest) = 0)
    BY <2>1, ArrivedAndNot
  <2> QED
    BY <2>2 DEF t
<1>5. /\ ExpectedOf(m) # Fault /\ ExpectedOf(m) # Incomplete /\ Fault # Incomplete
  <2>1. Fault # Incomplete
    BY DEF Fault, Incomplete
  <2> QED
    BY <1>2, <1>3, <2>1, ExpectedIsAHeader DEF ExpectedOf
<1>6. ~(Full(fd, n) /\ 2 * size[fd] > MaxInt)
  <2> DEFINE l == Len(a)
             r == Len(rest)
             all == Len(Words(m))
             s == size[fd]
  <2>1. s \in Nat /\ length[fd] \in Nat /\ n \in Nat
    BY PartialBufferAssumption DEF AssemblyInv, MemoryInv, MemoryTypeOK
  <2>2. l \in Nat /\ r \in Nat /\ all = l + r /\ all <= MaxInt \div 2 /\ MaxInt \in Nat
        /\ l = length[fd] + n
    BY <1>1, <1>3, <1>4, PartialBufferAssumption DEF Plain
  <2> HIDE DEF l, r, all, s
  <2>3. Full(fd, n) => s <= l
    BY <2>1, <2>2 DEF Full, s
  <2>4. l <= MaxInt \div 2
    BY <2>2
  <2>5. s <= l => 2 * s <= MaxInt
    BY <2>1, <2>2, <2>4
  <2> QED
    BY <2>1, <2>2, <2>3, <2>5 DEF s
<1>7. ASSUME m \in Requests
      PROVE  h = IF rest = <<>> THEN ExpectedOf(m) ELSE Incomplete
  <2>1. h = parse_http_req(a)
    BY <1>7 DEF Understood, Outcomes, m, a
  <2>2. parse_http_req(a) = IF rest = <<>> THEN ExpectedRequest(m) ELSE Incomplete
    BY <1>1, <1>3, <1>7, RequestSoFar
  <2> QED
    BY <1>7, <2>1, <2>2 DEF ExpectedOf
<1>8. ASSUME m \in Responses
      PROVE  /\ Complete(h, length[fd] + n) <=> rest = <<>>
             /\ rest = <<>> => h = ExpectedOf(m)
             /\ h \in {ExpectedOf(m), Incomplete}
  <2>1. m \notin Requests
    BY <1>8, AssemblyAssumption
  <2>2. h = parse_http_res(a)
    <3>1. isServer(fd)
      BY <1>8 DEF AssemblyInv, AsMeant, Known, m
    <3> QED
      BY <2>1, <3>1 DEF Outcomes, m, a
  <2>3. h = IF BlankAt(m) <= Len(a) THEN ExpectedOf(m) ELSE Incomplete
    <3>1. parse_http_res(a) = IF BlankAt(m) <= Len(a) THEN ExpectedResponse(m) ELSE Incomplete
      BY <1>1, <1>3, <1>8, ResponseSoFar
    <3> QED
      BY <2>1, <2>2, <3>1 DEF ExpectedOf
  <2>4. ExpectedOf(m).header_length + ExpectedOf(m).content_length = Len(Words(m))
    BY <1>3, <1>8, <2>1, ExpectedIsAHeader DEF ExpectedOf
  <2>5. rest = <<>> => BlankAt(m) <= Len(a)
    <3> DEFINE b == Len(Head3(m))
               y == Len(m.body)
               all == Len(Words(m))
    <3>1. b \in Nat /\ y \in Nat /\ all = (b + 1) + y /\ BlankAt(m) = b + 1
      BY <1>8, MessagesAreOk, WordsShape DEF BlankAt
    <3> HIDE DEF b, y, all
    <3>2. all = Len(a) + Len(rest)
      BY <1>4 DEF all
    <3> QED
      BY <1>4, <3>1, <3>2
  <2>6. Complete(h, length[fd] + n) <=> rest = <<>>
    <3>1. Len(Words(m)) = length[fd] + n <=> rest = <<>>
      BY <1>1, <1>4
    <3>2. CASE BlankAt(m) <= Len(a)
      BY <1>5, <2>3, <2>4, <3>1, <3>2 DEF Complete
    <3>3. CASE ~(BlankAt(m) <= Len(a))
      BY <2>3, <2>5, <3>3 DEF Complete
    <3> QED
      BY <3>2, <3>3
  <2> QED
    BY <2>3, <2>5, <2>6
<1>9. h # Fault
  <2>1. m \in Requests \/ m \in Responses
    BY <1>2
  <2> QED
    BY <1>5, <1>7, <1>8, <2>1
<1> QED
  BY <1>2, <1>3, <1>5, <1>6, <1>7, <1>8, <1>9 DEF rest, m, a

\* Whatever the handler makes of a read: what it leaves of the text and of the header.
LEMMA HandledInv ==
  ASSUME AssemblyInv, NEW fd \in Fds, NEW n \in 1..BufSize, n <= Len(wire[fd]), ~ended, ~ended',
         NEW x \in Seq(Seq(Part)), text' = [text EXCEPT ![fd] = x],
         length' = [length EXCEPT ![fd] = Len(x)],
         NEW y, header' = [header EXCEPT ![fd] = y],
         wire' = [wire EXCEPT ![fd] = SubSeq(wire[fd], n + 1, Len(wire[fd]))],
         sent' = sent, plain' = plain, nodes' \in [Fds -> 0..MaxNodes],
         \A g \in Fds \ {fd} : nodes'[g] = nodes[g] /\ (g \in open' <=> g \in open),
         MemoryInv', Understood(fd)' => AsSent(fd)', Known(fd)'
  PROVE  AssemblyInv'
<1> DEFINE rest == SubSeq(wire[fd], n + 1, Len(wire[fd]))
<1>1. rest \in Seq(Seq(Part)) /\ wire[fd] # <<>>
  BY ReadSplits
<1>2. wire' = [wire EXCEPT ![fd] = rest]
  OBVIOUS
<1> HIDE DEF rest
<1>3. /\ text \in [Fds -> Seq(Seq(Part))] /\ wire \in [Fds -> Seq(Seq(Part))]
      /\ header = [g \in Fds |-> header[g]]
      /\ length \in [Fds -> Nat] /\ \A g \in Fds : length[g] = Len(text[g])
      /\ AsMeant
      /\ sent \in [Fds -> Requests \cup Responses \cup {NoMessage}] /\ plain \in [Fds -> BOOLEAN]
  BY DEF AssemblyInv, AssemblyTypeOK, MemoryTypeOK, TextTypeOK
<1>4. AssemblyTypeOK'
  <2>1. \A g \in Fds : length'[g] = Len(text'[g])
    BY <1>3
  <2> QED
    BY <1>3, <2>1 DEF AssemblyTypeOK, MemoryInv
<1>5. TextTypeOK'
  <2>1. text' \in [Fds -> Seq(Seq(Part))]
    BY <1>3
  <2>2. wire' \in [Fds -> Seq(Seq(Part))]
    BY <1>1, <1>2, <1>3
  <2>3. header' = [g \in Fds |-> header'[g]]
    BY <1>3
  <2> QED
    BY <2>1, <2>2, <2>3 DEF TextTypeOK
<1>6. AsMeant'
  <2>1. sent'[fd] # NoMessage
    BY <1>1, <1>3 DEF AsMeant
  <2>2. \A g \in Fds \ {fd} : wire'[g] = wire[g] /\ text'[g] = text[g] /\ header'[g] = header[g]
    BY <1>2, <1>3
  <2> QED
    BY <1>3, <2>1, <2>2, OnlyOn
<1> QED
  BY <1>4, <1>5, <1>6 DEF AssemblyInv

\* A read of what an understood peer sent, as the handlers see it.
LEMMA ReadOfUnderstood ==
  ASSUME AssemblyInv, NEW fd \in Fds, NEW n \in 1..BufSize, Read(fd, n),
         NEW h \in Outcomes(fd, n), Understood(fd)
  PROVE  LET rest == SubSeq(wire[fd], n + 1, Len(wire[fd])) IN
         /\ sent[fd] \in Requests \cup Responses /\ Plain(sent[fd]) /\ header[fd] = Incomplete
         /\ Words(sent[fd]) = Received(fd, n) \o rest
         /\ sent[fd] \in Requests =>
              h = IF rest = <<>> THEN ExpectedOf(sent[fd]) ELSE Incomplete
         /\ sent[fd] \in Responses =>
              /\ Complete(h, length[fd] + n) <=> rest = <<>>
              /\ rest = <<>> => h = ExpectedOf(sent[fd])
         /\ ExpectedOf(sent[fd]) # Incomplete /\ ~ReadFails(fd, n, h)
<1>1. ~ended /\ fd \in open /\ n <= Len(wire[fd])
  BY DEF Read
<1>2. h # Fault /\ ~(Full(fd, n) /\ 2 * size[fd] > MaxInt)
  BY <1>1, PlainRead
<1>3. ~ReadFails(fd, n, h)
  BY <1>2 DEF ReadFails, Overflow
<1> QED
  BY <1>1, <1>3, PlainRead

\* handleClient is given a read.
LEMMA ClientReadInv ==
  ASSUME AssemblyInv, NEW fd \in Fds, NEW n \in 1..BufSize, Read(fd, n),
         NEW h \in Outcomes(fd, n), ~isServer(fd), handleClient(fd, n, h), MemoryInv'
  PROVE  AssemblyInv'
<1> DEFINE rest == SubSeq(wire[fd], n + 1, Len(wire[fd]))
           a == Received(fd, n)
<1>1. /\ ~ended /\ fd \in open /\ n <= Len(wire[fd]) /\ nodes' = nodes
      /\ wire' = [wire EXCEPT ![fd] = rest] /\ sent' = sent /\ plain' = plain
  BY DEF Read, handleClient
<1>2. a \in Seq(Seq(Part)) /\ Len(a) = length[fd] + n
  BY <1>1, ReadSplits
<1>3. /\ wire \in [Fds -> Seq(Seq(Part))] /\ header = [g \in Fds |-> header[g]]
      /\ text \in [Fds -> Seq(Seq(Part))] /\ nodes \in [Fds -> 0..MaxNodes]
  BY DEF AssemblyInv, AssemblyTypeOK, TextTypeOK
<1>4. wire'[fd] = rest /\ sent'[fd] = sent[fd]
  BY <1>1, <1>3
<1>5. Understood(fd)' => Understood(fd)
  BY <1>1 DEF Understood, isServer
<1>6. Known(fd)'
  BY <1>1 DEF AssemblyInv, AsMeant, Known, isServer
<1>7. sent[fd] \notin Responses
  BY <1>1 DEF AssemblyInv, AsMeant, Known
<1>8. ASSUME Understood(fd)
      PROVE  /\ sent[fd] \in Requests /\ Plain(sent[fd]) /\ header[fd] = Incomplete
             /\ Words(sent[fd]) = a \o rest
             /\ h = IF rest = <<>> THEN ExpectedOf(sent[fd]) ELSE Incomplete
             /\ ExpectedOf(sent[fd]) # Incomplete
  BY <1>7, <1>8, ReadOfUnderstood
<1> HIDE DEF rest, a
<1>9. CASE h = Incomplete
  <2>1. Keep(fd, n) /\ text' = [text EXCEPT ![fd] = a] /\ header' = header
    BY <1>9 DEF handleClient, a
  <2>2. /\ length' = [length EXCEPT ![fd] = Len(a)] /\ open' = open /\ ended' = ended
        /\ header' = [header EXCEPT ![fd] = header[fd]]
    BY <1>2, <1>3, <2>1 DEF Keep, insertPartialBuffer
  <2>3. Understood(fd)' => AsSent(fd)'
    <3> SUFFICES ASSUME Understood(fd) PROVE AsSent(fd)'
      BY <1>5
    <3>1. rest # <<>>
      BY <1>8, <1>9
    <3>2. text'[fd] = a /\ header'[fd] = Incomplete
      BY <1>3, <1>8, <2>1
    <3> QED
      BY <1>4, <1>8, <3>1, <3>2 DEF AsSent
  <2> QED
    BY <1>1, <1>2, <1>3, <1>6, <2>1, <2>2, <2>3, HandledInv DEF rest
<1>10. CASE h # Incomplete
  <2>1. Clear(fd, n) /\ text' = [text EXCEPT ![fd] = <<>>] /\ header' = [header EXCEPT ![fd] = h]
    BY <1>10 DEF handleClient
  <2>2. /\ length' = [length EXCEPT ![fd] = Len(<<>>)] /\ open' = open /\ ended' = ended
        /\ <<>> \in Seq(Seq(Part))
    BY <2>1 DEF Clear, insertPartialBuffer
  <2>3. Understood(fd)' => AsSent(fd)'
    <3> SUFFICES ASSUME Understood(fd) PROVE AsSent(fd)'
      BY <1>5
    <3>1. rest = <<>> /\ h = ExpectedOf(sent[fd])
      BY <1>8, <1>10
    <3>2. text'[fd] = <<>> /\ header'[fd] = ExpectedOf(sent[fd])
      BY <1>3, <2>1, <3>1
    <3> QED
      BY <1>4, <1>7, <1>8, <3>1, <3>2 DEF AsSent
  <2> QED
    BY <1>1, <1>2, <1>3, <1>6, <2>1, <2>2, <2>3, HandledInv DEF rest
<1> QED
  BY <1>9, <1>10

\* handleServer is given a read.
LEMMA ServerReadInv ==
  ASSUME AssemblyInv, NEW fd \in Fds, NEW n \in 1..BufSize, Read(fd, n),
         NEW h \in Outcomes(fd, n), isServer(fd), handleServer(fd, n, h), MemoryInv'
  PROVE  AssemblyInv'
<1> DEFINE rest == SubSeq(wire[fd], n + 1, Len(wire[fd]))
           a == Received(fd, n)
<1>1. /\ ~ended /\ fd \in open /\ n <= Len(wire[fd])
      /\ wire' = [wire EXCEPT ![fd] = rest] /\ sent' = sent /\ plain' = plain
      /\ text' = [text EXCEPT ![fd] = a]
  BY DEF Read, handleServer
<1>2. a \in Seq(Seq(Part)) /\ Len(a) = length[fd] + n
  BY <1>1, ReadSplits
<1>3. /\ wire \in [Fds -> Seq(Seq(Part))] /\ header = [g \in Fds |-> header[g]]
      /\ text \in [Fds -> Seq(Seq(Part))] /\ nodes \in [Fds -> 0..MaxNodes]
      /\ MaxNodes \in Nat
  BY AssemblyAssumption DEF AssemblyInv, AssemblyTypeOK, TextTypeOK
<1>4. wire'[fd] = rest /\ sent'[fd] = sent[fd] /\ plain'[fd] = plain[fd]
  BY <1>1, <1>3
<1>5. ASSUME Understood(fd), sent[fd] \in Responses
      PROVE  /\ Plain(sent[fd]) /\ header[fd] = Incomplete
             /\ Words(sent[fd]) = a \o rest
             /\ Complete(h, length[fd] + n) <=> rest = <<>>
             /\ rest = <<>> => h = ExpectedOf(sent[fd])
             /\ sent[fd] \notin Requests
  <2>1. sent[fd] \notin Requests
    BY <1>5, AssemblyAssumption
  <2> QED
    BY <1>5, <2>1, ReadOfUnderstood
<1>6. sent[fd] \in Requests \cup Responses
  <2>1. wire[fd] # <<>>
    BY <1>1, ReadSplits
  <2> QED
    BY <2>1 DEF AssemblyInv, AsMeant, AssemblyTypeOK
<1>7. ASSUME Understood(fd)', fd \in open' => isServer(fd)'
      PROVE  Understood(fd) /\ sent[fd] \in Responses
  BY <1>4, <1>6, <1>7 DEF Understood
<1> HIDE DEF rest, a
<1>8. CASE Complete(h, length[fd] + n)
  <2>1. /\ Close(fd, n) /\ header' = [header EXCEPT ![fd] = h]
        /\ nodes' = [nodes EXCEPT ![fd] = nodes[fd] - 1]
    BY <1>8 DEF handleServer, deleteFromServerList
  <2>2. /\ length' = [length EXCEPT ![fd] = Len(a)] /\ open' = open \ {fd} /\ ended' = ended
    BY <1>2, <2>1 DEF Close, insertPartialBuffer
  <2>3. nodes' \in [Fds -> 0..MaxNodes] /\ \A g \in Fds \ {fd} : nodes'[g] = nodes[g]
    <3>1. nodes[fd] - 1 \in 0..MaxNodes
      BY <1>3 DEF isServer
    <3> QED
      BY <1>3, <2>1, <3>1
  <2>4. Understood(fd)' => AsSent(fd)'
    <3> SUFFICES ASSUME Understood(fd)' PROVE AsSent(fd)'
      OBVIOUS
    <3>1. Understood(fd) /\ sent[fd] \in Responses
      BY <1>7, <2>2
    <3>2. rest = <<>> /\ h = ExpectedOf(sent[fd])
      BY <1>5, <1>8, <3>1
    <3>3. header'[fd] = ExpectedOf(sent[fd]) /\ fd \notin open'
      BY <1>3, <2>1, <2>2, <3>2
    <3> QED
      BY <1>4, <1>5, <3>1, <3>2, <3>3 DEF AsSent
  <2>5. Known(fd)' /\ \A g \in Fds \ {fd} : g \in open' <=> g \in open
    BY <2>2 DEF Known
  <2> QED
    BY <1>1, <1>2, <2>1, <2>2, <2>3, <2>4, <2>5, HandledInv DEF rest
<1>9. CASE ~Complete(h, length[fd] + n)
  <2>1. Keep(fd, n) /\ header' = header /\ nodes' = nodes
    BY <1>9 DEF handleServer
  <2>2. /\ length' = [length EXCEPT ![fd] = Len(a)] /\ open' = open /\ ended' = ended
        /\ header' = [header EXCEPT ![fd] = header[fd]]
    BY <1>2, <1>3, <2>1 DEF Keep, insertPartialBuffer
  <2>3. isServer(fd)' /\ Known(fd)'
    BY <2>1 DEF isServer, Known
  <2>4. Understood(fd)' => AsSent(fd)'
    <3> SUFFICES ASSUME Understood(fd)' PROVE AsSent(fd)'
      OBVIOUS
    <3>1. Understood(fd) /\ sent[fd] \in Responses
      BY <1>7, <2>3
    <3>2. rest # <<>>
      BY <1>5, <1>9, <3>1
    <3>3. text'[fd] = a /\ header'[fd] = Incomplete
      BY <1>1, <1>3, <1>5, <2>1, <3>1
    <3> QED
      BY <1>4, <1>5, <3>1, <3>2, <3>3 DEF AsSent
  <2> QED
    BY <1>1, <1>2, <1>3, <2>1, <2>2, <2>3, <2>4, HandledInv DEF rest
<1> QED
  BY <1>8, <1>9

\* A read, and what the handler makes of it.
LEMMA AssemblyReadInv ==
  ASSUME AssemblyInv, NEW fd \in Fds, NEW n \in 1..BufSize, Read(fd, n) PROVE AssemblyInv'
<1> DEFINE rest == SubSeq(wire[fd], n + 1, Len(wire[fd]))
<1>1. PICK h \in Outcomes(fd, n) :
        \/ ReadFails(fd, n, h)
        \/ ~isServer(fd) /\ handleClient(fd, n, h)
        \/ isServer(fd) /\ handleServer(fd, n, h)
  BY DEF Read
<1>2. MemoryInv'
  <2>1. [Next]_vars
    BY DEF Next
  <2> QED
    BY <2>1, MemoryIsUsedAsAllowed, MemoryStep DEF AssemblyInv
<1>3. CASE ReadFails(fd, n, h)
  <2>1. /\ n <= Len(wire[fd]) /\ wire' = [wire EXCEPT ![fd] = rest]
        /\ sent' = sent /\ plain' = plain
    BY DEF Read
  <2>2. /\ ended' = TRUE /\ length' = length /\ open' = open
        /\ text' = text /\ header' = header /\ nodes' = nodes
    BY <1>3 DEF ReadFails, Overflow, EndInParser
  <2>3. rest \in Seq(Seq(Part)) /\ wire[fd] # <<>>
    BY <2>1, ReadSplits
  <2>4. /\ wire \in [Fds -> Seq(Seq(Part))] /\ header = [g \in Fds |-> header[g]]
        /\ text \in [Fds -> Seq(Seq(Part))]
    BY DEF AssemblyInv, TextTypeOK
  <2> HIDE DEF rest
  <2>5. AssemblyTypeOK'
    BY <1>2, <2>1, <2>2 DEF AssemblyInv, AssemblyTypeOK, MemoryInv
  <2>6. TextTypeOK'
    <3>1. wire' \in [Fds -> Seq(Seq(Part))]
      BY <2>1, <2>3, <2>4
    <3> QED
      BY <2>2, <2>4, <3>1 DEF TextTypeOK
  <2>7. AsMeant'
    <3>1. sent[fd] # NoMessage
      BY <2>3 DEF AssemblyInv, AsMeant
    <3>2. \A g \in Fds : sent'[g] = NoMessage => wire'[g] = <<>>
      BY <2>1, <2>4, <3>1 DEF AssemblyInv, AsMeant
    <3>3. \A g \in Fds : Known(g)'
      BY <2>1, <2>2 DEF AssemblyInv, AsMeant, Known, isServer
    <3> QED
      BY <2>2, <3>2, <3>3 DEF AsMeant
  <2> QED
    BY <1>2, <2>5, <2>6, <2>7 DEF AssemblyInv
<1> QED
  BY <1>1, <1>2, <1>3, ClientReadInv, ServerReadInv

\* AssemblyInv is inductive.
LEMMA AssemblyStep == AssemblyInv /\ [Next]_vars => AssemblyInv'
<1> SUFFICES ASSUME AssemblyInv, [Next]_vars PROVE AssemblyInv'
  OBVIOUS
<1>1. CASE Next
  BY <1>1, ConnectInv, NextRequestInv, HangupInv, AssemblyReadInv DEF Next
<1>2. CASE UNCHANGED vars
  BY <1>2 DEF vars, memory, AssemblyInv, MemoryInv, MemoryTypeOK, Fits, ScanInBounds,
              AssemblyTypeOK, TextTypeOK, AsMeant, AsSent, Known, Understood, isServer
<1> QED
  BY <1>1, <1>2

\* The memory and the histories are typed, and each buffer is as long as what it holds.
THEOREM AssemblyIsTyped == Spec => []AssemblyTypeOK
<1>1. AssemblyInv => AssemblyTypeOK
  BY DEF AssemblyInv
<1> QED
  BY <1>1, AssemblyInitInv, AssemblyStep, PTL DEF Spec

(***************************************************************************)
(* Of a plain client that isServer does not take for an origin, however    *)
(* the reads are cut, handleClient acts on the method, URL, host and port  *)
(* of the request that was sent, and only when all of it has arrived.      *)
(***************************************************************************)
THEOREM RequestsAreMeant == Spec => []RequestMeant
<1>1. AssemblyInv => RequestMeant
  <2> SUFFICES ASSUME AssemblyInv, NEW fd \in Fds, sent[fd] \in Requests, Understood(fd), ~ended
               PROVE  header[fd] = IF wire[fd] = <<>> THEN ExpectedRequest(sent[fd]) ELSE Incomplete
    BY DEF RequestMeant
  <2>1. AsSent(fd) /\ sent[fd] # NoMessage
    BY WordsType DEF AssemblyInv, AsMeant
  <2> QED
    BY <2>1 DEF AsSent, ExpectedOf
<1> QED
  BY <1>1, AssemblyInitInv, AssemblyStep, PTL DEF Spec

(***************************************************************************)
(* The response of a plain origin goes to handleServer and is complete     *)
(* with the read that brings its last byte, never before it, never after,  *)
(* whatever nodes its descriptor has from earlier connections.             *)
(***************************************************************************)
THEOREM ResponsesEndInTime == Spec => []RecognisedAtItsEnd
<1>1. AssemblyInv => RecognisedAtItsEnd
  <2> SUFFICES ASSUME AssemblyInv, NEW fd \in Fds, sent[fd] \in Responses, Understood(fd), ~ended
               PROVE  header[fd] = IF wire[fd] = <<>> THEN ExpectedResponse(sent[fd]) ELSE Incomplete
    BY DEF RecognisedAtItsEnd
  <2>1. AsSent(fd) /\ sent[fd] # NoMessage
    BY WordsType DEF AssemblyInv, AsMeant
  <2>2. sent[fd] \notin Requests
    BY AssemblyAssumption
  <2> QED
    BY <2>1, <2>2 DEF AsSent, ExpectedOf
<1> QED
  BY <1>1, AssemblyInitInv, AssemblyStep, PTL DEF Spec

(***************************************************************************)
(* No cut of a plain message makes a parser read what is not there, the    *)
(* stack too small or a buffer too large: the read that ends the process   *)
(* is of a peer that is not plain, or of a client taken for an origin.     *)
(***************************************************************************)
THEOREM PlainPeersNeverEndIt == Spec => PlainNeverFaults
<1> DEFINE Ends == ~ended /\ ended' => \E fd \in Fds : wire'[fd] # wire[fd] /\ ~Understood(fd)
<1>1. AssemblyInv /\ [Next]_vars => [Ends]_vars
  <2> SUFFICES ASSUME AssemblyInv, Next, ~ended, ended'
               PROVE  \E fd \in Fds : wire'[fd] # wire[fd] /\ ~Understood(fd)
    OBVIOUS
  <2>1. ASSUME NEW fd \in Fds, handleNewConnection(fd) \/ ConnectOrigin(fd) PROVE FALSE
    BY <2>1 DEF handleNewConnection, ConnectOrigin, Connect, Open
  <2>2. ASSUME NEW fd \in Fds, NextRequest(fd) PROVE FALSE
    BY <2>2 DEF NextRequest, memory
  <2>3. ASSUME NEW fd \in Fds, Hangup(fd) PROVE FALSE
    BY <2>3 DEF Hangup, Disconnect
  <2>4. PICK fd \in Fds, n \in 1..BufSize : Read(fd, n)
    BY <2>1, <2>2, <2>3 DEF Next
  <2>5. PICK h \in Outcomes(fd, n) :
          ReadFails(fd, n, h) \/ handleClient(fd, n, h) \/ handleServer(fd, n, h)
    BY <2>4 DEF Read
  <2>6. ReadFails(fd, n, h)
    BY <2>5 DEF handleClient, handleServer, Keep, Clear, Close, insertPartialBuffer
  <2>7. ~Understood(fd)
    BY <2>4, <2>6, ReadOfUnderstood
  <2>8. wire'[fd] # wire[fd]
    <3> DEFINE rest == SubSeq(wire[fd], n + 1, Len(wire[fd]))
    <3>1. wire' = [wire EXCEPT ![fd] = rest] /\ rest # wire[fd]
      BY <2>4, ReadSplits DEF Read
    <3>2. wire \in [Fds -> Seq(Seq(Part))]
      BY DEF AssemblyInv, TextTypeOK
    <3> HIDE DEF rest
    <3> QED
      BY <3>1, <3>2
  <2> QED
    BY <2>7, <2>8
<1> QED
  BY <1>1, AssemblyInitInv, AssemblyStep, PTL DEF Spec, PlainNeverFaults

===============================================================================
