-------------------------------- MODULE Parsers -------------------------------
(***************************************************************************)
(* HttpReqParser.c and HttpResParser.c as what they do to words.  A text   *)
(* is a sequence of words; a word is what lies between blanks and line     *)
(* ends, cut into parts at the other character the parser cuts at: ':' for *)
(* requests, '=' for responses.  The empty word is the blank line.  What   *)
(* cuts where is strtok's choice of delimiters, token by token.            *)
(***************************************************************************)
EXTENDS Integers, SequencesExt

CONSTANTS
  Numeral,       \* the numbers that tokens stand for, of those made of digits
  MaxHeaderSize, \* MAX_HEADER_SIZE, in words
  StackSize,     \* the longest text whose copy the stack has room for
  DefaultMaxAge  \* DEFAULT_MAX_AGE

ASSUME ParsersAssumption ==
  /\ \A token \in DOMAIN Numeral : Numeral[token] \in Nat
  /\ MaxHeaderSize \in Nat /\ StackSize \in Nat /\ DefaultMaxAge \in Nat

Blank == <<>>

string_is_number(s) == s \in DOMAIN Numeral
atoi(s) == IF string_is_number(s) THEN Numeral[s] ELSE 0

\* The place of "\r\n\r\n" in a text, 0 if it is not there.
HeaderEnd(text) == SelectInSeq(text, LAMBDA w : w = Blank)

\* What parsing may come to, but for a header: strdup, atoi or strncmp of a null
\* pointer, or a copy the stack has no room for; or no blank line yet.
Fault      == [outcome |-> "fault"]
Incomplete == [outcome |-> "incomplete"]

-------------------------------------------------------------------------------
\* new_req_head: the defaults.
new_req_head(method, url) == [method |-> method, url |-> url, host |-> "", port |-> 80]

\* Mutant of WithPort: a number is not recognised.
WithoutPort(h, token) == h

WithPort(h, token) ==
  IF string_is_number(token) THEN [h EXCEPT !.port = atoi(token)] ELSE h

\* Where the loop of a parser is: the header so far, and what the next token is to it.
Awaits(h, what) == [header |-> h, next |-> what]

\* A turn of the loop of parse_http_req.
ReqTurn(s, token) ==
  IF s.next = "field" /\ token = "Host" THEN Awaits(s.header, "host")
  ELSE LET h == IF s.next = "host" THEN [s.header EXCEPT !.host = token] ELSE s.header
       IN  Awaits(WithPort(h, token), "field")

\* The loop, over the tokens that follow the first line.
ReqLoop(s, tokens) ==
  LET loop[k \in 0..Len(tokens)] == IF k = 0 THEN s ELSE ReqTurn(loop[k - 1], tokens[k])
  IN  loop[Len(tokens)]

ReqFields(h, tokens) ==
  LET last == ReqLoop(Awaits(h, "field"), tokens)
  IN  IF last.next = "host" THEN Fault ELSE last.header

\* The fourth token is not cut at ':'.
Uncut(word) == IF Len(word) > 1 /\ word[1] # "Host" THEN "uncut" ELSE word[1]

\* strtok passes over blank lines.
Nonblank(text) ==
  FlattenSeq([k \in 1..Len(text) |-> IF text[k] = Blank THEN <<>> ELSE <<text[k]>>])

(***************************************************************************)
(* The whole buffer is copied to the stack at every read, however long it  *)
(* has become, and searched for tokens, not only the header.               *)
(***************************************************************************)
parse_http_req(text) ==
  IF Len(text) > StackSize THEN Fault
  ELSE IF HeaderEnd(text) = 0 THEN Incomplete
  ELSE LET words  == Nonblank(text)
           tokens == IF Len(words) < 4 THEN <<>>
                     ELSE <<Uncut(words[4])>> \o FlattenSeq(SubSeq(words, 5, Len(words)))
       IN  IF Len(words) < 3 THEN Fault
           ELSE LET h == ReqFields(new_req_head(words[1], words[2]), tokens)
                IN  IF h # Fault /\ h.host = "" THEN [h EXCEPT !.host = h.url[1]] ELSE h

-------------------------------------------------------------------------------
\* new_res_head: the defaults.
new_res_head == [max_age |-> DefaultMaxAge, header_length |-> -1, content_length |-> -1]

\* Mutant of AfterPart: '=' is no delimiter.
AfterWord(word) == <<>>

\* What is left of a word when strtok took its first part, cutting at '=' too.
AfterPart(word) == Tail(word)

\* A turn of the loop of parse_http_res; nothing may be left of the word.
FieldTurn(h, word) ==
  Awaits(h, IF word = <<>> THEN "field"
            ELSE CASE word[1] = "Content-Length" -> "length"
                   [] word[1] = "Cache-Control"  -> "directive"
                   [] OTHER                      -> "field")

AgeTurn(h, word) ==
  IF word = <<>> THEN Awaits(h, "age")
  ELSE FieldTurn([h EXCEPT !.max_age = atoi(word[1])], AfterPart(word))

ResTurn(s, word) ==
  CASE s.next = "field"     -> FieldTurn(s.header, word)
    [] s.next = "length"    -> Awaits([s.header EXCEPT !.content_length = atoi(word[1])], "field")
    [] s.next = "directive" -> IF word[1] = "max-age" THEN AgeTurn(s.header, AfterPart(word))
                               ELSE FieldTurn(s.header, AfterPart(word))
    [] s.next = "age"       -> AgeTurn(s.header, word)

\* The loop, over the words that follow the status line.
ResLoop(s, words) ==
  LET loop[k \in 0..Len(words)] == IF k = 0 THEN s ELSE ResTurn(loop[k - 1], words[k])
  IN  loop[Len(words)]

ResFields(h, words) ==
  LET last == ResLoop(Awaits(h, "field"), words)
  IN  IF last.next = "field" THEN last.header ELSE Fault

\* What parse_http_res looks at.
HeadOf(text) == SubSeq(text, 1, IF Len(text) < MaxHeaderSize THEN Len(text) ELSE MaxHeaderSize)

parse_http_res(text) ==
  LET head == HeadOf(text)
      last == HeaderEnd(head)
  IN  IF last = 0 THEN Incomplete
      ELSE ResFields([new_res_head EXCEPT !.header_length = last],
                     SubSeq(head, 4, last - 1))

(***************************************************************************)
(* What parse_http_res may come to of a request, which it cuts at other    *)
(* characters than the words of the text were cut at: where the header     *)
(* ends is certain, what is taken for a length and whether a token is      *)
(* missed are left open.                                                   *)
(***************************************************************************)
Misread(text) ==
  LET last == HeaderEnd(HeadOf(text))
  IN  IF last = 0 THEN {Incomplete}
      ELSE {Fault} \cup {[new_res_head EXCEPT !.header_length = last, !.content_length = n] :
                           n \in -1..Len(text)}

===============================================================================
