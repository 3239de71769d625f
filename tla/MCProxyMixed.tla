----------------------------- MODULE MCProxyMixed -----------------------------
(***************************************************************************)
(* Every method, cache keys that may be read past their end, and a tunnel  *)
(* whose ends never fall silent: an end may say more as soon as what it    *)
(* said was read, for ever, so that its descriptor is ready in every pass. *)
(***************************************************************************)
EXTENDS ProxyClaims

MCKeysRead == [u \in Urls |-> {u, NoUrl}]
TerminatedKeys == [u \in Urls |-> {u}]
Answer == [kind : {"end"}, max_age : MaxAges]
Piece == [kind |-> "data"]

OneRequest == << [kind : {"req"}, method : Methods, url : Urls] >>
OneAnswer == << Answer >>
AnswerOrPiece == << Answer \cup {Piece} >>

\* An end of a tunnel goes on, whatever Proxy lets it send.
KeepsTalking(fd) ==
  /\ Alive /\ partner[fd] # 0 /\ ~sock[fd].fin /\ sock[fd].inq = <<>>
  /\ \E c \in Data : sock' = [sock EXCEPT ![fd].inq = <<c>>]
  /\ UNCHANGED <<cacheVars, bufferVars, secure_list, loopVars, server_list,
                 conns, ghosts>>

BusySpec ==
  /\ Init /\ [][Next \/ \E fd \in Fds : KeepsTalking(fd)]_vars
  /\ WF_loopVars(Loop) /\ WF_vars(Tick)

==============================================================================
